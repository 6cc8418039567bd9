SPECIFICATION Spec
CONSTANTS
    Txns = {t1, t2}
    Versions = {v1, v2}
    First = v1
    MaxDamages = 1
    NoTxn = NoTxn
    NoSkills = NoSkills
    NoPointer = NoPointer
    NoJournal = NoJournal
INVARIANTS
    InterruptedUpdateCanRollBack
