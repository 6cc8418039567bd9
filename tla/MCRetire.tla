------------------------------ MODULE MCRetire ------------------------------
(***************************************************************************)
(* The migration of one repository, and then the removal of the installed  *)
(* ecosystem: the removal starts once an undisturbed migration is          *)
(* complete, so that what is promised of the migration is settled by then. *)
(* The two share no file.                                                  *)
(***************************************************************************)
EXTENDS Migration, Uninstall

VARIABLE focus

rvars == <<vars, uninstallVars, focus>>

RetireInit == focus = "migration" /\ Init /\ UninstallInit

TurnTo(next) ==
    /\ focus = "migration" /\ focus' = next
    /\ pc = "idle" /\ result = "applied" /\ Undisturbed /\ authorised /\ crashes = 0 /\ edits = 0
    /\ UNCHANGED <<vars, uninstallVars>>

RetireNext ==
    \/ focus = "migration" /\ Next /\ UNCHANGED <<uninstallVars, focus>>
    \/ TurnTo("removal")
    \/ focus = "removal" /\ UninstallNext /\ UNCHANGED <<vars, focus>>

\* The fairness of Migration's FairSpec; a removal is promised no retry.
RetireSpec == /\ RetireInit /\ [][RetireNext]_rvars
              /\ WF_vars(focus = "migration" /\ RunStep) /\ WF_vars(focus = "migration" /\ StartApply)

\* A replaced file, a derived artifact and the created pointer.
ThreeActions == <<"replace", "regenerate", "create">>
ThreePrevious == <<"old", "old", "absent">>
=============================================================================
