---------------------------- MODULE MCPublication ----------------------------
EXTENDS Publication, TLC

(* Contents are interchangeable unless they are invalid or blank.            *)
ContentSymmetry == Permutations(Contents \ (Invalid \cup Blank))
=============================================================================
