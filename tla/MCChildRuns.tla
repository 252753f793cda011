---------------------------- MODULE MCChildRuns ----------------------------
(* Small instances of ChildRuns.  Sessions are interchangeable: a session   *)
(* is compared with other sessions only.                                    *)
EXTENDS ChildRuns, TLC

SessionSymmetry == Permutations(Sessions)
=============================================================================
