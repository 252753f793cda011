-------------------------- MODULE MCAdapterSessions --------------------------
(* Instance of AdapterSessions for TLC.                                     *)
EXTENDS AdapterSessions, TLC

CallerSymmetry == Permutations(Callers)
=============================================================================
