------------------------------- MODULE RunLog -------------------------------
(***************************************************************************)
(* What the event path of a server run promises: the envelopes that        *)
(* Publish has taken, numbered in the order it took them, reach the        *)
(* server's log of the run in that order, none twice and none left out.    *)
(* How far the log has come is open; a publisher may stop at any point.    *)
(***************************************************************************)
EXTENDS Naturals, Sequences

VARIABLES accepted, log

Init == accepted = 0 /\ log = <<>>

Accept == accepted' = accepted + 1 /\ UNCHANGED log

Persist ==
  /\ Len(log) < accepted
  /\ log' = Append(log, Len(log) + 1)
  /\ UNCHANGED accepted

Next == Accept \/ Persist

Spec == Init /\ [][Next]_<<accepted, log>>
=============================================================================
