--------------------------- MODULE MCPauseControl ---------------------------
(* A small instance of PauseControl: a step and a gate.  A rejection sends  *)
(* the run back to the step, so that the gate is visited again in a later   *)
(* pause cycle.                                                             *)
EXTENDS PauseControl, TLC

CONSTANTS c1, c2, work, review, done, approve, reject

MCSucc == work :> {review, done}

MCTarget == review :> (approve :> done @@ reject :> work)
=============================================================================
