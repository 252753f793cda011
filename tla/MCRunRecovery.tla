--------------------------- MODULE MCRunRecovery ---------------------------
(* A review loop: `build` iterates over two items, `review` is an approval *)
(* node that sends the run back to `build` or on to `ship`.                *)
EXTENDS RunRecovery, TLC

CONSTANTS build, ship, review, done

MCSteps == {build, ship}
MCGates == {review}
MCTerminals == {done}
MCSucc == build :> {review} @@ ship :> {done} @@ review :> {build, ship}
MCItems == build :> 2 @@ ship :> 1
MCMaxVisits == build :> 3 @@ ship :> 0
=============================================================================
