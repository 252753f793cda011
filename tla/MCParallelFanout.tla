-------------------------- MODULE MCParallelFanout --------------------------
(* Three fan-outs of one run.  `each` runs a subworkflow for two items; its *)
(* body evaluates the lowered adapter step `lint`.  `deep` runs a           *)
(* subworkflow that evaluates `mid`, a lowered subworkflow step that        *)
(* ignores failures, whose body evaluates the adapter step `unit`.  `flat`  *)
(* executes an adapter for three items and may be visited twice.            *)
EXTENDS ParallelFanout, TLC

CONSTANTS each, deep, mid, flat, lint, unit,
          Each, Lint1, Lint2, Deep, Mid, Unit, Flat,
          e1, e2, l1, l2, d1, m1, u1, u2, f1, f2, f3

MCMax == (each :> 2) @@ (deep :> 2) @@ (mid :> 1) @@ (flat :> 2) @@ (lint :> 1) @@ (unit :> 2)

MCOnFailure == (each :> "abort") @@ (deep :> "abort") @@ (mid :> "ignore")
            @@ (flat :> "abort") @@ (lint :> "abort") @@ (unit :> "continue")

MCMaxVisits == (each :> 0) @@ (deep :> 0) @@ (mid :> 0) @@ (flat :> 2) @@ (lint :> 0) @@ (unit :> 0)

MCStep == (Each :> each) @@ (Lint1 :> lint) @@ (Lint2 :> lint) @@ (Deep :> deep)
       @@ (Mid :> mid) @@ (Unit :> unit) @@ (Flat :> flat)

MCParent == (Each :> None) @@ (Lint1 :> e1) @@ (Lint2 :> e2) @@ (Deep :> None)
         @@ (Mid :> d1) @@ (Unit :> m1) @@ (Flat :> None)

MCCall == (e1 :> Each) @@ (e2 :> Each) @@ (l1 :> Lint1) @@ (l2 :> Lint2)
       @@ (d1 :> Deep) @@ (m1 :> Mid) @@ (u1 :> Unit) @@ (u2 :> Unit)
       @@ (f1 :> Flat) @@ (f2 :> Flat) @@ (f3 :> Flat)
=============================================================================
