------------------------ MODULE ParallelFanoutProofs ------------------------
(***************************************************************************)
(* Proofs about ParallelFanout, for every nesting of fan-outs, every cap   *)
(* and every number of iterations.  No property is inductive.  The first   *)
(* part leaves the semaphores aside.  The visit counts stay in bounds      *)
(* because the goroutine that holds the lock is alone with a check that is *)
(* still true (CountInv); a fan-out that was cut short is not a success    *)
(* because whoever cancelled its context left a trace, a failed iteration  *)
(* or a cancelled parent, that is still there when the results are         *)
(* aggregated (CutInv).  Both need to know which calls can be running      *)
(* while a goroutine is where it is (RunInv).                              *)
(*                                                                         *)
(* The second part is about the semaphores.  The tokens in one are counted *)
(* by the goroutines that hold one (AccountInv).  What a semaphore bounds  *)
(* follows from how it was chosen (SemInv): a call either inherits the     *)
(* semaphore of the body it is made in, whose cap is its own, or uses the  *)
(* only one there is under its key, whose cap is its own too.  Nothing of  *)
(* this moves under a call that is using it, because the calls around it   *)
(* are running and a call chooses its semaphore once, when it starts.      *)
(***************************************************************************)
EXTENDS ParallelFanout, FiniteSetTheorems, TLAPS

Shape ==
    /\ status \in [Calls -> {"idle", "running", "done"}]
    /\ outcome \in [Calls -> Outcomes]
    /\ cancelled \in [Calls -> BOOLEAN]
    /\ visits \in [Calls -> Nat]
    /\ pc \in [Iters -> PCs]
    /\ result \in [Iters -> Results]

(* The goroutines of a call are under way only while it runs; while it runs *)
(* the body it was made in waits for it, and for no other call.             *)
Nested == {c \in Calls : status[c] = "running" /\ Parent[c] # None}

RunInv ==
    /\ \A i \in Iters : pc[i] \notin {"new", "done"} => status[Call[i]] = "running"
    /\ \A c \in Nested : pc[Parent[c]] = "inner"
    /\ \A c, d \in Nested : Parent[c] = Parent[d] => c = d

(* The goroutine that holds the lock of the visit counts is the only one    *)
(* and may count its visit.                                                 *)
CountInv ==
    \A i \in Iters : pc[i] = "counting" =>
        /\ VisitAllowed(Call[i])
        /\ \A j \in Iters : pc[j] = "counting" /\ Call[j] = Call[i] => j = i

(* Why a context is cancelled.                                              *)
FailedIteration(c) ==
    /\ OnFailure[Step[c]] = "abort"
    /\ \E i \in Iters : Call[i] = c /\ pc[i] = "done" /\ result[i] # "success"

CutInv ==
    \A c \in Calls :
        /\ status[c] = "idle" => ~cancelled[c]
        /\ status[c] = "running" /\ cancelled[c] => ContextDone(c) \/ FailedIteration(c)

IInv == Shape /\ RunInv /\ CountInv /\ VisitsBounded /\ CutInv /\ CutShortIsNoSuccess

-----------------------------------------------------------------------------
(* What a step of an iteration may change.                                  *)
LEMMA IterationMoves ==
  ASSUME Shape, NEW i \in Iters, RunIteration(i)
  PROVE  /\ status' = status /\ outcome' = outcome /\ stopped' = stopped
         /\ pc[i] \notin {"new", "done", "inner"}
         /\ \E w \in PCs \ {"new", "inner"} : pc' = [pc EXCEPT ![i] = w]
         /\ \E r \in Results : result' = [result EXCEPT ![i] = r]
  <1> USE DEF Shape, PCs, AdapterPC, BodyPC, Results, semVars, GoTo, Record
  <1>1. ASSUME UNCHANGED result
        PROVE  \E r \in Results : result' = [result EXCEPT ![i] = r]
    <2>1. result' = [result EXCEPT ![i] = result[i]] /\ result[i] \in Results
      BY <1>1
    <2> QED BY <2>1
  <1>2. ASSUME NEW r \in Results, Release(i, r)
        PROVE  /\ pc' = [pc EXCEPT ![i] = "finish"]
               /\ result' = [result EXCEPT ![i] = r]
    BY <1>2 DEF Release
  <1>3. CASE Launch(i) BY <1>3, <1>1 DEF Launch
  <1>4. CASE AcquireSubtree(i) BY <1>4, <1>1 DEF AcquireSubtree
  <1>5. CASE AcquireLeaf(i) BY <1>5, <1>1 DEF AcquireLeaf
  <1>6. CASE BeginVisit(i) BY <1>6, <1>1, <1>2 DEF BeginVisit
  <1>7. CASE EndVisit(i) BY <1>7, <1>1 DEF EndVisit
  <1>8. CASE BeginAnnounce(i) BY <1>8, <1>1 DEF BeginAnnounce
  <1>9. CASE EndAnnounce(i) BY <1>9, <1>1 DEF EndAnnounce
  <1>10. CASE AdapterReturns(i) BY <1>10, <1>1, <1>2 DEF AdapterReturns
  <1>11. CASE EnterPlain(i) BY <1>11, <1>1 DEF EnterPlain
  <1>12. CASE LeavePlain(i) BY <1>12, <1>1 DEF LeavePlain
  <1>13. CASE EndBody(i) BY <1>13, <1>1 DEF EndBody
  <1>14. CASE Finish(i) BY <1>14, <1>1 DEF Finish
  <1> QED
    BY <1>3, <1>4, <1>5, <1>6, <1>7, <1>8, <1>9, <1>10, <1>11, <1>12, <1>13, <1>14
       DEF RunIteration

(* The visit counts change only when the goroutine holding the lock counts  *)
(* its visit; it takes the lock only when it is free and the limit allows.  *)
LEMMA IterationVisits ==
  ASSUME Shape, NEW i \in Iters, RunIteration(i)
  PROVE  \/ visits' = visits /\ pc'[i] # "counting"
         \/ /\ visits' = visits /\ VisitAllowed(Call[i])
            /\ \A j \in Iters : Call[j] = Call[i] => pc[j] # "counting"
         \/ /\ pc[i] = "counting" /\ pc'[i] # "counting"
            /\ visits' = [visits EXCEPT ![Call[i]] = @ + 1]
  <1> USE DEF Shape, GoTo, Release
  <1>1. CASE Launch(i) BY <1>1 DEF Launch
  <1>2. CASE AcquireSubtree(i) BY <1>2 DEF AcquireSubtree
  <1>3. CASE AcquireLeaf(i) BY <1>3 DEF AcquireLeaf
  <1>4. CASE BeginVisit(i) BY <1>4 DEF BeginVisit, ItemsOf
  <1>5. CASE EndVisit(i) BY <1>5 DEF EndVisit
  <1>6. CASE BeginAnnounce(i) BY <1>6 DEF BeginAnnounce
  <1>7. CASE EndAnnounce(i) BY <1>7 DEF EndAnnounce
  <1>8. CASE AdapterReturns(i) BY <1>8 DEF AdapterReturns
  <1>9. CASE EnterPlain(i) BY <1>9 DEF EnterPlain
  <1>10. CASE LeavePlain(i) BY <1>10 DEF LeavePlain
  <1>11. CASE EndBody(i) BY <1>11 DEF EndBody
  <1>12. CASE Finish(i) BY <1>12 DEF Finish
  <1> QED
    BY <1>1, <1>2, <1>3, <1>4, <1>5, <1>6, <1>7, <1>8, <1>9, <1>10, <1>11, <1>12
       DEF RunIteration

(* A context is cancelled by an iteration only when it ends with a failure  *)
(* in abort mode.                                                           *)
LEMMA IterationCancels ==
  ASSUME Shape, NEW i \in Iters, RunIteration(i)
  PROVE  \/ cancelled' = cancelled
         \/ /\ pc[i] = "finish" /\ pc' = [pc EXCEPT ![i] = "done"] /\ result' = result
            /\ cancelled' = [cancelled EXCEPT
                  ![Call[i]] = @ \/ (OnFailure[Step[Call[i]]] = "abort" /\ result[i] # "success")]
  BY DEF RunIteration, Launch, AcquireSubtree, AcquireLeaf, BeginVisit, EndVisit, BeginAnnounce,
         EndAnnounce, AdapterReturns, EnterPlain, LeavePlain, EndBody, Finish, GoTo

-----------------------------------------------------------------------------
(* What the end of a call leaves behind.                                    *)
LEMMA ReturnMoves ==
  ASSUME Shape, NEW c \in Calls, NEW o \in Outcomes, Return(c, o)
  PROVE  /\ status' = [status EXCEPT ![c] = "done"]
         /\ outcome' = [outcome EXCEPT ![c] = o]
         /\ \A i \in Iters : IF i = Parent[c] THEN pc'[i] \in {"body", "unwind"} ELSE pc'[i] = pc[i]
         /\ \A i \in Iters : Call[i] # c /\ i # Parent[c] => result'[i] = result[i]
         /\ pc' \in [Iters -> PCs] /\ result' \in [Iters -> Results]
  BY ParallelFanoutAssumption
     DEF Shape, Return, PCs, AdapterPC, BodyPC, Results

(* A call that is evaluated in a body finds it at a node, so the call is no *)
(* part of its own body and no other call of that body is running.          *)
LEMMA CallerIsBody ==
  ASSUME RunInv, NEW c \in Calls, CallerReady(c), Parent[c] # None
  PROVE  /\ pc[Parent[c]] = "body" /\ Parent[c] \in Iters
         /\ status[Call[Parent[c]]] = "running"
         /\ \A d \in Nested : Parent[d] # Parent[c]
  BY ParallelFanoutAssumption DEF RunInv, CallerReady, Nested

(* An aggregation ends in one of two ways.                                  *)
LEMMA AggregateOutcomes ==
  ASSUME NEW c \in Calls, NEW o \in Aggregate(c)
  PROVE  o \in Outcomes
  BY DEF Aggregate, Outcomes

(* The invariant holds before the first call.                               *)
LEMMA InitIInv == Init => IInv
  <1> SUFFICES ASSUME Init PROVE IInv
    OBVIOUS
  <1> USE ParallelFanoutAssumption DEF Init
  <1>1. Shape BY DEF Shape, Outcomes, PCs, Results
  <1>2. RunInv BY DEF RunInv, Nested
  <1>3. CountInv BY DEF CountInv
  <1>4. VisitsBounded BY DEF VisitsBounded
  <1>5. CutInv BY DEF CutInv
  <1>6. CutShortIsNoSuccess BY DEF CutShortIsNoSuccess
  <1> QED BY <1>1, <1>2, <1>3, <1>4, <1>5, <1>6 DEF IInv

(* Every step keeps the state in its shape.                                 *)
LEMMA ShapeNext ==
  ASSUME Shape, Next
  PROVE  Shape'
  <1> USE ParallelFanoutAssumption DEF Shape
  <1>1. CASE \E c \in Calls : StartCall(c)
    BY <1>1 DEF StartCall, PCs, AdapterPC, BodyPC
  <1>2. CASE \E c \in Calls : ReturnAtOnce(c)
    <2>1. PICK c \in Calls, o \in Outcomes : ReturnAtOnce(c) /\ Return(c, o)
      BY <1>2 DEF ReturnAtOnce, Outcomes
    <2> QED BY <2>1, ReturnMoves DEF ReturnAtOnce
  <1>3. CASE \E c \in Calls : EndCall(c)
    <2>1. PICK c \in Calls, o \in Outcomes : EndCall(c) /\ Return(c, o)
      BY <1>3, AggregateOutcomes DEF EndCall
    <2> QED BY <2>1, ReturnMoves DEF EndCall
  <1>4. CASE \E c \in Calls : Propagate(c)
    BY <1>4 DEF Propagate
  <1>5. CASE \E i \in Iters : RunIteration(i)
    <2>1. PICK i \in Iters : RunIteration(i)
      BY <1>5
    <2>2. pc' \in [Iters -> PCs] /\ result' \in [Iters -> Results] /\ status' = status /\ outcome' = outcome
      BY <2>1, IterationMoves
    <2>3. cancelled' \in [Calls -> BOOLEAN]
      BY <2>1, IterationCancels
    <2>4. visits' \in [Calls -> Nat]
      BY <2>1, IterationVisits
    <2> QED BY <2>2, <2>3, <2>4
  <1>6. CASE Stop BY <1>6 DEF Stop
  <1>7. CASE Finished BY <1>7 DEF Finished, vars
  <1> QED BY <1>1, <1>2, <1>3, <1>4, <1>5, <1>6, <1>7 DEF Next

(* Every step keeps calls and goroutines in step with each other.           *)
LEMMA RunInvNext ==
  ASSUME Shape, RunInv, Next
  PROVE  RunInv'
  <1> USE ParallelFanoutAssumption DEF Shape, RunInv, Nested
  <1>1. CASE \E c \in Calls : StartCall(c)
    <2>1. PICK c \in Calls : StartCall(c)
      BY <1>1
    <2>2. /\ status[c] = "idle" /\ CallerReady(c)
          /\ status' = [status EXCEPT ![c] = "running"]
          /\ pc' = [i \in Iters |-> IF Call[i] = c THEN "queued"
                                   ELSE IF i = Parent[c] THEN "inner" ELSE pc[i]]
      BY <2>1 DEF StartCall
    <2>3. \A i \in Iters : pc'[i] \notin {"new", "done"} => status'[Call[i]] = "running"
      BY <2>2, CallerIsBody
    <2>4. \A d \in Nested' : d = c \/ d \in Nested
      BY <2>2
    <2>5. \A d \in Nested' : pc'[Parent[d]] = "inner"
      BY <2>2, <2>4, CallerIsBody
    <2>6. \A d, e \in Nested' : Parent[d] = Parent[e] => d = e
      BY <2>2, <2>4, CallerIsBody
    <2> QED BY <2>3, <2>5, <2>6
  <1>2. ASSUME NEW c \in Calls, NEW o \in Outcomes, Return(c, o),
               Parent[c] # None => /\ status[Call[Parent[c]]] = "running" /\ Call[Parent[c]] # c
                                   /\ \A d \in Nested : d # c => Parent[d] # Parent[c],
               \A i \in Iters : Call[i] = c => pc[i] \in {"new", "done"}
        PROVE  RunInv'
    <2>1. /\ status' = [status EXCEPT ![c] = "done"]
          /\ \A i \in Iters : IF i = Parent[c] THEN pc'[i] \in {"body", "unwind"} ELSE pc'[i] = pc[i]
      BY <1>2, ReturnMoves
    <2>2. \A i \in Iters : pc'[i] \notin {"new", "done"} => status'[Call[i]] = "running"
      BY <1>2, <2>1
    <2>3. \A d \in Nested' : d # c /\ d \in Nested
      BY <2>1
    <2> QED BY <1>2, <2>1, <2>2, <2>3
  <1>3. CASE \E c \in Calls : ReturnAtOnce(c)
    <2>1. PICK c \in Calls, o \in Outcomes : ReturnAtOnce(c) /\ Return(c, o)
      BY <1>3 DEF ReturnAtOnce, Outcomes
    <2>2. status[c] = "idle" /\ CallerReady(c)
      BY <2>1 DEF ReturnAtOnce
    <2>3. \A i \in Iters : Call[i] = c => pc[i] \in {"new", "done"}
      BY <2>2
    <2>4. Parent[c] # None => /\ status[Call[Parent[c]]] = "running" /\ Call[Parent[c]] # c
                              /\ \A d \in Nested : d # c => Parent[d] # Parent[c]
      BY <2>2, CallerIsBody
    <2> QED BY <1>2, <2>1, <2>3, <2>4
  <1>4. CASE \E c \in Calls : EndCall(c)
    <2>1. PICK c \in Calls, o \in Outcomes : EndCall(c) /\ Return(c, o)
      BY <1>4, AggregateOutcomes DEF EndCall
    <2>2. status[c] = "running" /\ \A i \in Iters : Call[i] = c => pc[i] = "done"
      BY <2>1 DEF EndCall, ItemsOf
    <2>3. Parent[c] # None => /\ status[Call[Parent[c]]] = "running" /\ Call[Parent[c]] # c
                              /\ \A d \in Nested : d # c => Parent[d] # Parent[c]
      BY <2>2
    <2> QED BY <1>2, <2>1, <2>2, <2>3
  <1>5. CASE \E i \in Iters : RunIteration(i)
    <2>1. PICK i \in Iters : RunIteration(i)
      BY <1>5
    <2>2. PICK w \in PCs \ {"new", "inner"} : pc' = [pc EXCEPT ![i] = w]
      BY <2>1, IterationMoves
    <2>3. status' = status /\ pc[i] \notin {"new", "done", "inner"}
      BY <2>1, IterationMoves
    <2> QED BY <2>2, <2>3
  <1>6. CASE Stop \/ Finished \/ \E c \in Calls : Propagate(c)
    BY <1>6 DEF Stop, Finished, vars, Propagate
  <1> QED BY <1>1, <1>3, <1>4, <1>5, <1>6 DEF Next

-----------------------------------------------------------------------------
(* max_visits: the check that the lock protects is still true when the      *)
(* visit is counted.                                                        *)
LEMMA CountInvNext ==
  ASSUME Shape, RunInv, CountInv, VisitsBounded, Next
  PROVE  CountInv' /\ VisitsBounded'
  <1> USE ParallelFanoutAssumption DEF Shape, CountInv, VisitsBounded, VisitAllowed
  <1>1. ASSUME UNCHANGED visits, \A i \in Iters : pc'[i] = "counting" => pc[i] = "counting"
        PROVE  CountInv' /\ VisitsBounded'
    BY <1>1
  <1>2. CASE \E c \in Calls : StartCall(c)
    BY <1>1, <1>2 DEF StartCall
  <1>3. CASE \E c \in Calls : ReturnAtOnce(c)
    <2>1. PICK c \in Calls, o \in Outcomes : ReturnAtOnce(c) /\ Return(c, o)
      BY <1>3 DEF ReturnAtOnce, Outcomes
    <2> QED BY <1>1, <2>1, ReturnMoves DEF ReturnAtOnce
  <1>4. CASE \E c \in Calls : EndCall(c)
    <2>1. PICK c \in Calls, o \in Outcomes : EndCall(c) /\ Return(c, o)
      BY <1>4, AggregateOutcomes DEF EndCall
    <2> QED BY <1>1, <2>1, ReturnMoves DEF EndCall
  <1>5. CASE \E i \in Iters : RunIteration(i)
    <2>1. PICK i \in Iters : RunIteration(i)
      BY <1>5
    <2>2. \A j \in Iters : j # i => pc'[j] = pc[j]
      BY <2>1, IterationMoves
    <2>3. CASE visits' = visits /\ pc'[i] # "counting"
      BY <1>1, <2>2, <2>3
    <2>4. CASE /\ visits' = visits /\ VisitAllowed(Call[i])
               /\ \A j \in Iters : Call[j] = Call[i] => pc[j] # "counting"
      BY <2>2, <2>4
    <2>5. CASE /\ pc[i] = "counting" /\ pc'[i] # "counting"
               /\ visits' = [visits EXCEPT ![Call[i]] = @ + 1]
      <3>1. CountInv'
        <4>1. ASSUME NEW j \in Iters, pc'[j] = "counting"
              PROVE  pc[j] = "counting" /\ visits'[Call[j]] = visits[Call[j]]
          BY <2>2, <2>5, <4>1
        <4> QED BY <4>1
      <3>2. VisitsBounded'
        <4>1. VisitAllowed(Call[i])
          BY <2>5
        <4> QED BY <2>5, <4>1
      <3> QED BY <3>1, <3>2
    <2> QED BY <2>1, <2>3, <2>4, <2>5, IterationVisits
  <1>6. CASE Stop \/ Finished \/ \E c \in Calls : Propagate(c)
    BY <1>1, <1>6 DEF Stop, Finished, vars, Propagate
  <1> QED BY <1>2, <1>3, <1>4, <1>5, <1>6 DEF Next

-----------------------------------------------------------------------------
(* While a call runs, the reason for which its context was cancelled stays. *)
LEMMA ReasonStays ==
  ASSUME Shape, NEW c \in Calls, ContextDone(c) \/ FailedIteration(c),
         stopped => stopped',
         \A d \in Calls : cancelled[d] => cancelled'[d],
         \A i \in Iters : Call[i] = c /\ pc[i] = "done" => pc'[i] = pc[i] /\ result'[i] = result[i]
  PROVE  (ContextDone(c) \/ FailedIteration(c))'
  BY ParallelFanoutAssumption DEF ContextDone, FailedIteration

(* Only its items are left when the results of a call are aggregated: if it *)
(* was cancelled, its reason excludes all_succeeded.                        *)
LEMMA CutAggregate ==
  ASSUME NEW c \in Calls, ContextDone(c) \/ FailedIteration(c)
  PROVE  "all_succeeded" \notin Aggregate(c)
  <1>1. CASE ContextDone(c)
    BY <1>1 DEF Aggregate
  <1>2. CASE FailedIteration(c)
    <2>1. PICK i \in Iters : Call[i] = c /\ result[i] # "success"
      BY <1>2 DEF FailedIteration
    <2>2. {result[j] : j \in ItemsOf(c)} # {"success"}
      BY <2>1 DEF ItemsOf
    <2>3. OnFailure[Step[c]] = "abort"
      BY <1>2 DEF FailedIteration
    <2> QED BY <2>2, <2>3 DEF Aggregate
  <1> QED BY <1>1, <1>2

(* Every step keeps the trace of a cancellation.                            *)
LEMMA CutInvNext ==
  ASSUME Shape, RunInv, CutInv, CutShortIsNoSuccess, Next
  PROVE  CutInv' /\ CutShortIsNoSuccess'
  <1> USE ParallelFanoutAssumption DEF Shape
  <1>1. CASE \E c \in Calls : StartCall(c)
    <2>1. PICK c \in Calls : StartCall(c)
      BY <1>1
    <2>2. /\ status[c] = "idle" /\ CallerReady(c) /\ status' = [status EXCEPT ![c] = "running"]
          /\ UNCHANGED <<outcome, cancelled, result, stopped>>
          /\ pc' = [i \in Iters |-> IF Call[i] = c THEN "queued"
                                   ELSE IF i = Parent[c] THEN "inner" ELSE pc[i]]
      BY <2>1 DEF StartCall
    <2>3. \A i \in Iters : Call[i] # c /\ pc[i] = "done" => pc'[i] = pc[i]
      BY <2>2, CallerIsBody
    <2>4. ASSUME NEW d \in Calls, status'[d] = "running", cancelled'[d]
          PROVE  (ContextDone(d) \/ FailedIteration(d))'
      <3>1. d # c /\ status[d] = "running" /\ cancelled[d]
        BY <2>2, <2>4 DEF CutInv
      <3>2. ContextDone(d) \/ FailedIteration(d)
        BY <3>1 DEF CutInv
      <3> QED BY <2>2, <2>3, <3>1, <3>2, ReasonStays
    <2> QED BY <2>2, <2>4 DEF CutInv, CutShortIsNoSuccess
  <1>2. ASSUME NEW c \in Calls, NEW o \in Outcomes, Return(c, o), UNCHANGED <<cancelled, stopped>>,
               cancelled[c] => o # "all_succeeded",
               Parent[c] # None => pc[Parent[c]] # "done"
        PROVE  CutInv' /\ CutShortIsNoSuccess'
    <2>1. /\ status' = [status EXCEPT ![c] = "done"]
          /\ outcome' = [outcome EXCEPT ![c] = o]
          /\ \A i \in Iters : i # Parent[c] => pc'[i] = pc[i]
          /\ \A i \in Iters : Call[i] # c /\ i # Parent[c] => result'[i] = result[i]
      BY <1>2, ReturnMoves
    <2>2. CutShortIsNoSuccess'
      BY <1>2, <2>1 DEF CutShortIsNoSuccess
    <2>3. ASSUME NEW d \in Calls, status'[d] = "running", cancelled'[d]
          PROVE  (ContextDone(d) \/ FailedIteration(d))'
      <3>1. d # c /\ status[d] = "running" /\ cancelled[d]
        BY <1>2, <2>1, <2>3
      <3>2. ContextDone(d) \/ FailedIteration(d)
        BY <3>1 DEF CutInv
      <3>3. \A i \in Iters : Call[i] = d /\ pc[i] = "done" => pc'[i] = pc[i] /\ result'[i] = result[i]
        BY <1>2, <2>1, <3>1
      <3> QED BY <1>2, <3>2, <3>3, ReasonStays
    <2>4. \A d \in Calls : status'[d] = "idle" => ~cancelled'[d]
      BY <1>2, <2>1 DEF CutInv
    <2> QED BY <2>2, <2>3, <2>4 DEF CutInv
  <1>3. CASE \E c \in Calls : ReturnAtOnce(c)
    <2>1. PICK c \in Calls, o \in Outcomes : ReturnAtOnce(c) /\ Return(c, o)
      BY <1>3 DEF ReturnAtOnce, Outcomes
    <2>2. ~cancelled[c] /\ UNCHANGED <<cancelled, stopped>> /\ CallerReady(c)
      BY <2>1 DEF ReturnAtOnce, CutInv
    <2>3. Parent[c] # None => pc[Parent[c]] # "done"
      BY <2>2, CallerIsBody
    <2> QED BY <1>2, <2>1, <2>2, <2>3
  <1>4. CASE \E c \in Calls : EndCall(c)
    <2>0. PICK c \in Calls : EndCall(c)
      BY <1>4
    <2>1. PICK o \in Aggregate(c) : Return(c, o)
      BY <2>0 DEF EndCall
    <2>2. status[c] = "running" /\ UNCHANGED <<cancelled, stopped>>
      BY <2>0 DEF EndCall
    <2>3. cancelled[c] => o # "all_succeeded"
      BY <2>1, <2>2, CutAggregate DEF CutInv
    <2>4. Parent[c] # None => pc[Parent[c]] # "done"
      BY <2>2 DEF RunInv, Nested
    <2> QED BY <1>2, <2>1, <2>2, <2>3, <2>4, AggregateOutcomes
  <1>5. CASE \E c \in Calls : Propagate(c)
    <2>1. PICK c \in Calls : Propagate(c)
      BY <1>5
    <2>2. /\ status[c] = "running" /\ ContextDone(c)
          /\ cancelled' = [cancelled EXCEPT ![c] = TRUE]
          /\ UNCHANGED <<status, outcome, pc, result, stopped>>
      BY <2>1 DEF Propagate
    <2>3. ASSUME NEW d \in Calls, status'[d] = "running", cancelled'[d]
          PROVE  (ContextDone(d) \/ FailedIteration(d))'
      <3>1. ContextDone(d) \/ FailedIteration(d)
        BY <2>2, <2>3 DEF CutInv
      <3>2. \A e \in Calls : cancelled[e] => cancelled'[e]
        BY <2>2
      <3> QED BY <2>2, <3>1, <3>2, ReasonStays
    <2> QED BY <2>2, <2>3 DEF CutInv, CutShortIsNoSuccess
  <1>6. CASE \E i \in Iters : RunIteration(i)
    <2>1. PICK i \in Iters : RunIteration(i)
      BY <1>6
    <2>2. /\ UNCHANGED <<status, outcome, stopped>> /\ pc[i] \notin {"new", "done"}
          /\ \A j \in Iters : j # i => pc'[j] = pc[j] /\ result'[j] = result[j]
      BY <2>1, IterationMoves
    <2>3. status[Call[i]] = "running"
      BY <2>2 DEF RunInv
    <2>4. \A d \in Calls : d # Call[i] => cancelled'[d] = cancelled[d]
      BY <2>1, IterationCancels
    <2>5. cancelled[Call[i]] => cancelled'[Call[i]]
      BY <2>1, IterationCancels
    <2>6. ASSUME NEW d \in Calls, status'[d] = "running", cancelled'[d]
          PROVE  (ContextDone(d) \/ FailedIteration(d))'
      <3>1. CASE cancelled[d]
        <4>1. ContextDone(d) \/ FailedIteration(d)
          BY <2>2, <2>6, <3>1 DEF CutInv
        <4> QED BY <2>2, <2>4, <2>5, <4>1, ReasonStays
      <3>2. CASE ~cancelled[d]
        <4>1. d = Call[i]
          BY <2>4, <2>6, <3>2
        <4>2. /\ pc'[i] = "done" /\ result'[i] # "success" /\ OnFailure[Step[d]] = "abort"
          BY <2>1, <2>6, <3>2, <4>1, IterationCancels
        <4> QED BY <4>1, <4>2 DEF FailedIteration
      <3> QED BY <3>1, <3>2
    <2> QED BY <2>2, <2>3, <2>4, <2>6 DEF CutInv, CutShortIsNoSuccess
  <1>7. CASE Stop
    <2>1. stopped' /\ UNCHANGED <<status, outcome, cancelled, pc, result>>
      BY <1>7 DEF Stop
    <2>2. ASSUME NEW d \in Calls, status'[d] = "running", cancelled'[d]
          PROVE  (ContextDone(d) \/ FailedIteration(d))'
      <3>1. ContextDone(d) \/ FailedIteration(d)
        BY <2>1, <2>2 DEF CutInv
      <3> QED BY <2>1, <3>1, ReasonStays
    <2> QED BY <2>1, <2>2 DEF CutInv, CutShortIsNoSuccess
  <1>8. CASE Finished
    BY <1>8 DEF Finished, vars, CutInv, CutShortIsNoSuccess, ContextDone, FailedIteration
  <1> QED BY <1>1, <1>3, <1>4, <1>5, <1>6, <1>7, <1>8 DEF Next

-----------------------------------------------------------------------------
(* The invariant depends on the variables only.                             *)
LEMMA StutterIInv == IInv /\ UNCHANGED vars => IInv'
  BY DEF IInv, vars, Shape, RunInv, Nested, CountInv, VisitAllowed, VisitsBounded, CutInv,
         ContextDone, FailedIteration, CutShortIsNoSuccess

(* The inductive invariant of the fan-outs.                                 *)
THEOREM Invariance == Spec => []IInv
  <1>1. IInv /\ [Next]_vars => IInv'
    <2> SUFFICES ASSUME IInv, Next PROVE IInv'
      BY StutterIInv
    <2> QED BY ShapeNext, RunInvNext, CountInvNext, CutInvNext DEF IInv
  <1> QED BY InitIInv, <1>1, PTL DEF Spec

(* max_visits bounds the attempts of all iterations of a parallel step      *)
(* together, for any number of iterations, calls and retries                *)
(* (incrementVisit under visitsMu).                                         *)
THEOREM VisitsAreBounded == Spec => []VisitsBounded
  <1>1. IInv => VisitsBounded
    BY DEF IInv
  <1> QED BY <1>1, Invariance, PTL

(* However fan-outs are nested, one whose context was cancelled is never    *)
(* reported as a success (evaluateParallel, aggregateParallelResults).      *)
THEOREM CutShortFails == Spec => []CutShortIsNoSuccess
  <1>1. IInv => CutShortIsNoSuccess
    BY DEF IInv
  <1> QED BY <1>1, Invariance, PTL

-----------------------------------------------------------------------------
(* Semaphores.                                                              *)


SemShape ==
    /\ eff \in [Calls -> Nat]
    /\ leaf \in [Calls -> Calls \cup {None}]
    /\ tokens \in [Calls -> Nat]
    /\ launched \in [Calls -> Nat]
    /\ attempt \in [Iters -> Nat]
    /\ stopped \in BOOLEAN

Opened(c) == leaf[c] # None

SameKey(c, d) ==
    Step[c] = Step[d] /\ Ceiling(c) = Ceiling(d) /\ ParallelSem(c) = ParallelSem(d)

(* Who has opened its semaphores.                                           *)
OpenInv ==
    /\ \A c \in Calls : Opened(c) => /\ status[c] # "idle"
                                     /\ Parent[c] # None => Opened(Call[Parent[c]])
    /\ \A c \in Calls : ~Opened(c) => status[c] # "running" /\ eff[c] = 0
    /\ \A i \in Iters : pc[i] = "subtree" => Lowered(Call[i])

(* How the semaphore of a call was chosen.                                  *)
SemInv ==
    /\ \A c \in Calls : Opened(c) =>
          /\ eff[c] = EffectiveParallelMax(Max[Step[c]], Ceiling(c))
          /\ leaf[leaf[c]] = leaf[c] /\ eff[leaf[c]] = eff[c]
          /\ \/ ParallelSem(c) # None /\ eff[c] = Ceiling(c) /\ leaf[c] = ParallelSem(c)
             \/ ~(ParallelSem(c) # None /\ eff[c] = Ceiling(c)) /\ SameKey(leaf[c], c)
    /\ \A c, d \in Made : SameKey(c, d) => c = d

LaunchSet(c)  == {i \in ItemsOf(c) : HoldsLaunch(i)}
LeafSet(c)    == {i \in Iters : HoldsLeaf(i) /\ leaf[Call[i]] = c}
SubtreeSet(c) == {i \in Iters : HoldsSubtree(i) /\ ParallelSem(Call[i]) = c}

(* Every token belongs to a goroutine, and there are no more than the cap.  *)
AccountInv ==
    \A c \in Calls :
        /\ launched[c] = Cardinality(LaunchSet(c))
        /\ tokens[c] = Cardinality(LeafSet(c)) + Cardinality(SubtreeSet(c))
        /\ tokens[c] <= eff[c]

FullInv == IInv /\ SemShape /\ OpenInv /\ SemInv /\ AccountInv

-----------------------------------------------------------------------------
(* Counting.                                                                *)
Bit(b) == IF b THEN 1 ELSE 0

(* Two finite sets that differ in one element at most.                      *)
LEMMA CardinalityMoves ==
  ASSUME NEW S, NEW T, IsFiniteSet(S), IsFiniteSet(T), NEW i, S \ {i} = T \ {i}
  PROVE  /\ Cardinality(S) \in Nat /\ Cardinality(T) \in Nat
         /\ Cardinality(T) = Cardinality(S) - Bit(i \in S) + Bit(i \in T)
  <1>1. Cardinality(S) \in Nat /\ Cardinality(T) \in Nat
    BY FS_CardinalityType
  <1>2. Cardinality(S \ {i}) = IF i \in S THEN Cardinality(S) - 1 ELSE Cardinality(S)
    BY FS_RemoveElement
  <1>3. Cardinality(T \ {i}) = IF i \in T THEN Cardinality(T) - 1 ELSE Cardinality(T)
    BY FS_RemoveElement
  <1> QED BY <1>1, <1>2, <1>3 DEF Bit

(* The holders of the tokens of a semaphore are finitely many.              *)
LEMMA HolderSetsFinite ==
  ASSUME NEW c
  PROVE  IsFiniteSet(LaunchSet(c)) /\ IsFiniteSet(LeafSet(c)) /\ IsFiniteSet(SubtreeSet(c))
  <1>1. /\ LaunchSet(c) \subseteq Iters /\ LeafSet(c) \subseteq Iters /\ SubtreeSet(c) \subseteq Iters
    BY DEF LaunchSet, LeafSet, SubtreeSet, ItemsOf
  <1> QED BY <1>1, FS_Subset, ParallelFanoutAssumption

-----------------------------------------------------------------------------
(* The tokens a goroutine holds, by where it is.                            *)
LaunchBit(w)  == Bit(w \notin {"new", "queued", "done"})
LeafBit(w)    == Bit(w \in AdapterPC \ {"leaf"})
SubtreeBit(w) == Bit(w \in AdapterPC \cup BodyPC)

(* A step of an iteration moves exactly the tokens it says it holds.        *)
Accounts(i) ==
    /\ \A c \in Calls :
          /\ launched'[c] = launched[c]
                + (IF c = Call[i] THEN LaunchBit(pc'[i]) - LaunchBit(pc[i]) ELSE 0)
          /\ tokens'[c] = tokens[c]
                + (IF c = leaf[Call[i]] THEN LeafBit(pc'[i]) - LeafBit(pc[i]) ELSE 0)
                + (IF Lowered(Call[i]) /\ c = ParallelSem(Call[i])
                   THEN SubtreeBit(pc'[i]) - SubtreeBit(pc[i]) ELSE 0)
          /\ tokens'[c] <= tokens[c] \/ tokens'[c] <= eff[c]
    /\ eff' = eff /\ leaf' = leaf /\ stopped' = stopped
    /\ attempt' \in [Iters -> Nat]
    /\ tokens' \in [Calls -> Int] /\ launched' \in [Calls -> Int]
    /\ pc'[i] = "subtree" => Lowered(Call[i])

(* A step of an iteration moves at most its own tokens.                     *)
LEMMA IterationAccounts ==
  ASSUME Shape, SemShape, RunInv, OpenInv, SemInv, NEW i \in Iters, RunIteration(i)
  PROVE  Accounts(i)
  <1> DEFINE c == Call[i]
             s == ParallelSem(Call[i])
             l == leaf[Call[i]]
             low == Lowered(Call[i])
  <1> USE ParallelFanoutAssumption
  <1>1. c \in Calls /\ pc[i] \in PCs
    BY DEF Shape
  <1>2. status[c] = "running" /\ l \in Calls
    BY <1>1, IterationMoves DEF RunInv, OpenInv, Opened, SemShape
  <1>3. low => s \in Calls
    BY <1>1, <1>2 DEF Lowered, ParallelSem, OpenInv, Opened, SemShape
  <1>4. low \in BOOLEAN /\ IsAdapter(i) \in BOOLEAN
    BY DEF Lowered, IsAdapter
  <1>5. pc[i] = "subtree" => low
    BY DEF OpenInv
  <1>6. pc'[i] \in PCs /\ \A w : pc' = [pc EXCEPT ![i] = w] => pc'[i] = w
    BY IterationMoves DEF Shape
  <1> HIDE DEF c, s, l, low
  <1> USE DEF Accounts, Shape, SemShape, LaunchBit, LeafBit, SubtreeBit, Bit, AdapterPC, BodyPC, GoTo, semVars
  <1>7. CASE Launch(i)
    BY <1>1, <1>2, <1>3, <1>4, <1>7 DEF Launch, c, s, l, low
  <1>8. CASE AcquireSubtree(i)
    BY <1>1, <1>2, <1>3, <1>4, <1>5, <1>8 DEF AcquireSubtree, c, s, l, low
  <1>9. ASSUME NEW t \in [Calls -> Int], tokens' = GiveBackSubtree(Call[i], t)
        PROVE  /\ tokens' \in [Calls -> Int]
               /\ \A d \in Calls : tokens'[d] = t[d] - Bit(low /\ d = s)
    BY <1>1, <1>3, <1>9 DEF GiveBackSubtree, c, s, low
  <1>10. CASE AcquireLeaf(i)
    <2>1. CASE /\ tokens' = [tokens EXCEPT ![l] = @ + 1] /\ tokens[l] < eff[l]
               /\ GoTo(i, "ready")
      BY <1>1, <1>2, <1>3, <1>4, <1>10, <2>1 DEF AcquireLeaf, c, s, l, low
    <2>2. CASE tokens' = GiveBackSubtree(c, tokens) /\ GoTo(i, "finish")
      BY <1>1, <1>2, <1>3, <1>4, <1>9, <1>10, <2>2 DEF AcquireLeaf, c, s, l, low
    <2> QED BY <1>10, <2>1, <2>2 DEF AcquireLeaf, c, l
  <1>11. ASSUME NEW r \in Results, Release(i, r), pc[i] \in {"ready", "exec"},
                UNCHANGED <<eff, leaf, launched, attempt, stopped>>
         PROVE  Accounts(i)
    <2>1. tokens' = GiveBackSubtree(c, [tokens EXCEPT ![l] = @ - 1]) /\ GoTo(i, "finish")
      BY <1>11 DEF Release, c, l
    <2>2. [tokens EXCEPT ![l] = @ - 1] \in [Calls -> Int]
      BY <1>2
    <2>3. \A d \in Calls : [tokens EXCEPT ![l] = @ - 1][d] = tokens[d] - Bit(d = l)
      BY <1>2
    <2>4. /\ tokens' \in [Calls -> Int]
          /\ \A d \in Calls : tokens'[d] = tokens[d] - Bit(d = l) - Bit(low /\ d = s)
      BY <1>9, <2>1, <2>2, <2>3 DEF c
    <2>5. pc'[i] = "finish"
      BY <2>1
    <2>6. /\ LeafBit(pc[i]) = 1 /\ SubtreeBit(pc[i]) = 1 /\ LaunchBit(pc[i]) = 1
          /\ LeafBit(pc'[i]) = 0 /\ SubtreeBit(pc'[i]) = 0 /\ LaunchBit(pc'[i]) = 1
      BY <1>11, <2>5
    <2>7. \A d \in Calls : /\ tokens[d] \in Nat /\ launched[d] \in Nat
                          /\ tokens'[d] = tokens[d] + (IF d = l THEN 0 - 1 ELSE 0)
                                                    + (IF low /\ d = s THEN 0 - 1 ELSE 0)
                          /\ tokens'[d] <= tokens[d]
      BY <2>4
    <2>8. launched' = launched /\ launched \in [Calls -> Int]
      BY <1>11
    <2> HIDE DEF LaunchBit, LeafBit, SubtreeBit, Bit
    <2> QED BY <1>11, <2>4, <2>5, <2>6, <2>7, <2>8 DEF c, s, l, low
  <1>12. CASE BeginVisit(i)
    <2>1. CASE GoTo(i, "counting") /\ UNCHANGED tokens
      BY <1>1, <1>2, <1>3, <1>4, <1>12, <2>1 DEF BeginVisit
    <2>2. CASE \E r \in Results : Release(i, r)
      BY <1>11, <1>12, <2>2 DEF BeginVisit
    <2> QED BY <1>12, <2>1, <2>2 DEF BeginVisit, Results
  <1>13. CASE EndVisit(i)
    BY <1>1, <1>2, <1>4, <1>13 DEF EndVisit
  <1>14. CASE BeginAnnounce(i)
    BY <1>1, <1>2, <1>4, <1>14 DEF BeginAnnounce
  <1>15. CASE EndAnnounce(i)
    BY <1>1, <1>2, <1>4, <1>15 DEF EndAnnounce
  <1>16. CASE AdapterReturns(i)
    <2>1. CASE GoTo(i, "ready") /\ UNCHANGED tokens
      BY <1>1, <1>2, <1>3, <1>4, <1>16, <2>1 DEF AdapterReturns
    <2>2. CASE \E r \in Results : Release(i, r)
      BY <1>11, <1>16, <2>2 DEF AdapterReturns
    <2> QED BY <1>16, <2>1, <2>2 DEF AdapterReturns, Results
  <1>17. CASE EnterPlain(i)
    BY <1>1, <1>2, <1>4, <1>17 DEF EnterPlain
  <1>18. CASE LeavePlain(i)
    BY <1>1, <1>2, <1>4, <1>18 DEF LeavePlain
  <1>19. CASE EndBody(i)
    <2>1. pc[i] \in {"body", "unwind"} /\ GoTo(i, "finish")
      BY <1>19 DEF EndBody
    <2>2. tokens' = GiveBackSubtree(c, tokens) /\ UNCHANGED <<eff, leaf, launched, attempt, stopped>>
      BY <1>19 DEF EndBody, c
    <2> QED BY <1>1, <1>2, <1>3, <1>4, <1>9, <2>1, <2>2 DEF c, s, l, low
  <1>20. CASE Finish(i)
    BY <1>1, <1>2, <1>4, <1>20 DEF Finish
  <1> QED
    BY <1>7, <1>8, <1>10, <1>12, <1>13, <1>14, <1>15, <1>16, <1>17, <1>18, <1>19, <1>20
       DEF RunIteration

(* The accounts stay balanced through a step of an iteration.               *)
LEMMA IterationBalances ==
  ASSUME Shape, SemShape, RunInv, OpenInv, SemInv, AccountInv, NEW i \in Iters, RunIteration(i)
  PROVE  AccountInv' /\ SemShape'
  <1> USE ParallelFanoutAssumption
  <1>1. Accounts(i)
    BY IterationAccounts
  <1>2. PICK w \in PCs : pc' = [pc EXCEPT ![i] = w]
    BY IterationMoves
  <1>3. /\ eff' = eff /\ leaf' = leaf /\ pc'[i] = w
        /\ \A j \in Iters : j # i => pc'[j] = pc[j]
    BY <1>1, <1>2 DEF Accounts, Shape
  <1>4. \A d : Lowered(d)' = Lowered(d) /\ ParallelSem(d)' = ParallelSem(d)
    BY <1>3 DEF Lowered, ParallelSem, Ceiling
  <1>5. ASSUME NEW c \in Calls
        PROVE  /\ launched'[c] = Cardinality(LaunchSet(c)')
               /\ tokens'[c] = Cardinality(LeafSet(c)') + Cardinality(SubtreeSet(c)')
               /\ tokens'[c] <= eff'[c]
    <2>1. /\ IsFiniteSet(LaunchSet(c)) /\ IsFiniteSet(LeafSet(c)) /\ IsFiniteSet(SubtreeSet(c))
          /\ IsFiniteSet(LaunchSet(c)') /\ IsFiniteSet(LeafSet(c)') /\ IsFiniteSet(SubtreeSet(c)')
      <3>1. /\ LaunchSet(c)' \subseteq Iters /\ LeafSet(c)' \subseteq Iters
            /\ SubtreeSet(c)' \subseteq Iters
        BY DEF LaunchSet, LeafSet, SubtreeSet, ItemsOf
      <3> QED BY <3>1, HolderSetsFinite, FS_Subset
    <2>2. /\ LaunchSet(c) \ {i} = LaunchSet(c)' \ {i}
          /\ LeafSet(c) \ {i} = LeafSet(c)' \ {i}
      BY <1>3 DEF LaunchSet, LeafSet, ItemsOf, HoldsLaunch, HoldsLeaf
    <2>3. SubtreeSet(c) \ {i} = SubtreeSet(c)' \ {i}
      BY <1>3, <1>4 DEF SubtreeSet, HoldsSubtree
    <2>4. /\ Bit(i \in LaunchSet(c)) = IF c = Call[i] THEN LaunchBit(pc[i]) ELSE 0
          /\ Bit(i \in LaunchSet(c)') = IF c = Call[i] THEN LaunchBit(pc'[i]) ELSE 0
      BY DEF Bit, LaunchBit, LaunchSet, ItemsOf, HoldsLaunch
    <2>5. /\ Bit(i \in LeafSet(c)) = IF c = leaf[Call[i]] THEN LeafBit(pc[i]) ELSE 0
          /\ Bit(i \in LeafSet(c)') = IF c = leaf[Call[i]] THEN LeafBit(pc'[i]) ELSE 0
      BY <1>3 DEF Bit, LeafBit, LeafSet, HoldsLeaf
    <2>6. /\ Bit(i \in SubtreeSet(c)) = IF Lowered(Call[i]) /\ c = ParallelSem(Call[i])
                                        THEN SubtreeBit(pc[i]) ELSE 0
          /\ Bit(i \in SubtreeSet(c)') = IF Lowered(Call[i]) /\ c = ParallelSem(Call[i])
                                         THEN SubtreeBit(pc'[i]) ELSE 0
      BY <1>4 DEF Bit, SubtreeBit, SubtreeSet, HoldsSubtree
    <2>7. /\ Cardinality(LaunchSet(c)) \in Nat /\ Cardinality(LeafSet(c)) \in Nat
          /\ Cardinality(SubtreeSet(c)) \in Nat
          /\ Cardinality(LaunchSet(c)') = Cardinality(LaunchSet(c))
                                          - Bit(i \in LaunchSet(c)) + Bit(i \in LaunchSet(c)')
          /\ Cardinality(LeafSet(c)') = Cardinality(LeafSet(c))
                                        - Bit(i \in LeafSet(c)) + Bit(i \in LeafSet(c)')
          /\ Cardinality(SubtreeSet(c)') = Cardinality(SubtreeSet(c))
                                           - Bit(i \in SubtreeSet(c)) + Bit(i \in SubtreeSet(c)')
      BY <2>1, <2>2, <2>3, CardinalityMoves
    <2>8. \A v : LaunchBit(v) \in 0 .. 1 /\ LeafBit(v) \in 0 .. 1 /\ SubtreeBit(v) \in 0 .. 1
      BY DEF LaunchBit, LeafBit, SubtreeBit, Bit
    <2>9. /\ launched[c] = Cardinality(LaunchSet(c))
          /\ tokens[c] = Cardinality(LeafSet(c)) + Cardinality(SubtreeSet(c))
          /\ tokens[c] <= eff[c] /\ eff[c] \in Nat
      BY DEF AccountInv, SemShape
    <2>10. /\ launched'[c] = launched[c]
                 + (IF c = Call[i] THEN LaunchBit(pc'[i]) - LaunchBit(pc[i]) ELSE 0)
           /\ tokens'[c] = tokens[c]
                 + (IF c = leaf[Call[i]] THEN LeafBit(pc'[i]) - LeafBit(pc[i]) ELSE 0)
                 + (IF Lowered(Call[i]) /\ c = ParallelSem(Call[i])
                    THEN SubtreeBit(pc'[i]) - SubtreeBit(pc[i]) ELSE 0)
           /\ tokens'[c] <= tokens[c] \/ tokens'[c] <= eff[c]
      BY <1>1 DEF Accounts
    <2>11. launched'[c] = Cardinality(LaunchSet(c)')
      BY <2>4, <2>7, <2>8, <2>9, <2>10
    <2>12. tokens'[c] = Cardinality(LeafSet(c)') + Cardinality(SubtreeSet(c)')
      BY <2>5, <2>6, <2>7, <2>8, <2>9, <2>10
    <2>13. tokens'[c] <= eff'[c]
      BY <1>3, <2>7, <2>8, <2>9, <2>10
    <2> QED BY <2>11, <2>12, <2>13
  <1>6. AccountInv'
    BY <1>5 DEF AccountInv
  <1>7. ASSUME NEW c \in Calls
        PROVE  launched'[c] \in Nat /\ tokens'[c] \in Nat
    <2>1. /\ LaunchSet(c)' \subseteq Iters /\ LeafSet(c)' \subseteq Iters
          /\ SubtreeSet(c)' \subseteq Iters
      BY DEF LaunchSet, LeafSet, SubtreeSet, ItemsOf
    <2>2. /\ Cardinality(LaunchSet(c)') \in Nat /\ Cardinality(LeafSet(c)') \in Nat
          /\ Cardinality(SubtreeSet(c)') \in Nat
      BY <2>1, FS_Subset, FS_CardinalityType
    <2> QED BY <1>5, <2>2
  <1>8. SemShape'
    BY <1>1, <1>7 DEF Accounts, SemShape
  <1> QED BY <1>6, <1>8

-----------------------------------------------------------------------------
(* A call opens its semaphores.                                             *)
LEMMA StartCallOpens ==
  ASSUME Shape, SemShape, RunInv, OpenInv, SemInv, NEW c \in Calls, StartCall(c)
  PROVE  /\ ~Opened(c) /\ leaf'[c] \in Calls /\ eff'[c] \in Nat \ {0}
         /\ eff'[c] = EffectiveParallelMax(Max[Step[c]], Ceiling(c))
         /\ leaf'[c] = LeafSem(c, eff'[c])
         /\ \A d \in Calls : d # c => leaf'[d] = leaf[d] /\ eff'[d] = eff[d]
         /\ Parent[c] # None => Opened(Call[Parent[c]])
         /\ \A d \in Calls : Opened(d) \/ d = c =>
               Ceiling(d)' = Ceiling(d) /\ ParallelSem(d)' = ParallelSem(d)
  <1> USE ParallelFanoutAssumption
  <1>1. /\ status[c] = "idle" /\ CallerReady(c)
        /\ eff' = [eff EXCEPT ![c] = EffectiveParallelMax(Max[Step[c]], Ceiling(c))]
        /\ leaf' = [leaf EXCEPT ![c] = LeafSem(c, EffectiveParallelMax(Max[Step[c]], Ceiling(c)))]
    BY DEF StartCall
  <1>2. ~Opened(c)
    BY <1>1 DEF OpenInv
  <1>3. Parent[c] # None => Opened(Call[Parent[c]]) /\ Parent[c] \in Iters /\ Call[Parent[c]] \in Calls
    <2> HAVE Parent[c] # None
    <2>1. status[Call[Parent[c]]] = "running" /\ Parent[c] \in Iters
      BY <1>1, CallerIsBody
    <2> QED BY <2>1 DEF OpenInv
  <1>4. Ceiling(c) \in Nat
    BY <1>3 DEF Ceiling, SemShape
  <1>5. EffectiveParallelMax(Max[Step[c]], Ceiling(c)) \in Nat \ {0}
    BY <1>4 DEF EffectiveParallelMax
  <1>6. ParallelSem(c) \in Calls \cup {None}
    BY <1>3 DEF ParallelSem, SemShape
  <1>7. \A e : LeafSem(c, e) \in Calls
    <2>1. Cached(c) # {} => (CHOOSE d \in Cached(c) : TRUE) \in Calls
      BY DEF Cached
    <2> QED BY <1>6, <2>1 DEF LeafSem
  <1>8. \A d \in Calls : d # c => leaf'[d] = leaf[d] /\ eff'[d] = eff[d]
    BY <1>1 DEF SemShape
  <1>9. leaf'[c] = LeafSem(c, eff'[c]) /\ eff'[c] = EffectiveParallelMax(Max[Step[c]], Ceiling(c))
    BY <1>1 DEF SemShape
  <1>10. ASSUME NEW d \in Calls, Opened(d) \/ d = c
         PROVE  Ceiling(d)' = Ceiling(d) /\ ParallelSem(d)' = ParallelSem(d)
    <2>1. Parent[d] # None => Opened(Call[Parent[d]]) /\ Call[Parent[d]] \in Calls
      BY <1>3, <1>10 DEF OpenInv
    <2>2. Parent[d] # None => Call[Parent[d]] # c
      BY <1>2, <2>1
    <2> QED BY <1>8, <2>1, <2>2 DEF Ceiling, ParallelSem
  <1> QED BY <1>2, <1>3, <1>5, <1>7, <1>8, <1>9, <1>10

(* A call that starts leaves the order of openings intact.                  *)
LEMMA StartCallKeepsOpen ==
  ASSUME Shape, SemShape, RunInv, OpenInv, SemInv, NEW c \in Calls, StartCall(c)
  PROVE  OpenInv'
  <1> USE ParallelFanoutAssumption
  <1>1. /\ status' = [status EXCEPT ![c] = "running"]
        /\ \A i \in Iters : pc'[i] = "subtree" => pc[i] = "subtree"
    BY DEF StartCall, Shape
  <1>2. /\ leaf'[c] \in Calls /\ ~Opened(c)
        /\ \A d \in Calls : d # c => leaf'[d] = leaf[d] /\ eff'[d] = eff[d]
        /\ Parent[c] # None => Opened(Call[Parent[c]])
        /\ \A d \in Calls : Opened(d) =>
              Ceiling(d)' = Ceiling(d) /\ ParallelSem(d)' = ParallelSem(d)
    BY StartCallOpens
  <1>3. \A d \in Calls : Opened(d)' <=> d = c \/ Opened(d)
    BY <1>2 DEF Opened
  <1>4. \A d \in Calls : Parent[d] # None => Call[Parent[d]] \in Calls
    OBVIOUS
  <1>5. ASSUME NEW i \in Iters, pc'[i] = "subtree"
        PROVE  Lowered(Call[i])'
    <2>1. pc[i] = "subtree" /\ Call[i] \in Calls
      BY <1>1, <1>5
    <2>2. status[Call[i]] = "running" /\ Lowered(Call[i])
      BY <2>1 DEF RunInv, OpenInv
    <2>3. Opened(Call[i]) /\ Call[i] # c
      BY <1>2, <2>1, <2>2 DEF OpenInv
    <2> QED BY <1>2, <2>1, <2>2, <2>3 DEF Lowered
  <1>6. \A d \in Calls : Opened(d)' => /\ status'[d] # "idle"
                                       /\ Parent[d] # None => Opened(Call[Parent[d]])'
    BY <1>1, <1>2, <1>3, <1>4 DEF OpenInv, Shape
  <1>7. \A d \in Calls : ~Opened(d)' => status'[d] # "running" /\ eff'[d] = 0
    BY <1>1, <1>2, <1>3 DEF OpenInv, Shape
  <1> QED BY <1>5, <1>6, <1>7 DEF OpenInv

(* A call that starts chooses its semaphore as the others did.              *)
LEMMA StartCallKeepsSem ==
  ASSUME Shape, SemShape, RunInv, OpenInv, SemInv, NEW c \in Calls, StartCall(c)
  PROVE  SemInv'
  <1> USE ParallelFanoutAssumption
  <1>1. /\ leaf'[c] \in Calls /\ ~Opened(c) /\ eff'[c] \in Nat \ {0}
        /\ eff'[c] = EffectiveParallelMax(Max[Step[c]], Ceiling(c))
        /\ leaf'[c] = LeafSem(c, eff'[c])
        /\ \A d \in Calls : d # c => leaf'[d] = leaf[d] /\ eff'[d] = eff[d]
        /\ Parent[c] # None => Opened(Call[Parent[c]])
    BY StartCallOpens
  <1>2. \A d \in Calls : Opened(d) \/ d = c =>
              Ceiling(d)' = Ceiling(d) /\ ParallelSem(d)' = ParallelSem(d)
    BY StartCallOpens
  <1>3. \A d \in Calls : Opened(d)' <=> d = c \/ Opened(d)
    BY <1>1 DEF Opened
  <1>4. \A d \in Calls : Opened(d) => /\ leaf[d] \in Calls /\ leaf[d] # c /\ Opened(leaf[d]) /\ d # c
    BY <1>1 DEF Opened, SemInv, SemShape
  <1>5. ASSUME NEW d \in Calls, Opened(d)
        PROVE  /\ eff'[d] = EffectiveParallelMax(Max[Step[d]], Ceiling(d)')
               /\ leaf'[leaf'[d]] = leaf'[d] /\ eff'[leaf'[d]] = eff'[d]
               /\ \/ ParallelSem(d)' # None /\ eff'[d] = Ceiling(d)' /\ leaf'[d] = ParallelSem(d)'
                  \/ ~(ParallelSem(d)' # None /\ eff'[d] = Ceiling(d)') /\ SameKey(leaf[d], d)'
    <2>1. leaf'[d] = leaf[d] /\ eff'[d] = eff[d] /\ leaf'[leaf[d]] = leaf[leaf[d]] /\ eff'[leaf[d]] = eff[leaf[d]]
      BY <1>1, <1>4, <1>5
    <2>2. SameKey(leaf[d], d) => SameKey(leaf[d], d)'
      <3>1. PICK l \in Calls : l = leaf[d] /\ l = leaf'[d] /\ Opened(l)
        BY <1>4, <1>5, <2>1
      <3>2. /\ Parent[l] # None => Call[Parent[l]] # c /\ Call[Parent[l]] \in Calls
            /\ Parent[d] # None => Call[Parent[d]] # c /\ Call[Parent[d]] \in Calls
        BY <1>1, <1>5, <3>1 DEF OpenInv
      <3> QED BY <1>1, <3>1, <3>2 DEF SameKey, Ceiling, ParallelSem
    <2> QED BY <1>2, <1>5, <2>1, <2>2 DEF SemInv
  <1>6. /\ leaf'[leaf'[c]] = leaf'[c] /\ eff'[leaf'[c]] = eff'[c]
        /\ \/ ParallelSem(c) # None /\ eff'[c] = Ceiling(c) /\ leaf'[c] = ParallelSem(c)
           \/ ~(ParallelSem(c) # None /\ eff'[c] = Ceiling(c)) /\ SameKey(leaf'[c], c) /\ (leaf'[c] = c \/ Opened(leaf'[c]))
        /\ leaf'[c] = c => Cached(c) = {}
    <2>1. CASE ParallelSem(c) # None /\ eff'[c] = Ceiling(c)
      <3>1. leaf'[c] = ParallelSem(c)
        BY <1>1, <2>1 DEF LeafSem
      <3>2. /\ Parent[c] # None /\ ParallelSem(c) = leaf[Call[Parent[c]]]
            /\ Ceiling(c) = eff[Call[Parent[c]]]
        BY <2>1 DEF ParallelSem, Ceiling
      <3>3. /\ Call[Parent[c]] \in Calls /\ Opened(Call[Parent[c]])
        BY <1>1, <3>2
      <3>4. /\ leaf[ParallelSem(c)] = ParallelSem(c) /\ eff[ParallelSem(c)] = Ceiling(c)
            /\ ParallelSem(c) \in Calls /\ ParallelSem(c) # c
        BY <1>4, <3>2, <3>3 DEF SemInv
      <3> QED BY <1>1, <2>1, <3>1, <3>4
    <2>2. CASE ~(ParallelSem(c) # None /\ eff'[c] = Ceiling(c)) /\ Cached(c) # {}
      <3>1. leaf'[c] \in Cached(c)
        BY <1>1, <2>2 DEF LeafSem
      <3>2. PICK d \in Calls : d = leaf'[c] /\ leaf[d] = d /\ SameKey(d, c)
        BY <3>1 DEF Cached, SameKey
      <3>3. Opened(d) /\ d # c
        BY <1>1, <3>2, <1>4 DEF Opened
      <3>4. eff[d] = eff'[c]
        BY <1>1, <3>2, <3>3 DEF SemInv, SameKey
      <3> QED BY <1>1, <2>2, <3>2, <3>3, <3>4
    <2>3. CASE ~(ParallelSem(c) # None /\ eff'[c] = Ceiling(c)) /\ Cached(c) = {}
      BY <1>1, <2>3 DEF LeafSem, SameKey
    <2> QED BY <2>1, <2>2, <2>3
  <1>7. SameKey(leaf'[c], c) /\ (leaf'[c] = c \/ Opened(leaf'[c])) => SameKey(leaf[c], c)'
    <2>1. PICK l \in Calls : l = leaf'[c]
      BY <1>1
    <2> SUFFICES ASSUME SameKey(l, c), l = c \/ Opened(l)
                 PROVE  SameKey(leaf[c], c)'
      BY <2>1
    <2>2. /\ Parent[l] # None => Call[Parent[l]] # c /\ Call[Parent[l]] \in Calls
          /\ Parent[c] # None => Call[Parent[c]] # c /\ Call[Parent[c]] \in Calls
      BY <1>1 DEF OpenInv
    <2> QED BY <1>1, <2>1, <2>2 DEF SameKey, Ceiling, ParallelSem
  <1>8. ASSUME NEW d \in Calls, Opened(d)'
        PROVE  /\ eff'[d] = EffectiveParallelMax(Max[Step[d]], Ceiling(d)')
               /\ leaf'[leaf'[d]] = leaf'[d] /\ eff'[leaf'[d]] = eff'[d]
               /\ \/ ParallelSem(d)' # None /\ eff'[d] = Ceiling(d)' /\ leaf'[d] = ParallelSem(d)'
                  \/ ~(ParallelSem(d)' # None /\ eff'[d] = Ceiling(d)') /\ SameKey(leaf[d], d)'
    <2>1. CASE d = c
      BY <1>1, <1>2, <1>6, <1>7, <2>1
    <2>2. CASE d # c
      BY <1>3, <1>5, <1>8, <2>2
    <2> QED BY <2>1, <2>2
  <1>9. ASSUME NEW d \in Made', NEW e \in Made', SameKey(d, e)'
        PROVE  d = e
    <2>1. \A x \in Made' : x \in Calls /\ (x = c \/ (x \in Made /\ Opened(x)))
      BY <1>1 DEF Made, Opened
    <2>2. SameKey(d, e)
      BY <1>2, <1>9, <2>1 DEF SameKey
    <2>3. c \in Made' => Cached(c) = {}
      BY <1>6 DEF Made
    <2>4. \A x \in Made : SameKey(x, c) => x \in Cached(c)
      BY DEF Made, SameKey, Cached
    <2>5. \A x, y \in Made : SameKey(x, y) => x = y
      BY DEF SemInv
    <2> QED BY <1>9, <2>1, <2>2, <2>3, <2>4, <2>5 DEF SameKey
  <1> QED BY <1>8, <1>9 DEF SemInv

(* Nobody holds a token of a call that starts, or of one nested in it.      *)
LEMMA StartCallBalances ==
  ASSUME Shape, SemShape, RunInv, OpenInv, SemInv, AccountInv, NEW c \in Calls, StartCall(c)
  PROVE  AccountInv' /\ SemShape'
  <1> USE ParallelFanoutAssumption
  <1>1. /\ status[c] = "idle" /\ CallerReady(c)
        /\ pc' = [i \in Iters |-> IF Call[i] = c THEN "queued"
                                 ELSE IF i = Parent[c] THEN "inner" ELSE pc[i]]
        /\ UNCHANGED <<tokens, launched, attempt, stopped>>
    BY DEF StartCall
  <1>2. /\ ~Opened(c) /\ leaf'[c] \in Calls /\ eff'[c] \in Nat \ {0}
        /\ \A d \in Calls : d # c => leaf'[d] = leaf[d] /\ eff'[d] = eff[d]
    BY StartCallOpens
  <1>3. \A d \in Calls : Opened(d) => Ceiling(d)' = Ceiling(d) /\ ParallelSem(d)' = ParallelSem(d)
    BY StartCallOpens
  <1>4. ASSUME NEW i \in Iters
        PROVE  \/ /\ Call[i] = c
                  /\ pc[i] \in {"new", "done"} /\ pc'[i] = "queued"
               \/ /\ Call[i] # c
                  /\ pc'[i] = pc[i] \/ (pc[i] = "body" /\ pc'[i] = "inner")
                  /\ pc[i] \notin {"new", "done"} => Opened(Call[i])
    <2>1. pc[i] \notin {"new", "done"} => status[Call[i]] = "running" /\ Opened(Call[i])
      BY DEF RunInv, OpenInv
    <2>2. CASE Call[i] = c
      BY <1>1, <2>1, <2>2
    <2>3. CASE Call[i] # c
      BY <1>1, <2>1, <2>3, CallerIsBody
    <2> QED BY <2>2, <2>3
  <1>5. \A i \in Iters : HoldsLaunch(i)' <=> HoldsLaunch(i)
    BY <1>4 DEF HoldsLaunch
  <1>6. \A i \in Iters : HoldsLeaf(i)' = HoldsLeaf(i) /\ (HoldsLeaf(i) => leaf'[Call[i]] = leaf[Call[i]])
    BY <1>2, <1>4 DEF HoldsLeaf, AdapterPC
  <1>7. ASSUME NEW i \in Iters
        PROVE  /\ HoldsSubtree(i)' <=> HoldsSubtree(i)
               /\ HoldsSubtree(i) => ParallelSem(Call[i])' = ParallelSem(Call[i])
    <2>1. CASE pc[i] \in AdapterPC \cup BodyPC
      <3>1. Call[i] # c /\ Opened(Call[i]) /\ pc'[i] \in AdapterPC \cup BodyPC
        BY <1>4, <2>1 DEF AdapterPC, BodyPC
      <3>2. /\ Ceiling(Call[i])' = Ceiling(Call[i]) /\ ParallelSem(Call[i])' = ParallelSem(Call[i])
            /\ eff'[Call[i]] = eff[Call[i]]
        BY <1>2, <1>3, <3>1
      <3> QED BY <2>1, <3>1, <3>2 DEF HoldsSubtree, Lowered
    <2>2. CASE pc[i] \notin AdapterPC \cup BodyPC
      <3>1. pc'[i] \notin AdapterPC \cup BodyPC
        BY <1>4, <2>2 DEF AdapterPC, BodyPC
      <3> QED BY <2>2, <3>1 DEF HoldsSubtree
    <2> QED BY <2>1, <2>2
  <1>8. ASSUME NEW d \in Calls
        PROVE  LaunchSet(d)' = LaunchSet(d) /\ LeafSet(d)' = LeafSet(d) /\ SubtreeSet(d)' = SubtreeSet(d)
    <2>1. LaunchSet(d)' = LaunchSet(d)
      BY <1>5 DEF LaunchSet, ItemsOf
    <2>2. LeafSet(d)' = LeafSet(d)
      BY <1>6 DEF LeafSet
    <2>3. SubtreeSet(d)' = SubtreeSet(d)
      BY <1>7 DEF SubtreeSet
    <2> QED BY <2>1, <2>2, <2>3
  <1>9. \A d \in Calls : tokens[d] <= eff'[d]
    BY <1>2 DEF AccountInv, OpenInv, SemShape
  <1>10. AccountInv'
    BY <1>1, <1>8, <1>9 DEF AccountInv
  <1>11. SemShape'
    BY <1>1 , <1>2 DEF SemShape, StartCall
  <1> QED BY <1>10, <1>11

(* The end of a call moves no token.                                        *)
LEMMA ReturnBalances ==
  ASSUME Shape, SemShape, RunInv, OpenInv, SemInv, AccountInv,
         NEW c \in Calls, NEW o \in Outcomes, Return(c, o),
         Parent[c] # None => pc[Parent[c]] \in {"body", "inner"},
         UNCHANGED <<semVars, attempt, stopped>>
  PROVE  AccountInv' /\ SemShape' /\ OpenInv' /\ SemInv'
  <1> USE ParallelFanoutAssumption DEF semVars
  <1>1. /\ status' = [status EXCEPT ![c] = "done"]
        /\ \A i \in Iters : IF i = Parent[c] THEN pc'[i] \in {"body", "unwind"} ELSE pc'[i] = pc[i]
    BY ReturnMoves
  <1>2. \A i \in Iters : \/ pc'[i] = pc[i]
                         \/ pc[i] \in {"body", "inner"} /\ pc'[i] \in {"body", "unwind"}
    BY <1>1
  <1>3. \A d : /\ Lowered(d)' = Lowered(d) /\ ParallelSem(d)' = ParallelSem(d)
               /\ Ceiling(d)' = Ceiling(d)
    BY DEF Lowered, ParallelSem, Ceiling
  <1>4. \A i \in Iters : /\ HoldsLaunch(i)' <=> HoldsLaunch(i)
                         /\ HoldsLeaf(i)' <=> HoldsLeaf(i)
                         /\ pc'[i] \in AdapterPC \cup BodyPC <=> pc[i] \in AdapterPC \cup BodyPC
    BY <1>2 DEF HoldsLaunch, HoldsLeaf, AdapterPC, BodyPC
  <1>5. \A i \in Iters : HoldsSubtree(i)' <=> HoldsSubtree(i)
    BY <1>3, <1>4 DEF HoldsSubtree
  <1>6. ASSUME NEW d \in Calls
        PROVE  LaunchSet(d)' = LaunchSet(d) /\ LeafSet(d)' = LeafSet(d) /\ SubtreeSet(d)' = SubtreeSet(d)
    <2>1. LaunchSet(d)' = LaunchSet(d)
      BY <1>4 DEF LaunchSet, ItemsOf
    <2>2. LeafSet(d)' = LeafSet(d)
      BY <1>4 DEF LeafSet
    <2>3. SubtreeSet(d)' = SubtreeSet(d)
      BY <1>3, <1>5 DEF SubtreeSet
    <2> QED BY <2>1, <2>2, <2>3
  <1>7. AccountInv' /\ SemShape'
    BY <1>6 DEF AccountInv, SemShape
  <1>8. OpenInv'
    BY <1>1, <1>2, <1>3 DEF OpenInv, Opened, Shape
  <1>9. SemInv'
    BY DEF SemInv, Opened, Made, SameKey, Ceiling, ParallelSem
  <1> QED BY <1>7, <1>8, <1>9

(* Steps that touch neither a goroutine nor a semaphore.                    *)
LEMMA OthersBalance ==
  ASSUME SemShape, OpenInv, SemInv, AccountInv, UNCHANGED <<status, semVars, pc, attempt>>,
         stopped' \in BOOLEAN
  PROVE  AccountInv' /\ SemShape' /\ OpenInv' /\ SemInv'
  <1>1. /\ \A d : Ceiling(d)' = Ceiling(d) /\ ParallelSem(d)' = ParallelSem(d) /\ Lowered(d)' = Lowered(d)
        /\ \A d : Opened(d)' = Opened(d)
    BY DEF semVars, Ceiling, ParallelSem, Lowered, Opened
  <1>2. \A d : LaunchSet(d)' = LaunchSet(d) /\ LeafSet(d)' = LeafSet(d) /\ SubtreeSet(d)' = SubtreeSet(d)
    BY <1>1 DEF semVars, LaunchSet, LeafSet, SubtreeSet, ItemsOf, HoldsLaunch, HoldsLeaf, HoldsSubtree
  <1>3. AccountInv' /\ SemShape'
    BY <1>2 DEF semVars, AccountInv, SemShape
  <1>4. OpenInv'
    BY <1>1 DEF semVars, OpenInv
  <1>5. SemInv'
    BY DEF semVars, SemInv, Opened, Made, SameKey, Ceiling, ParallelSem
  <1> QED BY <1>3, <1>4, <1>5

-----------------------------------------------------------------------------
(* Before the first call no semaphore is open and no token taken.           *)
LEMMA InitFullInv == Init => FullInv
  <1> SUFFICES ASSUME Init PROVE FullInv
    OBVIOUS
  <1> USE ParallelFanoutAssumption DEF Init
  <1>1. SemShape BY DEF SemShape
  <1>2. OpenInv BY DEF OpenInv, Opened
  <1>3. SemInv BY DEF SemInv, Opened, Made
  <1>4. ASSUME NEW c \in Calls
        PROVE  LaunchSet(c) = {} /\ LeafSet(c) = {} /\ SubtreeSet(c) = {}
    BY DEF LaunchSet, LeafSet, SubtreeSet, ItemsOf, HoldsLaunch, HoldsLeaf, HoldsSubtree, AdapterPC, BodyPC
  <1>5. AccountInv
    <2>1. Cardinality({}) = 0 BY FS_EmptySet
    <2>2. \A c \in Calls : launched[c] = 0 /\ tokens[c] = 0 /\ eff[c] = 0
      OBVIOUS
    <2>3. ASSUME NEW c \in Calls
          PROVE  /\ launched[c] = Cardinality(LaunchSet(c))
                 /\ tokens[c] = Cardinality(LeafSet(c)) + Cardinality(SubtreeSet(c))
                 /\ tokens[c] <= eff[c]
      <3>1. /\ Cardinality(LaunchSet(c)) = 0 /\ Cardinality(LeafSet(c)) = 0
            /\ Cardinality(SubtreeSet(c)) = 0
        BY <1>4, <2>1
      <3> QED BY <2>2, <3>1
    <2> QED BY <2>3 DEF AccountInv
  <1> QED BY <1>1, <1>2, <1>3, <1>5, InitIInv DEF FullInv

(* Every step preserves the invariant of the semaphores.                    *)
LEMMA SemaphoresNext ==
  ASSUME Shape, RunInv, SemShape, OpenInv, SemInv, AccountInv, Next
  PROVE  AccountInv' /\ SemShape' /\ OpenInv' /\ SemInv'
  <1> USE ParallelFanoutAssumption
  <1>1. CASE \E c \in Calls : StartCall(c)
    BY <1>1, StartCallBalances, StartCallKeepsOpen, StartCallKeepsSem
  <1>2. CASE \E c \in Calls : ReturnAtOnce(c)
    <2>1. PICK c \in Calls, o \in Outcomes : ReturnAtOnce(c) /\ Return(c, o)
      BY <1>2 DEF ReturnAtOnce, Outcomes
    <2>2. Parent[c] # None => pc[Parent[c]] \in {"body", "inner"}
      BY <2>1 DEF ReturnAtOnce, CallerReady
    <2> QED BY <2>1, <2>2, ReturnBalances DEF ReturnAtOnce
  <1>3. CASE \E c \in Calls : EndCall(c)
    <2>1. PICK c \in Calls, o \in Outcomes : EndCall(c) /\ Return(c, o)
      BY <1>3, AggregateOutcomes DEF EndCall
    <2>2. Parent[c] # None => pc[Parent[c]] \in {"body", "inner"}
      BY <2>1 DEF EndCall, RunInv, Nested
    <2> QED BY <2>1, <2>2, ReturnBalances DEF EndCall
  <1>4. CASE \E i \in Iters : RunIteration(i)
    <2>1. PICK i \in Iters : RunIteration(i)
      BY <1>4
    <2>2. AccountInv' /\ SemShape'
      BY <2>1, IterationBalances
    <2>3. Accounts(i)
      BY <2>1, IterationAccounts
    <2>4. eff' = eff /\ leaf' = leaf /\ status' = status /\ (pc'[i] = "subtree" => Lowered(Call[i]))
      BY <2>1, <2>3, IterationMoves DEF Accounts
    <2>5. \A j \in Iters : j # i => pc'[j] = pc[j]
      BY <2>1, IterationMoves DEF Shape
    <2>6. SemInv'
      BY <2>4 DEF SemInv, Opened, Made, SameKey, Ceiling, ParallelSem
    <2>7. \A d : Lowered(d)' = Lowered(d)
      BY <2>4 DEF Lowered, Ceiling, ParallelSem
    <2>8. OpenInv'
      BY <2>4, <2>5, <2>7 DEF OpenInv, Opened
    <2> QED BY <2>2, <2>6, <2>8
  <1>5. CASE Stop \/ Finished \/ \E c \in Calls : Propagate(c)
    <2>1. UNCHANGED <<status, semVars, pc, attempt>> /\ stopped' \in BOOLEAN
      BY <1>5 DEF Stop, Finished, vars, Propagate, semVars, SemShape
    <2> QED BY <2>1, OthersBalance
  <1> QED BY <1>1, <1>2, <1>3, <1>4, <1>5 DEF Next

(* The inductive invariant of the semaphores.                               *)
THEOREM FullInvariance == Spec => []FullInv
  <1>1. FullInv /\ [Next]_vars => FullInv'
    <2> SUFFICES ASSUME FullInv, [Next]_vars PROVE FullInv'
      OBVIOUS
    <2>1. CASE Next
      BY <2>1, SemaphoresNext, ShapeNext, RunInvNext, CountInvNext, CutInvNext DEF FullInv, IInv
    <2>2. CASE UNCHANGED vars
      BY <2>2, StutterIInv, OthersBalance DEF FullInv, vars, semVars, SemShape
    <2> QED BY <2>1, <2>2
  <1> QED BY InitFullInv, <1>1, PTL DEF Spec

(* The state of the fan-outs stays well typed: no semaphore is ever drained *)
(* below zero (Release, GiveBackSubtree, Finish).                           *)
THEOREM TypeCorrect == Spec => []TypeOK
  <1>1. FullInv => TypeOK
    BY DEF FullInv, IInv, Shape, SemShape, TypeOK
  <1> QED BY <1>1, FullInvariance, PTL

(* Every token belongs to a goroutine that will give it back, in any        *)
(* nesting and however acquisitions are cancelled                           *)
(* (acquireParallelLeafSemaphores, runParallelSubworkflowOnce).             *)
THEOREM TokensAreAccounted == Spec => []TokensAccounted
  <1>1. FullInv => TokensAccounted
    BY DEF FullInv, AccountInv, TokensAccounted, LaunchSet, LeafSet, SubtreeSet, Started, Made
  <1> QED BY <1>1, FullInvariance, PTL

-----------------------------------------------------------------------------
(* No more goroutines execute under a semaphore than it has tokens.         *)
LEMMA HoldersBounded ==
  ASSUME FullInv, NEW c \in Calls, NEW S, S \subseteq LeafSet(c) \cup SubtreeSet(c)
  PROVE  IsFiniteSet(S) /\ Cardinality(S) \in Nat /\ Cardinality(S) <= eff[c]
  <1>1. IsFiniteSet(LeafSet(c)) /\ IsFiniteSet(SubtreeSet(c))
    BY HolderSetsFinite
  <1>2. /\ IsFiniteSet(LeafSet(c) \cup SubtreeSet(c))
        /\ IsFiniteSet(LeafSet(c) \cap SubtreeSet(c))
        /\ Cardinality(LeafSet(c) \cup SubtreeSet(c)) =
              Cardinality(LeafSet(c)) + Cardinality(SubtreeSet(c))
              - Cardinality(LeafSet(c) \cap SubtreeSet(c))
    BY <1>1, FS_Union, FS_Intersection
  <1>3. /\ Cardinality(LeafSet(c)) \in Nat /\ Cardinality(SubtreeSet(c)) \in Nat
        /\ Cardinality(LeafSet(c) \cap SubtreeSet(c)) \in Nat
    BY <1>1, <1>2, FS_CardinalityType
  <1>4. IsFiniteSet(S) /\ Cardinality(S) <= Cardinality(LeafSet(c) \cup SubtreeSet(c))
    BY <1>2, FS_Subset
  <1>5. Cardinality(S) \in Nat
    BY <1>4, FS_CardinalityType
  <1>6. /\ Cardinality(LeafSet(c)) + Cardinality(SubtreeSet(c)) <= eff[c] /\ eff[c] \in Nat
    BY DEF FullInv, AccountInv, SemShape
  <1> QED BY <1>2, <1>3, <1>4, <1>5, <1>6

(* An executing goroutine holds a token of its leaf semaphore, and of the   *)
(* inherited one if that is another.                                        *)
LEMMA ExecutingHolds ==
  ASSUME FullInv, NEW i \in Iters, Executing(i)
  PROVE  /\ Call[i] \in Calls /\ Opened(Call[i]) /\ leaf[Call[i]] \in Calls
         /\ i \in LeafSet(leaf[Call[i]])
         /\ ParallelSem(Call[i]) # None /\ ParallelSem(Call[i]) # leaf[Call[i]] =>
               i \in SubtreeSet(ParallelSem(Call[i]))
  <1> USE ParallelFanoutAssumption
  <1>1. pc[i] = "exec" /\ Call[i] \in Calls
    BY DEF Executing
  <1>2. status[Call[i]] = "running"
    BY <1>1 DEF FullInv, IInv, RunInv
  <1>3. Opened(Call[i]) /\ leaf[Call[i]] \in Calls
    BY <1>1, <1>2 DEF FullInv, OpenInv, Opened, SemShape
  <1>4. i \in LeafSet(leaf[Call[i]])
    BY <1>1 DEF LeafSet, HoldsLeaf, AdapterPC
  <1>5. ASSUME ParallelSem(Call[i]) # None, ParallelSem(Call[i]) # leaf[Call[i]]
        PROVE  i \in SubtreeSet(ParallelSem(Call[i]))
    <2>1. /\ eff[Call[i]] # Ceiling(Call[i])
          /\ eff[Call[i]] = EffectiveParallelMax(Max[Step[Call[i]]], Ceiling(Call[i]))
      BY <1>1, <1>3, <1>5 DEF FullInv, SemInv
    <2>2. /\ Parent[Call[i]] # None /\ Ceiling(Call[i]) = eff[Call[Parent[Call[i]]]]
          /\ Call[Parent[Call[i]]] \in Calls /\ Opened(Call[Parent[Call[i]]])
      BY <1>1, <1>3, <1>5 DEF ParallelSem, Ceiling, FullInv, OpenInv
    <2>3. Ceiling(Call[i]) \in Nat \ {0}
      <3> DEFINE d == Call[Parent[Call[i]]]
      <3>1. Ceiling(d) \in Nat
        BY <2>2 DEF Ceiling, FullInv, SemShape
      <3>2. eff[d] = EffectiveParallelMax(Max[Step[d]], Ceiling(d))
        BY <2>2 DEF FullInv, SemInv
      <3>3. Max[Step[d]] \in Nat \ {0}
        BY <2>2
      <3> QED BY <2>2, <3>1, <3>2, <3>3 DEF EffectiveParallelMax
    <2>4. Max[Step[Call[i]]] \in Nat
      BY <1>1
    <2>5. Lowered(Call[i])
      BY <1>5, <2>1, <2>3, <2>4 DEF EffectiveParallelMax, Lowered
    <2> QED BY <1>1, <2>5 DEF SubtreeSet, HoldsSubtree, AdapterPC
  <1> QED BY <1>1, <1>3, <1>4, <1>5

(* The ceiling a call inherits is the cap of the semaphore it inherits.     *)
LEMMA CeilingOfSem ==
  ASSUME FullInv, NEW c \in Calls, Opened(c)
  PROVE  Ceiling(c) = IF ParallelSem(c) = None THEN RootCeiling ELSE eff[ParallelSem(c)]
  <1> USE ParallelFanoutAssumption
  <1>1. CASE Parent[c] = None
    BY <1>1 DEF Ceiling, ParallelSem
  <1>2. CASE Parent[c] # None
    <2> DEFINE d == Call[Parent[c]]
    <2>1. d \in Calls /\ Opened(d) /\ Ceiling(c) = eff[d] /\ ParallelSem(c) = leaf[d]
      BY <1>2 DEF Ceiling, ParallelSem, FullInv, OpenInv
    <2>2. leaf[d] # None /\ eff[leaf[d]] = eff[d]
      BY <2>1 DEF FullInv, SemInv, Opened
    <2> QED BY <2>1, <2>2
  <1> QED BY <1>1, <1>2

(* All evaluations of a step under one semaphore share one leaf semaphore.  *)
LEMMA SameLeaf ==
  ASSUME FullInv, NEW c \in Calls, NEW d \in Calls, Opened(c), Opened(d),
         Step[c] = Step[d], ParallelSem(c) = ParallelSem(d)
  PROVE  leaf[c] = leaf[d]
  <1> USE ParallelFanoutAssumption
  <1>1. Ceiling(c) = Ceiling(d)
    BY CeilingOfSem
  <1>2. eff[c] = eff[d]
    BY <1>1 DEF FullInv, SemInv
  <1>3. CASE ParallelSem(c) # None /\ eff[c] = Ceiling(c)
    BY <1>1, <1>2, <1>3 DEF FullInv, SemInv
  <1>4. CASE ~(ParallelSem(c) # None /\ eff[c] = Ceiling(c))
    <2>1. SameKey(leaf[c], c) /\ SameKey(leaf[d], d)
      BY <1>1, <1>2, <1>4 DEF FullInv, SemInv
    <2>2. leaf[c] \in Made /\ leaf[d] \in Made
      BY DEF FullInv, SemInv, SemShape, Made, Opened
    <2>3. SameKey(leaf[c], leaf[d])
      BY <1>1, <2>1 DEF SameKey
    <2> QED BY <2>2, <2>3 DEF FullInv, SemInv
  <1> QED BY <1>3, <1>4

(* The invariant keeps executions within their caps.                        *)
LEMMA CapsHold == FullInv => ConcurrencyBounded
  <1> SUFFICES ASSUME FullInv PROVE ConcurrencyBounded
    OBVIOUS
  <1> USE ParallelFanoutAssumption
  <1> DEFINE Busy == {i \in Iters : Executing(i)}
             Under(c) == {i \in Busy : c \in {leaf[Call[i]], ParallelSem(Call[i])}}
             Alike(c) == {i \in Busy : Step[Call[i]] = Step[c] /\ ParallelSem(Call[i]) = ParallelSem(c)}
  <1>1. ASSUME NEW c \in Made
        PROVE  Cardinality(Under(c)) <= eff[c]
    <2>1. c \in Calls /\ c # None
      BY DEF Made
    <2>2. Under(c) \subseteq LeafSet(c) \cup SubtreeSet(c)
      BY <2>1, ExecutingHolds
    <2> QED BY <2>1, <2>2, HoldersBounded
  <1>2. ASSUME NEW c \in Started
        PROVE  Cardinality(Alike(c)) <= Max[Step[c]]
    <2>1. c \in Calls /\ Max[Step[c]] \in Nat
      BY DEF Started
    <2>2. CASE Alike(c) = {}
      <3>1. Cardinality(Alike(c)) = 0
        BY <2>2, FS_EmptySet
      <3> HIDE DEF Alike
      <3> QED BY <2>1, <3>1
    <2>3. CASE Alike(c) # {}
      <3>1. PICK j \in Iters : j \in Alike(c)
        BY <2>3
      <3> DEFINE d == Call[j]
                 l == leaf[Call[j]]
      <3>2. /\ d \in Calls /\ Opened(d) /\ l \in Calls
            /\ Step[d] = Step[c] /\ ParallelSem(d) = ParallelSem(c)
        BY <3>1, ExecutingHolds
      <3>3. Alike(c) \subseteq LeafSet(l) \cup SubtreeSet(l)
        <4>1. ASSUME NEW i \in Alike(c)
              PROVE  i \in LeafSet(l)
          <5>1. /\ i \in Iters /\ Call[i] \in Calls /\ Opened(Call[i]) /\ i \in LeafSet(leaf[Call[i]])
                /\ Step[Call[i]] = Step[d] /\ ParallelSem(Call[i]) = ParallelSem(d)
            BY <3>2, <4>1, ExecutingHolds
          <5>2. leaf[Call[i]] = l
            BY <3>2, <5>1, SameLeaf
          <5> QED BY <5>1, <5>2
        <4> QED BY <4>1
      <3>4. Cardinality(Alike(c)) \in Nat /\ Cardinality(Alike(c)) <= eff[l]
        BY <3>2, <3>3, HoldersBounded
      <3>5. eff[l] = eff[d] /\ eff[d] = EffectiveParallelMax(Max[Step[d]], Ceiling(d)) /\ eff[l] \in Nat
        BY <3>2 DEF FullInv, SemInv, SemShape
      <3>6. Ceiling(d) \in Nat
        BY <3>2 DEF Ceiling, FullInv, SemShape
      <3>7. EffectiveParallelMax(Max[Step[d]], Ceiling(d)) <= Max[Step[d]]
        BY <2>1, <3>2, <3>6 DEF EffectiveParallelMax
      <3> HIDE DEF Alike, d, l
      <3> QED BY <2>1, <3>2, <3>4, <3>5, <3>7
    <2> QED BY <2>2, <2>3
  <1> QED BY <1>1, <1>2 DEF ConcurrencyBounded

(* However fan-outs are nested, the executions under a semaphore never      *)
(* exceed its cap, and those of one step under it never exceed the step's   *)
(* parallel_max (parallelSemaphores, acquireParallelLeafSemaphores).        *)
THEOREM ConcurrencyIsBounded == Spec => []ConcurrencyBounded
  BY CapsHold, FullInvariance, PTL
=============================================================================
