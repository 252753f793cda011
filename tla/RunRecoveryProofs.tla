------------------------- MODULE RunRecoveryProofs -------------------------
(***************************************************************************)
(* Proofs about RunRecovery, for every graph, every set of processes and   *)
(* every bound.  None of the properties is inductive: how often a step was *)
(* executed is bounded because the counts in memory, and those on disk     *)
(* unless they are stale, are never below it; the run follows the graph    *)
(* because the checkpoint is never far from the node last entered.         *)
(***************************************************************************)
EXTENDS RunRecovery, FiniteSetTheorems, TLAPS

Alive(p) == pc[p] # "idle"

(* Unless a process took over the run of a live one, at most one drives it, *)
(* and none does once the run has ended.                                    *)
SoleInv ==
    /\ ~begun => cp = None /\ ~ended /\ last = None /\ attempts = NoVisits /\ \A p \in Procs : ~Alive(p)
    /\ "overlap" \notin faults =>
          /\ OneDriver
          /\ ended => cp = None /\ \A p \in Procs : ~Alive(p)

(* Counts v cover the executions e and respect max_visits.                  *)
Covers(v, e) ==
    \A s \in Steps : e[s] <= v[s] /\ (MaxVisits[s] > 0 => v[s] <= MaxVisits[s])

VisitInv ==
    faults = {} =>
        /\ \A p \in Procs : Alive(p) => Covers(visits[p], attempts)
        /\ cp # None /\ ~cp.stale => Covers(cp.visits, attempts)
        /\ CrashLoopsBounded

(* A process without state is as it was at first.                           *)
IdleInv ==
    \A p \in Procs : ~Alive(p) => ~decided[p] /\ ~resumed[p]

(* A checkpoint is on disk from the first node entered or paused at.        *)
KeptInv ==
    ~ended /\ "write_failed" \notin faults =>
        /\ last # None => cp # None
        /\ \A p \in Procs : decided[p] \/ pc[p] = "paused" => cp # None

(* n is a node the run may enter next. *)
Near(n) == last # None => n \in {last} \cup Succ[last]

PathInv ==
    faults \cap {"write_failed", "overlap"} = {} =>
        /\ cp # None => Near(cp.node)
        /\ \A p \in Procs :
             /\ pc[p] \in {"top", "paused"} => Near(current[p])
             /\ pc[p] = "step" => current[p] = last
             /\ (decided[p] \/ pc[p] = "paused") => cp # None /\ cp.node = current[p]

(* An executing process is at a step, one with a decision at a gate.        *)
StepInv ==
    \A p \in Procs :
        /\ pc[p] = "step" => current[p] \in Steps
        /\ decided[p] => pc[p] = "top" /\ current[p] \in Gates

IInv == TypeOK /\ SoleInv /\ VisitInv /\ IdleInv /\ KeptInv /\ PathInv /\ StepInv

-----------------------------------------------------------------------------
(* A sum of counts is a number.                                             *)
LEMMA SumVisitsType ==
    ASSUME NEW v \in Visits
    PROVE  SumVisits(v) \in Nat
  <1> DEFINE f == [s \in Steps |-> {s} \X (1 .. v[s])]
             T == {{s} \X (1 .. v[s]) : s \in Steps}
  <1>1. f \in Surjection(Steps, T)
    BY DEF Surjection
  <1>2. IsFiniteSet(T)
    BY <1>1, FS_Surjection, RunRecoveryAssumption
  <1>3. ASSUME NEW s \in Steps
        PROVE  IsFiniteSet({s} \X (1 .. v[s]))
    <2>1. v[s] \in Nat
      BY DEF Visits
    <2>2. IsFiniteSet(1 .. v[s])
      BY <2>1, FS_Interval
    <2>3. IsFiniteSet({s})
      BY FS_Singleton
    <2> QED BY <2>2, <2>3, FS_Product
  <1>4. IsFiniteSet(UNION T)
    BY <1>2, <1>3, FS_UNION
  <1> QED BY <1>4, FS_CardinalityType DEF SumVisits

(* The counts after one more visit of s. *)
LEMMA VisitType ==
    ASSUME NEW v \in Visits, NEW s \in Steps
    PROVE  /\ [v EXCEPT ![s] = @ + 1] \in Visits
           /\ [v EXCEPT ![s] = @ + 1][s] = v[s] + 1
           /\ \A t \in Steps : t # s => [v EXCEPT ![s] = @ + 1][t] = v[t]
  BY DEF Visits

(* A run starts with all counts zero.                                       *)
LEMMA NoVisitsType == NoVisits \in Visits /\ \A s \in Steps : NoVisits[s] = 0
  BY DEF NoVisits, Visits

(* A checkpoint write preserves the types.                                  *)
LEMMA WriteType ==
    ASSUME TypeOK, NEW p \in Procs, NEW n \in Nodes, NEW v \in Visits,
           WriteStepCheckpoint(p, n, v)
    PROVE  /\ cp' \in Checkpoint \cup {None}
           /\ faults' \in SUBSET Faults
           /\ "write_failed" \notin faults' => cp' # None /\ cp'.node = n
  <1>1. resumed[p] \in BOOLEAN /\ frozen[p] \in Visits /\ faults \in SUBSET Faults
    BY DEF TypeOK
  <1>2. (IF resumed[p] THEN frozen[p] ELSE v) \in Visits
    BY <1>1
  <1>3. [node |-> n, visits |-> IF resumed[p] THEN frozen[p] ELSE v, stale |-> resumed[p]] \in Checkpoint
    BY <1>1, <1>2 DEF Checkpoint
  <1> DEFINE c == [node |-> n, visits |-> IF resumed[p] THEN frozen[p] ELSE v, stale |-> resumed[p]]
  <1>4. c # None /\ c.node = n
    BY <1>3, RunRecoveryAssumption
  <1>5. CASE cp' = c /\ UNCHANGED faults
    BY <1>1, <1>3, <1>4, <1>5
  <1>6. CASE faults' = faults \cup {"write_failed"} /\ UNCHANGED cp
    BY <1>1, <1>6 DEF Faults, TypeOK
  <1> QED BY <1>5, <1>6 DEF WriteStepCheckpoint

(* Starting an engine preserves the types.                                  *)
LEMMA StartEngineType ==
    ASSUME TypeOK, NEW p \in Procs, NEW n \in Nodes, NEW v \in Visits,
           StartEngine(p, n, v)
    PROVE  /\ pc' \in [Procs -> {"idle", "top", "step", "paused"}]
           /\ current' \in [Procs -> Nodes]
           /\ attempt' \in [Procs -> Nat]
           /\ cursor' \in [Procs -> Nat \cup {None}]
           /\ visits' \in [Procs -> Visits]
           /\ total' \in [Procs -> Nat]
  <1>1. SumVisits(v) \in Nat
    BY SumVisitsType
  <1> QED BY <1>1 DEF TypeOK, StartEngine

(* Ending a run preserves the types.                                        *)
LEMMA EndRunType ==
    ASSUME TypeOK, NEW p \in Procs, Gone(p)
    PROVE  /\ pc' \in [Procs -> {"idle", "top", "step", "paused"}]
           /\ current' \in [Procs -> Nodes]
           /\ attempt' \in [Procs -> Nat]
           /\ cursor' \in [Procs -> Nat \cup {None}]
           /\ visits' \in [Procs -> Visits]
           /\ total' \in [Procs -> Nat]
           /\ decided' \in [Procs -> BOOLEAN]
           /\ resumed' \in [Procs -> BOOLEAN]
           /\ frozen' \in [Procs -> Visits]
  BY NoVisitsType, RunRecoveryAssumption DEF TypeOK, Gone

(* Preparing an attempt preserves the types.                                *)
LEMMA PrepareAttemptType ==
    ASSUME TypeOK, NEW p \in Procs, current[p] \in Steps, NEW a \in Nat,
           PrepareAttempt(p, a)
    PROVE  /\ pc' \in [Procs -> {"idle", "top", "step", "paused"}]
           /\ attempt' \in [Procs -> Nat]
           /\ visits' \in [Procs -> Visits]
           /\ cp' \in Checkpoint \cup {None}
           /\ last' \in Steps
           /\ attempts' \in Visits
           /\ faults' \in SUBSET Faults
           /\ "write_failed" \notin faults' => cp' # None /\ cp'.node = current[p]
  <1> DEFINE s == current[p]
             v == [visits[p] EXCEPT ![s] = @ + 1]
  <1>1. visits[p] \in Visits /\ attempts \in Visits
    BY DEF TypeOK
  <1>2. v \in Visits /\ [attempts EXCEPT ![s] = @ + 1] \in Visits
    BY <1>1, VisitType
  <1>3. WriteStepCheckpoint(p, s, v)
    BY DEF PrepareAttempt
  <1>4. /\ cp' \in Checkpoint \cup {None} /\ faults' \in SUBSET Faults
        /\ "write_failed" \notin faults' => cp' # None /\ cp'.node = current[p]
    BY <1>2, <1>3, WriteType DEF Nodes
  <1> QED BY <1>2, <1>4 DEF TypeOK, PrepareAttempt

(* Every step preserves the types.                                          *)
LEMMA TypeStep ==
    ASSUME TypeOK, StepInv, [Next]_vars
    PROVE  TypeOK'
  <1> USE RunRecoveryAssumption
  <1>1. CASE UNCHANGED vars
    BY <1>1 DEF TypeOK, vars
  <1>2. ASSUME NEW p \in Procs, Start(p)
        PROVE  TypeOK'
    BY <1>2, NoVisitsType, StartEngineType DEF Start, TypeOK, history
  <1>3. ASSUME NEW p \in Procs, EnterStep(p)
        PROVE  TypeOK'
    <2>1. current[p] \in Steps
      BY <1>3 DEF EnterStep
    <2>2. cursor' \in [Procs -> Nat \cup {None}] /\ total' \in [Procs -> Nat]
      BY <1>3 DEF EnterStep, TypeOK
    <2> QED BY <1>3, <2>1, <2>2, PrepareAttemptType DEF EnterStep, TypeOK
  <1>4. ASSUME NEW p \in Procs, RetryStep(p)
        PROVE  TypeOK'
    <2>1. current[p] \in Steps /\ attempt[p] + 1 \in Nat
      BY <1>4 DEF RetryStep, StepInv, TypeOK
    <2> QED BY <1>4, <2>1, PrepareAttemptType DEF RetryStep, TypeOK
  <1>5. ASSUME NEW p \in Procs, AdvanceIteration(p)
        PROVE  TypeOK'
    BY <1>5 DEF AdvanceIteration, TypeOK, StepInv
  <1>6. ASSUME NEW p \in Procs, CommitStep(p)
        PROVE  TypeOK'
    BY <1>6 DEF CommitStep, TypeOK, StepInv
  <1>7. ASSUME NEW p \in Procs, EndRun(p), faults' \in SUBSET Faults
        PROVE  TypeOK'
    BY <1>7, EndRunType DEF EndRun, TypeOK
  <1>8. ASSUME NEW p \in Procs, FailStep(p) \/ PolicyFails(p) \/ CompleteRun(p) \/ AbortPause(p)
        PROVE  TypeOK'
    BY <1>7, <1>8 DEF FailStep, PolicyFails, CompleteRun, AbortPause, TypeOK
  <1>9. ASSUME NEW p \in Procs, DecideGate(p)
        PROVE  TypeOK'
    BY <1>9 DEF DecideGate, TypeOK
  <1>10. ASSUME NEW p \in Procs, Pause(p)
         PROVE  TypeOK'
    <2>1. cp' \in Checkpoint \cup {None} /\ faults' \in SUBSET Faults
      BY <1>10, WriteType DEF Pause, TypeOK
    <2> QED BY <1>10, <2>1 DEF Pause, TypeOK
  <1>11. ASSUME NEW p \in Procs, ResumeCycle(p)
         PROVE  TypeOK'
    <2>1. current[p] \in Nodes /\ visits[p] \in Visits
      BY DEF TypeOK
    <2>2. frozen' \in [Procs -> Visits]
      BY <1>11, <2>1 DEF ResumeCycle, TypeOK
    <2> QED BY <1>11, <2>1, <2>2, StartEngineType DEF ResumeCycle, TypeOK, history
  <1>12. ASSUME NEW p \in Procs, Crash(p)
         PROVE  TypeOK'
    BY <1>12, EndRunType DEF Crash, TypeOK, history
  <1>13. ASSUME NEW p \in Procs, ReattachLocal(p)
         PROVE  TypeOK'
    <2>1. cp.node \in Nodes /\ cp.visits \in Visits
      BY <1>13 DEF ReattachLocal, TypeOK, Checkpoint
    <2>2. faults' \in SUBSET Faults
      BY <1>13 DEF ReattachLocal, Reattached, Overlap, Faults, TypeOK
    <2> QED BY <1>13, <2>1, <2>2, StartEngineType DEF ReattachLocal, TypeOK
  <1>14. ASSUME NEW p \in Procs, AbandonCheckpoint(p)
         PROVE  TypeOK'
    <2>1. faults' \in SUBSET Faults
      BY <1>14 DEF AbandonCheckpoint, Overlap, Faults, TypeOK
    <2> QED BY <1>14, <2>1, <1>7 DEF AbandonCheckpoint
  <1> QED BY <1>1, <1>2, <1>3, <1>4, <1>5, <1>6, <1>8, <1>9, <1>10, <1>11, <1>12, <1>13, <1>14
          DEF Next, Drive, Finished

-----------------------------------------------------------------------------
(* Every step preserves StepInv.                                            *)
LEMMA StepInvStep ==
    ASSUME TypeOK, StepInv, IdleInv, [Next]_vars
    PROVE  StepInv'
  <1> SUFFICES ASSUME NEW q \in Procs
               PROVE  /\ pc'[q] = "step" => current'[q] \in Steps
                      /\ decided'[q] => pc'[q] = "top" /\ current'[q] \in Gates
    BY DEF StepInv
  <1> DEFINE Placed == /\ pc'[q] = "step" => current'[q] \in Steps
                       /\ decided'[q] => pc'[q] = "top" /\ current'[q] \in Gates
  <1> USE RunRecoveryAssumption DEF TypeOK, StepInv, IdleInv, Alive
  <1>1. CASE UNCHANGED vars
    BY <1>1 DEF vars
  <1>2. ASSUME NEW p \in Procs, Start(p) \/ ResumeCycle(p) \/ ReattachLocal(p)
        PROVE  Placed
    BY <1>2 DEF Start, ResumeCycle, ReattachLocal, StartEngine
  <1>3. ASSUME NEW p \in Procs, EnterStep(p) \/ RetryStep(p)
        PROVE  Placed
    BY <1>3 DEF EnterStep, RetryStep, PrepareAttempt
  <1>4. ASSUME NEW p \in Procs, AdvanceIteration(p) \/ CommitStep(p) \/ DecideGate(p) \/ Pause(p)
        PROVE  Placed
    BY <1>4 DEF AdvanceIteration, CommitStep, DecideGate, Pause
  <1>5. ASSUME NEW p \in Procs, Gone(p)
        PROVE  Placed
    BY <1>5 DEF Gone
  <1>6. ASSUME NEW p \in Procs, FailStep(p) \/ PolicyFails(p) \/ CompleteRun(p) \/ AbortPause(p)
                                \/ Crash(p) \/ AbandonCheckpoint(p)
        PROVE  Placed
    BY <1>5, <1>6 DEF FailStep, PolicyFails, CompleteRun, AbortPause, Crash, AbandonCheckpoint, EndRun
  <1> QED BY <1>1, <1>2, <1>3, <1>4, <1>6 DEF Next, Drive, Finished

(* Every step preserves IdleInv.                                            *)
LEMMA IdleInvStep ==
    ASSUME TypeOK, IdleInv, [Next]_vars
    PROVE  IdleInv'
  <1> SUFFICES ASSUME NEW q \in Procs, pc'[q] = "idle"
               PROVE  ~decided'[q] /\ ~resumed'[q]
    BY DEF IdleInv, Alive
  <1> USE DEF TypeOK, IdleInv, Alive
  <1>1. CASE UNCHANGED vars
    BY <1>1 DEF vars
  <1>2. ASSUME NEW p \in Procs, Start(p) \/ ResumeCycle(p) \/ ReattachLocal(p)
        PROVE  ~decided'[q] /\ ~resumed'[q]
    BY <1>2 DEF Start, ResumeCycle, ReattachLocal, StartEngine
  <1>3. ASSUME NEW p \in Procs, EnterStep(p) \/ RetryStep(p)
        PROVE  ~decided'[q] /\ ~resumed'[q]
    BY <1>3 DEF EnterStep, RetryStep, PrepareAttempt
  <1>4. ASSUME NEW p \in Procs, AdvanceIteration(p) \/ CommitStep(p) \/ DecideGate(p) \/ Pause(p)
        PROVE  ~decided'[q] /\ ~resumed'[q]
    BY <1>4 DEF AdvanceIteration, CommitStep, DecideGate, Pause
  <1>5. ASSUME NEW p \in Procs, Gone(p)
        PROVE  ~decided'[q] /\ ~resumed'[q]
    BY <1>5 DEF Gone
  <1>6. ASSUME NEW p \in Procs, FailStep(p) \/ PolicyFails(p) \/ CompleteRun(p) \/ AbortPause(p)
                                \/ Crash(p) \/ AbandonCheckpoint(p)
        PROVE  ~decided'[q] /\ ~resumed'[q]
    BY <1>5, <1>6 DEF FailStep, PolicyFails, CompleteRun, AbortPause, Crash, AbandonCheckpoint, EndRun
  <1> QED BY <1>1, <1>2, <1>3, <1>4, <1>6 DEF Next, Drive, Finished

-----------------------------------------------------------------------------
(* Faults are never taken back.                                             *)
LEMMA FaultsGrow ==
    ASSUME [Next]_vars
    PROVE  faults \subseteq faults'
  <1> USE DEF history
  <1>1. ASSUME NEW p \in Procs, NEW n, NEW v, WriteStepCheckpoint(p, n, v)
        PROVE  faults \subseteq faults'
    BY <1>1 DEF WriteStepCheckpoint
  <1>2. ASSUME NEW p \in Procs, EnterStep(p) \/ RetryStep(p) \/ Pause(p)
        PROVE  faults \subseteq faults'
    BY <1>1, <1>2 DEF EnterStep, RetryStep, Pause, PrepareAttempt
  <1>3. ASSUME NEW p \in Procs, ReattachLocal(p) \/ AbandonCheckpoint(p)
        PROVE  faults \subseteq faults'
    BY <1>3 DEF ReattachLocal, AbandonCheckpoint, Reattached
  <1> QED BY <1>2, <1>3
          DEF Next, Drive, Finished, vars, Start, ResumeCycle, AbortPause, Crash,
              AdvanceIteration, CommitStep, FailStep, PolicyFails, CompleteRun, DecideGate

(* A step of a process that is alive, or that takes over a run nobody       *)
(* drives, keeps the run in one pair of hands.                              *)
LEMMA SoleStep ==
    ASSUME TypeOK, SoleInv, [Next]_vars
    PROVE  SoleInv'
  <1> USE DEF TypeOK, Alive, OneDriver
  <1>0. faults \subseteq faults'
    BY FaultsGrow
  <1>1. CASE UNCHANGED vars
    BY <1>1 DEF vars, SoleInv
  <1>2. ASSUME NEW p \in Procs, Start(p)
        PROVE  SoleInv'
    BY <1>2 DEF Start, StartEngine, SoleInv, history
  <1>3. ASSUME NEW p \in Procs, pc[p] # "idle", UNCHANGED <<begun, ended>>,
               \A q \in Procs : q # p => pc'[q] = pc[q]
        PROVE  SoleInv'
    BY <1>0, <1>3 DEF SoleInv
  <1>4. ASSUME NEW p \in Procs, EnterStep(p) \/ RetryStep(p) \/ AdvanceIteration(p) \/ CommitStep(p)
                                \/ DecideGate(p) \/ Pause(p) \/ ResumeCycle(p)
        PROVE  SoleInv'
    <2>1. pc[p] # "idle" /\ UNCHANGED <<begun, ended>> /\ \A q \in Procs : q # p => pc'[q] = pc[q]
      BY <1>4 DEF EnterStep, RetryStep, AdvanceIteration, CommitStep, DecideGate, Pause, ResumeCycle,
                  PrepareAttempt, StartEngine, history
    <2> QED BY <2>1, <1>3
  <1>5. ASSUME NEW p \in Procs, FailStep(p) \/ PolicyFails(p) \/ CompleteRun(p) \/ AbortPause(p)
        PROVE  SoleInv'
    <2>1. pc[p] # "idle" /\ EndRun(p)
      BY <1>5 DEF FailStep, PolicyFails, CompleteRun, AbortPause
    <2> QED BY <1>0, <2>1 DEF EndRun, Gone, SoleInv
  <1>6. ASSUME NEW p \in Procs, Crash(p)
        PROVE  SoleInv'
    BY <1>6 DEF Crash, Gone, SoleInv, history
  <1>7. ASSUME NEW p \in Procs, ReattachLocal(p)
        PROVE  SoleInv'
    BY <1>0, <1>7 DEF ReattachLocal, Reattached, Overlap, StartEngine, SoleInv
  <1>8. ASSUME NEW p \in Procs, AbandonCheckpoint(p)
        PROVE  SoleInv'
    BY <1>0, <1>8 DEF AbandonCheckpoint, Overlap, EndRun, Gone, SoleInv
  <1> QED BY <1>1, <1>2, <1>4, <1>5, <1>6, <1>7, <1>8 DEF Next, Drive, Finished

-----------------------------------------------------------------------------
(* Counts that cover the executions bound them.                             *)
LEMMA CoversBounds ==
    ASSUME NEW v \in Visits, NEW e \in Visits, Covers(v, e),
           NEW s \in Steps, MaxVisits[s] > 0
    PROVE  e[s] <= MaxVisits[s]
  <1>1. e[s] \in Nat /\ v[s] \in Nat /\ MaxVisits[s] \in Nat
    BY RunRecoveryAssumption DEF Visits
  <1> QED BY <1>1 DEF Covers

(* An attempt that incrementVisit allows is covered by the new counts, in   *)
(* memory and, unless the write fails or the writer is stale, on disk.      *)
LEMMA AttemptCovered ==
    ASSUME TypeOK, StepInv, TypeOK', SoleInv, VisitInv, NEW p \in Procs, NEW a \in Nat,
           current[p] \in Steps, pc[p] # "idle", PrepareAttempt(p, a)
    PROVE  VisitInv'
  <1> DEFINE s == current[p]
             v == [visits[p] EXCEPT ![s] = @ + 1]
  <1> SUFFICES ASSUME faults' = {}
               PROVE  /\ \A q \in Procs : pc'[q] # "idle" => Covers(visits[q], attempts)'
                      /\ cp' # None /\ ~cp'.stale => Covers(cp.visits, attempts)'
                      /\ CrashLoopsBounded'
    BY DEF VisitInv, Alive
  <1>1. WriteStepCheckpoint(p, s, v) /\ VisitAllowed(p)
    BY DEF PrepareAttempt
  <1>2. /\ faults = {}
        /\ cp' = [node |-> s, visits |-> IF resumed[p] THEN frozen[p] ELSE v, stale |-> resumed[p]]
    BY <1>1 DEF WriteStepCheckpoint
  <1>3. visits[p] \in Visits /\ attempts \in Visits /\ MaxVisits \in [Steps -> Nat]
    BY RunRecoveryAssumption DEF TypeOK
  <1>4. /\ visits'[p] = v
        /\ attempts' = [attempts EXCEPT ![s] = @ + 1]
        /\ pc'[p] = "step" /\ \A q \in Procs : q # p => pc'[q] = pc[q]
    BY DEF PrepareAttempt, TypeOK
  <1>5. Covers(visits[p], attempts)
    BY <1>2 DEF VisitInv, Alive
  <1>6. ASSUME NEW t \in Steps
        PROVE  attempts'[t] <= v[t] /\ (MaxVisits[t] > 0 => v[t] <= MaxVisits[t])
    <2>1. /\ attempts[t] \in Nat /\ visits[p][t] \in Nat /\ MaxVisits[t] \in Nat
          /\ attempts[t] <= visits[p][t] /\ (MaxVisits[t] > 0 => visits[p][t] <= MaxVisits[t])
      BY <1>3, <1>5 DEF Covers, Visits
    <2>2. CASE t = s
      <3>1. v[t] = visits[p][t] + 1 /\ attempts'[t] = attempts[t] + 1
        BY <1>3, <1>4, <2>2, VisitType
      <3>2. MaxVisits[t] = 0 \/ visits[p][t] < MaxVisits[t]
        BY <1>1, <2>2 DEF VisitAllowed
      <3> QED BY <2>1, <3>1, <3>2
    <2>3. CASE t # s
      <3>1. v[t] = visits[p][t] /\ attempts'[t] = attempts[t]
        BY <1>3, <1>4, <2>3, VisitType
      <3> QED BY <2>1, <3>1
    <2> QED BY <2>2, <2>3
  <1>7. Covers(visits[p], attempts)'
    BY <1>4, <1>6 DEF Covers
  <1>8. ~cp'.stale => cp'.visits = v
    BY <1>2
  <1>9. \A q \in Procs : pc'[q] # "idle" => q = p
    BY <1>2, <1>4 DEF SoleInv, OneDriver
  <1>10. visits'[p] \in Visits /\ attempts' \in Visits
    BY DEF TypeOK
  <1>11. CrashLoopsBounded'
    BY <1>7, <1>10, CoversBounds DEF CrashLoopsBounded
  <1> QED BY <1>6, <1>7, <1>8, <1>9, <1>11 DEF Covers

(* Every step preserves VisitInv.                                           *)
LEMMA VisitStep ==
    ASSUME TypeOK, StepInv, TypeOK', SoleInv, IdleInv, VisitInv, [Next]_vars
    PROVE  VisitInv'
  <1>0. faults \subseteq faults'
    BY FaultsGrow
  <1>1. CASE UNCHANGED vars
    BY <1>1 DEF vars, VisitInv, Alive, CrashLoopsBounded
  <1>2. ASSUME NEW p \in Procs, Start(p)
        PROVE  VisitInv'
    <2>1. attempts' = NoVisits /\ cp' = None
      BY <1>2 DEF Start, SoleInv, history
    <2>2. /\ visits'[p] = NoVisits
          /\ \A q \in Procs : q # p => pc'[q] = "idle"
      BY <1>2 DEF Start, StartEngine, SoleInv, Alive, TypeOK
    <2>3. Covers(NoVisits, NoVisits)
      BY NoVisitsType, RunRecoveryAssumption DEF Covers
    <2>4. \A s \in Steps : MaxVisits[s] > 0 => NoVisits[s] <= MaxVisits[s]
      BY <2>3, NoVisitsType, CoversBounds
    <2> QED BY <2>1, <2>2, <2>3, <2>4 DEF VisitInv, Alive, CrashLoopsBounded
  <1>3. ASSUME NEW p \in Procs, EnterStep(p) \/ RetryStep(p)
        PROVE  VisitInv'
    <2>1. current[p] \in Steps /\ pc[p] # "idle"
      BY <1>3 DEF EnterStep, RetryStep, StepInv
    <2>2. attempt[p] + 1 \in Nat
      BY DEF TypeOK
    <2>3. \E a \in Nat : PrepareAttempt(p, a)
      BY <1>3, <2>2 DEF EnterStep, RetryStep
    <2> QED BY <2>1, <2>3, AttemptCovered
  <1>4. ASSUME NEW p \in Procs, pc[p] # "idle", UNCHANGED <<visits, cp, attempts>>,
               \A q \in Procs : q # p => pc'[q] = pc[q]
        PROVE  VisitInv'
    BY <1>0, <1>4 DEF VisitInv, Alive, CrashLoopsBounded
  <1>5. ASSUME NEW p \in Procs, AdvanceIteration(p) \/ CommitStep(p) \/ DecideGate(p)
        PROVE  VisitInv'
    BY <1>4, <1>5 DEF AdvanceIteration, CommitStep, DecideGate, TypeOK
  <1>6. ASSUME NEW p \in Procs, Pause(p)
        PROVE  VisitInv'
    <2> SUFFICES ASSUME faults' = {}
                 PROVE  /\ \A q \in Procs : pc'[q] # "idle" => Covers(visits[q], attempts)'
                        /\ cp' # None /\ ~cp'.stale => Covers(cp.visits, attempts)'
                        /\ CrashLoopsBounded'
      BY DEF VisitInv, Alive
    <2>1. /\ faults = {}
          /\ cp' = [node |-> current[p], visits |-> IF resumed[p] THEN frozen[p] ELSE visits[p],
                    stale |-> resumed[p]]
      BY <1>6 DEF Pause, WriteStepCheckpoint
    <2>2. /\ UNCHANGED <<visits, attempts>> /\ pc[p] = "top"
          /\ \A q \in Procs : q # p => pc'[q] = pc[q]
      BY <1>6 DEF Pause, TypeOK
    <2>3. /\ \A q \in Procs : pc[q] # "idle" => Covers(visits[q], attempts)
          /\ CrashLoopsBounded
      BY <2>1 DEF VisitInv, Alive
    <2>4. ~cp'.stale => cp'.visits = visits[p]
      BY <2>1
    <2> QED BY <2>1, <2>2, <2>3, <2>4 DEF CrashLoopsBounded
  <1>7. ASSUME NEW p \in Procs, ResumeCycle(p)
        PROVE  VisitInv'
    <2>1. visits' = visits
      BY <1>7 DEF ResumeCycle, StartEngine, TypeOK
    <2> QED BY <1>7, <1>4, <2>1 DEF ResumeCycle, StartEngine, TypeOK, history
  <1>8. ASSUME NEW p \in Procs, Gone(p), cp' \in {cp, None}, attempts' = attempts
        PROVE  VisitInv'
    BY <1>0, <1>8 DEF Gone, VisitInv, Alive, CrashLoopsBounded, TypeOK
  <1>9. ASSUME NEW p \in Procs, FailStep(p) \/ PolicyFails(p) \/ CompleteRun(p) \/ AbortPause(p)
                                \/ Crash(p) \/ AbandonCheckpoint(p)
        PROVE  VisitInv'
    BY <1>8, <1>9 DEF FailStep, PolicyFails, CompleteRun, AbortPause, Crash, AbandonCheckpoint,
                      EndRun, history
  <1>10. ASSUME NEW p \in Procs, ReattachLocal(p)
         PROVE  VisitInv'
    <2> SUFFICES ASSUME faults' = {}
                 PROVE  /\ \A q \in Procs : pc'[q] # "idle" => Covers(visits[q], attempts)'
                        /\ cp' # None /\ ~cp'.stale => Covers(cp.visits, attempts)'
                        /\ CrashLoopsBounded'
      BY DEF VisitInv, Alive
    <2>1. /\ faults = {} /\ cp # None /\ ~cp.stale
          /\ UNCHANGED <<cp, attempts>>
          /\ \A q \in Procs : q # p => pc'[q] = "idle"
      BY <1>10 DEF ReattachLocal, Reattached, Overlap, StartEngine, TypeOK
    <2>2. visits'[p] = cp.visits
      BY <1>10 DEF ReattachLocal, StartEngine, TypeOK
    <2>3. Covers(cp.visits, attempts) /\ CrashLoopsBounded
      BY <2>1 DEF VisitInv
    <2> QED BY <2>1, <2>2, <2>3 DEF CrashLoopsBounded
  <1> QED BY <1>1, <1>2, <1>3, <1>5, <1>6, <1>7, <1>9, <1>10 DEF Next, Drive, Finished

-----------------------------------------------------------------------------
(* The checkpoint is removed only with the run.                             *)
LEMMA KeptStep ==
    ASSUME TypeOK, StepInv, SoleInv, IdleInv, KeptInv, [Next]_vars
    PROVE  KeptInv'
  <1> SUFFICES ASSUME ~ended', "write_failed" \notin faults'
               PROVE  /\ last' # None => cp' # None
                      /\ \A p \in Procs : decided'[p] \/ pc'[p] = "paused" => cp' # None
    BY DEF KeptInv
  <1> DEFINE Kept == /\ last' # None => cp' # None
                     /\ \A p \in Procs : decided'[p] \/ pc'[p] = "paused" => cp' # None
  <1>0. "write_failed" \notin faults
    BY FaultsGrow
  <1>1. CASE UNCHANGED vars
    BY <1>0, <1>1 DEF vars, KeptInv
  <1>2. ASSUME NEW p \in Procs, Start(p)
        PROVE  Kept
    BY <1>0, <1>2 DEF Start, StartEngine, KeptInv, TypeOK, history
  <1>3. ASSUME NEW p \in Procs, EnterStep(p) \/ RetryStep(p)
        PROVE  Kept
    <2>1. current[p] \in Steps /\ attempt[p] + 1 \in Nat
      BY <1>3 DEF EnterStep, RetryStep, StepInv, TypeOK
    <2>2. \E a \in Nat : PrepareAttempt(p, a)
      BY <1>3, <2>1 DEF EnterStep, RetryStep
    <2> QED BY <2>1, <2>2, PrepareAttemptType
  <1>4. ASSUME NEW p \in Procs, Pause(p)
        PROVE  Kept
    <2>1. cp' # None
      BY <1>4, WriteType DEF Pause, TypeOK
    <2> QED BY <2>1
  <1>5. ASSUME NEW p \in Procs, AdvanceIteration(p) \/ CommitStep(p) \/ DecideGate(p)
        PROVE  Kept
    BY <1>0, <1>5 DEF AdvanceIteration, CommitStep, DecideGate, KeptInv, TypeOK
  <1>6. ASSUME NEW p \in Procs, ResumeCycle(p)
        PROVE  Kept
    BY <1>0, <1>6 DEF ResumeCycle, StartEngine, KeptInv, TypeOK, history
  <1>7. ASSUME NEW p \in Procs, FailStep(p) \/ PolicyFails(p) \/ CompleteRun(p) \/ AbortPause(p)
                                \/ AbandonCheckpoint(p)
        PROVE  FALSE
    BY <1>7 DEF FailStep, PolicyFails, CompleteRun, AbortPause, AbandonCheckpoint, EndRun
  <1>8. ASSUME NEW p \in Procs, Crash(p)
        PROVE  Kept
    BY <1>0, <1>8 DEF Crash, Gone, KeptInv, TypeOK, history
  <1>9. ASSUME NEW p \in Procs, ReattachLocal(p)
        PROVE  Kept
    BY <1>9 DEF ReattachLocal
  <1> QED BY <1>1, <1>2, <1>3, <1>4, <1>5, <1>6, <1>7, <1>8, <1>9 DEF Next, Drive, Finished

-----------------------------------------------------------------------------
(* The checkpoint and the running engine stay next to the node last entered.*)
LEMMA PathStep ==
    ASSUME TypeOK, StepInv, SoleInv, IdleInv, KeptInv, PathInv, [Next]_vars
    PROVE  PathInv'
  <1> SUFFICES ASSUME faults' \cap {"write_failed", "overlap"} = {}
               PROVE  /\ cp' # None => Near(cp.node)'
                      /\ \A q \in Procs :
                           /\ pc'[q] \in {"top", "paused"} => Near(current[q])'
                           /\ pc'[q] = "step" => current'[q] = last'
                           /\ (decided'[q] \/ pc'[q] = "paused") => cp' # None /\ cp'.node = current'[q]
    BY DEF PathInv
  <1> DEFINE Path == /\ cp' # None => Near(cp.node)'
                     /\ \A q \in Procs :
                           /\ pc'[q] \in {"top", "paused"} => Near(current[q])'
                           /\ pc'[q] = "step" => current'[q] = last'
                           /\ (decided'[q] \/ pc'[q] = "paused") => cp' # None /\ cp'.node = current'[q]
  <1>0. /\ faults \cap {"write_failed", "overlap"} = {}
        /\ "write_failed" \notin faults' /\ "overlap" \notin faults /\ "overlap" \notin faults'
    BY FaultsGrow
  <1>a. /\ cp # None => Near(cp.node)
        /\ \A q \in Procs :
             /\ pc[q] \in {"top", "paused"} => Near(current[q])
             /\ pc[q] = "step" => current[q] = last
             /\ (decided[q] \/ pc[q] = "paused") => cp # None /\ cp.node = current[q]
    BY <1>0 DEF PathInv
  <1>b. ASSUME NEW p \in Procs, pc[p] # "idle", NEW q \in Procs, q # p
        PROVE  pc[q] = "idle" /\ ~decided[q]
    BY <1>0, <1>b DEF SoleInv, OneDriver, IdleInv, Alive
  <1>1. CASE UNCHANGED vars
    BY <1>a, <1>1 DEF vars, Near
  <1>2. ASSUME NEW p \in Procs, Start(p)
        PROVE  Path
    BY <1>2 DEF Start, StartEngine, SoleInv, IdleInv, Alive, Near, TypeOK, history
  <1>3. ASSUME NEW p \in Procs, EnterStep(p) \/ RetryStep(p)
        PROVE  Path
    <2>1. current[p] \in Steps /\ attempt[p] + 1 \in Nat /\ pc[p] # "idle"
      BY <1>3 DEF EnterStep, RetryStep, StepInv, TypeOK
    <2>2. \E a \in Nat : PrepareAttempt(p, a)
      BY <1>3, <2>1 DEF EnterStep, RetryStep
    <2>3. cp' # None /\ cp'.node = current[p]
      BY <1>0, <2>1, <2>2, PrepareAttemptType
    <2>4. /\ current' = current /\ decided' = decided /\ last' = current[p]
          /\ pc' = [pc EXCEPT ![p] = "step"]
      BY <1>3 DEF EnterStep, RetryStep, PrepareAttempt
    <2> QED BY <1>a, <1>b, <2>1, <2>3, <2>4 DEF Near, TypeOK
  <1>4. ASSUME NEW p \in Procs, AdvanceIteration(p)
        PROVE  Path
    BY <1>a, <1>b, <1>4 DEF AdvanceIteration, Near, TypeOK
  <1>5. ASSUME NEW p \in Procs, CommitStep(p)
        PROVE  Path
    <2>1. pc[p] = "step" /\ current[p] = last /\ ~decided[p]
      BY <1>a, <1>5 DEF CommitStep, StepInv
    <2>2. PICK n \in Succ[last] : current' = [current EXCEPT ![p] = n]
      BY <1>5, <2>1 DEF CommitStep
    <2> QED BY <1>a, <1>b, <1>5, <2>1, <2>2 DEF CommitStep, Near, TypeOK
  <1>6. ASSUME NEW p \in Procs, DecideGate(p)
        PROVE  Path
    <2>1. pc[p] = "top" /\ cp # None /\ cp.node = current[p] /\ last' = current[p]
      BY <1>a, <1>6 DEF DecideGate
    <2>2. PICK n \in Succ[current[p]] : current' = [current EXCEPT ![p] = n]
      BY <1>6 DEF DecideGate
    <2> QED BY <1>a, <1>b, <1>6, <2>1, <2>2 DEF DecideGate, Near, TypeOK
  <1>7. ASSUME NEW p \in Procs, Pause(p)
        PROVE  Path
    <2>1. cp' # None /\ cp'.node = current[p]
      BY <1>0, <1>7, WriteType DEF Pause, TypeOK
    <2> QED BY <1>a, <1>b, <1>7, <2>1 DEF Pause, Near, TypeOK
  <1>8. ASSUME NEW p \in Procs, ResumeCycle(p)
        PROVE  Path
    <2>1. pc[p] = "paused" /\ current' = current /\ cp' = cp /\ last' = last
      BY <1>8 DEF ResumeCycle, StartEngine, history, TypeOK
    <2> QED BY <1>a, <1>b, <1>8, <2>1 DEF ResumeCycle, StartEngine, Near, TypeOK
  <1>9. ASSUME NEW p \in Procs, Gone(p), cp' = cp \/ (cp' = None /\ \A q \in Procs : q # p => ~Alive(q)),
               last' = last
        PROVE  Path
    BY <1>a, <1>9 DEF Gone, IdleInv, Alive, Near, TypeOK
  <1>10. ASSUME NEW p \in Procs, FailStep(p) \/ PolicyFails(p) \/ CompleteRun(p) \/ AbortPause(p)
         PROVE  Path
    <2>1. pc[p] # "idle" /\ EndRun(p)
      BY <1>10 DEF FailStep, PolicyFails, CompleteRun, AbortPause
    <2> QED BY <1>9, <1>b, <2>1 DEF EndRun, Alive
  <1>11. ASSUME NEW p \in Procs, Crash(p)
         PROVE  Path
    BY <1>9, <1>11 DEF Crash, history
  <1>12. ASSUME NEW p \in Procs, AbandonCheckpoint(p)
         PROVE  Path
    <2>1. \A q \in Procs : q # p => ~Alive(q)
      BY <1>0, <1>12 DEF AbandonCheckpoint, Overlap, Alive
    <2> QED BY <1>9, <1>12, <2>1 DEF AbandonCheckpoint, EndRun
  <1>13. ASSUME NEW p \in Procs, ReattachLocal(p)
         PROVE  Path
    <2>1. \A q \in Procs : ~Alive(q)
      BY <1>0, <1>13 DEF ReattachLocal, Reattached, Overlap, Alive
    <2> QED BY <1>a, <1>13, <2>1 DEF ReattachLocal, StartEngine, IdleInv, Alive, Near, TypeOK
  <1> QED BY <1>1, <1>2, <1>3, <1>4, <1>5, <1>6, <1>7, <1>8, <1>10, <1>11, <1>12, <1>13
          DEF Next, Drive, Finished

-----------------------------------------------------------------------------
(* The invariant holds before the first process starts.                     *)
LEMMA InitIInv ==
    ASSUME Init
    PROVE  IInv
  <1>1. TypeOK
    BY NoVisitsType, RunRecoveryAssumption DEF Init, TypeOK
  <1>2. SoleInv /\ IdleInv /\ KeptInv /\ StepInv
    BY DEF Init, SoleInv, IdleInv, KeptInv, StepInv, Alive, OneDriver
  <1>3. PathInv
    BY DEF Init, PathInv, Near
  <1>4. CrashLoopsBounded
    BY NoVisitsType, RunRecoveryAssumption DEF Init, CrashLoopsBounded
  <1>5. VisitInv
    BY <1>4 DEF Init, VisitInv, Alive
  <1> QED BY <1>1, <1>2, <1>3, <1>5 DEF IInv

(* The inductive invariant holds in every reachable state.                  *)
THEOREM Invariance == Spec => []IInv
  <1>1. Init => IInv
    BY InitIInv
  <1>2. IInv /\ [Next]_vars => IInv'
    <2> SUFFICES ASSUME IInv, [Next]_vars
                 PROVE  IInv'
      OBVIOUS
    <2> USE DEF IInv
    <2>1. TypeOK'
      BY TypeStep
    <2>2. StepInv' /\ IdleInv' /\ SoleInv'
      BY StepInvStep, IdleInvStep, SoleStep
    <2>3. VisitInv'
      BY <2>1, VisitStep
    <2>4. KeptInv' /\ PathInv'
      BY KeptStep, PathStep
    <2> QED BY <2>1, <2>2, <2>3, <2>4
  <1> QED BY <1>1, <1>2, PTL DEF Spec

(* Type correctness: the counters of RunState, the checkpoint and the       *)
(* history keep their types, whatever order pauses, crashes and reattaches  *)
(* come in.                                                                 *)
THEOREM TypeCorrect == Spec => []TypeOK
  <1>1. IInv => TypeOK
    BY DEF IInv
  <1> QED BY <1>1, Invariance, PTL

(* However often the run is crashed and reattached, max_visits bounds the   *)
(* executions of a step (incrementVisit, WithResumedVisits), unless a       *)
(* checkpoint write failed, its counts were stale, or two processes drove   *)
(* the run.                                                                 *)
THEOREM CrashLoopsAreBounded == Spec => []CrashLoopsBounded
  <1>1. IInv => CrashLoopsBounded
    BY DEF IInv, VisitInv, CrashLoopsBounded
  <1> QED BY <1>1, Invariance, PTL

(* A run under way can always be picked up again: resumeOneLocalRun keeps   *)
(* the checkpoint until the run is over.                                    *)
THEOREM RunsAreRecoverable == Spec => []RunIsRecoverable
  <1>1. IInv => RunIsRecoverable
    BY DEF IInv, KeptInv, RunIsRecoverable
  <1> QED BY <1>1, Invariance, PTL

(* No node is skipped: through pauses, crashes and reattaches every step    *)
(* that is entered is the node last entered or a successor of it.           *)
THEOREM RunsFollowTheGraph == Spec => NothingSkipped
  <1> DEFINE Conn == \A p \in Procs :
                        /\ pc[p] = "top" /\ pc'[p] = "step"
                        /\ last # None
                        /\ faults \cap {"write_failed", "overlap"} = {}
                        => current[p] \in {last} \cup Succ[last]
  <1>1. IInv /\ [Next]_vars => [Conn]_vars
    BY DEF IInv, PathInv, Near
  <1>2. Spec => [][Conn]_vars
    BY <1>1, Invariance, PTL DEF Spec
  <1> QED BY <1>2 DEF NothingSkipped
=============================================================================
