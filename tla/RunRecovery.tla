----------------------------- MODULE RunRecovery -----------------------------
(***************************************************************************)
(* One local run and the `criteria apply` processes that drive it: the     *)
(* step checkpoint on disk (internal/cli/local_state.go), the processes    *)
(* that write it (internal/cli/apply_setup.go, apply_local.go), what a     *)
(* process restarted after a crash makes of it (resumeLocalInFlightRuns),  *)
(* and the counters that bound the work: visits per step, attempts, total  *)
(* steps (internal/engine/node_step.go, engine.go).                        *)
(*                                                                         *)
(* How a pause is requested, acknowledged and released is the subject of   *)
(* PauseControl; here a pause is one step and so is its release.  Nodes    *)
(* that write no checkpoint (switches, duration waits, iterations over an  *)
(* empty collection) are folded into Succ.                                 *)
(***************************************************************************)
EXTENDS Naturals, FiniteSets

CONSTANTS
    Procs,      \* apply processes that share the state directory
    Steps,      \* adapter steps
    Gates,      \* approval and signal-wait nodes
    Terminals,
    Initial,    \* the graph's initial state
    Succ,       \* Succ[n]: where step or gate n can go
    Items,      \* Items[s]: iterations of a for_each step, 1 for a plain step
    MaxVisits,  \* MaxVisits[s]: max_visits, 0 when unlimited
    MaxTotal,   \* policy.max_total_steps
    MaxRetries, \* policy.max_step_retries
    MaxCrashes, \* bound: crashes of the machine or of a process
    None

Nodes == Steps \cup Gates \cup Terminals

Visits == [Steps -> Nat]

(* The checkpoint.  `stale`: its counts are those of a superseded engine.   *)
Checkpoint == [node : Nodes, visits : Visits, stale : BOOLEAN]

ASSUME RunRecoveryAssumption ==
    /\ Steps \cap Gates = {} /\ Steps \cap Terminals = {} /\ Gates \cap Terminals = {}
    /\ None \notin Nodes /\ None \notin Checkpoint
    /\ Initial \in Nodes
    /\ IsFiniteSet(Steps)
    /\ Succ \in [Steps \cup Gates -> SUBSET Nodes]
    /\ Items \in [Steps -> Nat \ {0}]
    /\ MaxVisits \in [Steps -> Nat]
    /\ MaxTotal \in Nat /\ MaxRetries \in Nat /\ MaxCrashes \in Nat

(* sumVisits: the number of visits there have been. *)
SumVisits(v) == Cardinality(UNION {{s} \X (1 .. v[s]) : s \in Steps})

VARIABLES
    pc,       \* pc[p]: idle (not driving the run), top, step, paused
    current,  \* RunState.Current
    attempt,  \* attempt number of the executing step
    cursor,   \* index of the active iteration, None without a cursor
    visits,   \* RunState.Visits
    total,    \* RunState.TotalSteps
    decided,  \* the engine holds a resume payload
    resumed,  \* the running engine is not the one checkpointFn captured
    frozen,   \* lastVisits of the captured engine, once it is superseded
    cp,       \* the step checkpoint on disk
    begun,    \* the run was started
    crashes,
    \* history, read by no action
    ended,    \* the run was driven to an outcome, or given up
    last,     \* node last entered by any process
    attempts, \* Execute calls per step, by all processes
    finished, \* iterations with an outcome, of the iteration under way
    faults    \* what has gone wrong with the checkpoint so far

volatile == <<pc, current, attempt, cursor, visits, total, decided, resumed, frozen>>
history  == <<ended, last, attempts, finished, faults>>
vars == <<pc, current, attempt, cursor, visits, total, decided, resumed, frozen,
          cp, begun, crashes, ended, last, attempts, finished, faults>>

Faults == {"write_failed", "stale_counts", "overlap"}

TypeOK ==
    /\ pc \in [Procs -> {"idle", "top", "step", "paused"}]
    /\ current \in [Procs -> Nodes]
    /\ attempt \in [Procs -> Nat]
    /\ cursor \in [Procs -> Nat \cup {None}]
    /\ visits \in [Procs -> Visits]
    /\ total \in [Procs -> Nat]
    /\ decided \in [Procs -> BOOLEAN]
    /\ resumed \in [Procs -> BOOLEAN]
    /\ frozen \in [Procs -> Visits]
    /\ cp \in Checkpoint \cup {None}
    /\ begun \in BOOLEAN
    /\ crashes \in Nat
    /\ ended \in BOOLEAN
    /\ last \in Steps \cup Gates \cup {None}
    /\ attempts \in Visits
    /\ finished \in [Steps -> SUBSET Nat]
    /\ faults \in SUBSET Faults

NoVisits == [s \in Steps |-> 0]

Init ==
    /\ pc = [p \in Procs |-> "idle"]
    /\ current = [p \in Procs |-> Initial]
    /\ attempt = [p \in Procs |-> 1]
    /\ cursor = [p \in Procs |-> None]
    /\ visits = [p \in Procs |-> NoVisits]
    /\ total = [p \in Procs |-> 0]
    /\ decided = [p \in Procs |-> FALSE]
    /\ resumed = [p \in Procs |-> FALSE]
    /\ frozen = [p \in Procs |-> NoVisits]
    /\ cp = None /\ begun = FALSE /\ crashes = 0
    /\ ended = FALSE /\ last = None /\ attempts = NoVisits
    /\ finished = [s \in Steps |-> {}] /\ faults = {}

-----------------------------------------------------------------------------
(* Writing the checkpoint replaces the file atomically, or fails and is     *)
(* logged.  The counts come from the engine the closure captured.           *)
WriteStepCheckpoint(p, node, v) ==
    \/ /\ cp' = [node |-> node, visits |-> IF resumed[p] THEN frozen[p] ELSE v,
                 stale |-> resumed[p]]
       /\ UNCHANGED faults
    \/ /\ faults' = faults \cup {"write_failed"}
       /\ UNCHANGED cp

(* A process that is gone has no state.                                     *)
Gone(p) ==
    /\ pc' = [pc EXCEPT ![p] = "idle"]
    /\ current' = [current EXCEPT ![p] = Initial]
    /\ attempt' = [attempt EXCEPT ![p] = 1]
    /\ cursor' = [cursor EXCEPT ![p] = None]
    /\ visits' = [visits EXCEPT ![p] = NoVisits]
    /\ total' = [total EXCEPT ![p] = 0]
    /\ decided' = [decided EXCEPT ![p] = FALSE]
    /\ resumed' = [resumed EXCEPT ![p] = FALSE]
    /\ frozen' = [frozen EXCEPT ![p] = NoVisits]

(* Whatever ends the run in a process in order removes the checkpoint.      *)
EndRun(p) ==
    /\ Gone(p)
    /\ cp' = None /\ ended' = TRUE
    /\ UNCHANGED <<begun, crashes, last, attempts, finished>>

(* Another process is driving the run. *)
Overlap(p) == IF \E q \in Procs \ {p} : pc[q] # "idle" THEN {"overlap"} ELSE {}

(* A process starts an engine at node n with the counts v: Visits are       *)
(* restored, TotalSteps is their sum, and there is no iteration cursor.     *)
StartEngine(p, n, v) ==
    /\ pc' = [pc EXCEPT ![p] = "top"]
    /\ current' = [current EXCEPT ![p] = n]
    /\ attempt' = [attempt EXCEPT ![p] = 1]
    /\ cursor' = [cursor EXCEPT ![p] = None]
    /\ visits' = [visits EXCEPT ![p] = v]
    /\ total' = [total EXCEPT ![p] = SumVisits(v)]

-----------------------------------------------------------------------------
(* executeFreshLocalRun. *)
Start(p) ==
    /\ ~begun /\ pc[p] = "idle"
    /\ begun' = TRUE
    /\ StartEngine(p, Initial, NoVisits)
    /\ UNCHANGED <<decided, resumed, frozen, cp, crashes, history>>

(* incrementVisit refuses the attempt that would exceed max_visits.         *)
VisitAllowed(p) ==
    MaxVisits[current[p]] = 0 \/ visits[p][current[p]] < MaxVisits[current[p]]

(* prepareAttempt: the visit is counted, then the entry is announced, which *)
(* writes the checkpoint; the adapter executes.                             *)
PrepareAttempt(p, a) ==
    LET s == current[p]
        v == [visits[p] EXCEPT ![s] = @ + 1]
    IN  /\ VisitAllowed(p)
        /\ visits' = [visits EXCEPT ![p] = v]
        /\ attempt' = [attempt EXCEPT ![p] = a]
        /\ WriteStepCheckpoint(p, s, v)
        /\ attempts' = [attempts EXCEPT ![s] = @ + 1]
        /\ pc' = [pc EXCEPT ![p] = "step"]
        /\ last' = s

(* stepNode.Evaluate up to the first attempt.  An iterating step without a  *)
(* cursor pushes one at index 0.                                            *)
EnterStep(p) ==
    /\ pc[p] = "top" /\ current[p] \in Steps
    /\ total[p] < MaxTotal
    /\ total' = [total EXCEPT ![p] = @ + 1]
    /\ cursor' = [cursor EXCEPT ![p] = IF @ = None /\ Items[current[p]] > 1 THEN 0 ELSE @]
    /\ PrepareAttempt(p, 1)
    /\ UNCHANGED <<current, decided, resumed, frozen, begun, crashes, ended, finished>>

(* A failed attempt, or one whose outcome the contract rejects, is retried. *)
RetryStep(p) ==
    /\ pc[p] = "step" /\ attempt[p] <= MaxRetries
    /\ PrepareAttempt(p, attempt[p] + 1)
    /\ UNCHANGED <<current, cursor, total, decided, resumed, frozen, begun, crashes, ended, finished>>

(* An attempt has an outcome: the iteration advances, or the step (or its   *)
(* iteration, when all items are done or a failure aborts it) commits to a  *)
(* successor.                                                               *)
AdvanceIteration(p) ==
    /\ pc[p] = "step" /\ cursor[p] # None /\ cursor[p] + 1 < Items[current[p]]
    /\ cursor' = [cursor EXCEPT ![p] = @ + 1]
    /\ finished' = [finished EXCEPT ![current[p]] = @ \cup {cursor[p]}]
    /\ pc' = [pc EXCEPT ![p] = "top"]
    /\ UNCHANGED <<current, attempt, visits, total, decided, resumed, frozen, cp, begun, crashes,
                   ended, last, attempts, faults>>

CommitStep(p) ==
    /\ pc[p] = "step"
    /\ cursor' = [cursor EXCEPT ![p] = None]
    /\ finished' = [finished EXCEPT ![current[p]] = {}]
    /\ \E n \in Succ[current[p]] : current' = [current EXCEPT ![p] = n]
    /\ pc' = [pc EXCEPT ![p] = "top"]
    /\ UNCHANGED <<attempt, visits, total, decided, resumed, frozen, cp, begun, crashes,
                   ended, last, attempts, faults>>

(* The run fails: attempts exhausted, a fatal error, the stop verb.         *)
FailStep(p) ==
    /\ pc[p] = "step"
    /\ EndRun(p) /\ UNCHANGED faults

(* policy.max_total_steps or max_visits refuses the step.                   *)
PolicyFails(p) ==
    /\ \/ pc[p] = "top" /\ current[p] \in Steps /\ (total[p] >= MaxTotal \/ ~VisitAllowed(p))
       \/ pc[p] = "step" /\ attempt[p] <= MaxRetries /\ ~VisitAllowed(p)
    /\ EndRun(p) /\ UNCHANGED faults

CompleteRun(p) ==
    /\ pc[p] = "top" /\ current[p] \in Terminals
    /\ EndRun(p) /\ UNCHANGED faults

-----------------------------------------------------------------------------
(* A gate with a decision commits to a successor.                           *)
DecideGate(p) ==
    /\ pc[p] = "top" /\ current[p] \in Gates /\ decided[p]
    /\ decided' = [decided EXCEPT ![p] = FALSE]
    /\ \E n \in Succ[current[p]] : current' = [current EXCEPT ![p] = n]
    /\ last' = current[p]
    /\ UNCHANGED <<pc, attempt, cursor, visits, total, resumed, frozen, cp, begun, crashes,
                   ended, attempts, finished, faults>>

(* The run pauses: at a gate without a decision, or at the boundary before  *)
(* any node (RequestPause).  PauseCheckpointFn writes the checkpoint.       *)
Pause(p) ==
    /\ pc[p] = "top"
    /\ pc' = [pc EXCEPT ![p] = "paused"]
    /\ decided' = [decided EXCEPT ![p] = FALSE]
    /\ WriteStepCheckpoint(p, current[p], visits[p])
    /\ UNCHANGED <<current, attempt, cursor, visits, total, resumed, frozen, begun, crashes,
                   ended, last, attempts, finished>>

(* drainLocalResumeCycles drives a new engine from the paused node with the *)
(* paused engine's counts.  checkpointFn keeps the engine it captured.      *)
ResumeCycle(p) ==
    /\ pc[p] = "paused"
    /\ StartEngine(p, current[p], visits[p])
    /\ decided' = [decided EXCEPT ![p] = current[p] \in Gates]
    /\ resumed' = [resumed EXCEPT ![p] = TRUE]
    /\ frozen' = [frozen EXCEPT ![p] = IF resumed[p] THEN @ ELSE visits[p]]
    /\ UNCHANGED <<cp, begun, crashes, history>>

(* The wait for a release is aborted.                                       *)
AbortPause(p) ==
    /\ pc[p] = "paused"
    /\ EndRun(p) /\ UNCHANGED faults

-----------------------------------------------------------------------------
(* The process dies without running its deferred calls.                     *)
Crash(p) ==
    /\ pc[p] # "idle" /\ crashes < MaxCrashes
    /\ crashes' = crashes + 1
    /\ Gone(p)
    /\ UNCHANGED <<cp, begun, history>>

(* History: what is wrong with the checkpoint a process reattaches from.    *)
Reattached(p) ==
    faults' = faults \cup Overlap(p) \cup (IF cp.stale THEN {"stale_counts"} ELSE {})

(* Mutant: the interrupted step is taken for done.                          *)
ReattachAfter(p) ==
    /\ pc[p] = "idle" /\ cp # None
    /\ \E n \in (IF cp.node \in Terminals THEN {cp.node} ELSE Succ[cp.node]) :
          StartEngine(p, n, cp.visits)
    /\ Reattached(p)
    /\ UNCHANGED <<decided, resumed, frozen, cp, begun, crashes, ended, last, attempts, finished>>

(* Mutant: the max_visits counts of the checkpoint are not restored.        *)
ReattachForgetsVisits(p) ==
    /\ pc[p] = "idle" /\ cp # None
    /\ StartEngine(p, cp.node, NoVisits)
    /\ Reattached(p)
    /\ UNCHANGED <<decided, resumed, frozen, cp, begun, crashes, ended, last, attempts, finished>>

(* Mutant: the checkpoint is consumed before the run is driven.             *)
ReattachConsumes(p) ==
    /\ pc[p] = "idle" /\ cp # None
    /\ StartEngine(p, cp.node, cp.visits)
    /\ cp' = None
    /\ Reattached(p)
    /\ UNCHANGED <<decided, resumed, frozen, begun, crashes, ended, last, attempts, finished>>

(* resumeOneLocalRun: a process that is starting drives every run it finds  *)
(* a checkpoint of, from the checkpoint's node, with the checkpoint's       *)
(* counts.  Nothing asks whether the process that wrote it is still alive.  *)
ReattachLocal(p) ==
    /\ pc[p] = "idle" /\ cp # None
    /\ StartEngine(p, cp.node, cp.visits)
    /\ Reattached(p)
    /\ UNCHANGED <<decided, resumed, frozen, cp, begun, crashes, ended, last, attempts, finished>>

(* prepareReattach: the workflow no longer compiles or is not supported.    *)
AbandonCheckpoint(p) ==
    /\ pc[p] = "idle" /\ cp # None
    /\ EndRun(p) /\ faults' = faults \cup Overlap(p)

(* Nobody drives the run and there is nothing left to drive it from.        *)
Finished ==
    /\ begun /\ cp = None /\ \A p \in Procs : pc[p] = "idle"
    /\ UNCHANGED vars

-----------------------------------------------------------------------------
Drive(p) ==
    \/ EnterStep(p) \/ RetryStep(p) \/ AdvanceIteration(p) \/ CommitStep(p)
    \/ FailStep(p) \/ PolicyFails(p) \/ CompleteRun(p) \/ DecideGate(p) \/ Pause(p)

Next ==
    \/ \E p \in Procs :
         \/ Start(p) \/ Drive(p) \/ ResumeCycle(p) \/ AbortPause(p)
         \/ Crash(p) \/ ReattachLocal(p) \/ AbandonCheckpoint(p)
    \/ Finished

Spec == Init /\ [][Next]_vars

-----------------------------------------------------------------------------
(* PROPERTIES                                                               *)

(* A crash loop does not amplify work: over all processes and crashes a     *)
(* step with max_visits is executed at most that often, as long as no       *)
(* checkpoint write failed, no process drove the run of a live one, and no  *)
(* checkpoint written after a resume cycle was reattached from              *)
(* (incrementVisit, WithResumedVisits).                                     *)
CrashLoopsBounded ==
    faults = {} => \A s \in Steps : MaxVisits[s] > 0 => attempts[s] <= MaxVisits[s]

(* A run that has entered a step, and was neither driven to an outcome nor  *)
(* given up, can be picked up again after a crash at any point: its         *)
(* checkpoint is on disk, also while a reattached process drives it         *)
(* (resumeOneLocalRun removes it only when the run is over).                *)
RunIsRecoverable ==
    last # None /\ ~ended /\ "write_failed" \notin faults => cp # None

(* The run follows the graph through pauses, crashes and restarts: a node   *)
(* is entered only if it is the node last entered or one of its successors. *)
NothingSkipped ==
    [][\A p \in Procs :
         /\ pc[p] = "top" /\ pc'[p] = "step"
         /\ last # None
         /\ faults \cap {"write_failed", "overlap"} = {}
         => current[p] \in {last} \cup Succ[last]]_vars

-----------------------------------------------------------------------------
(* What comments of the code and the documentation claim, and the code does *)
(* not do.                                                                  *)

(* "The persisted max_visits counts (restored via WithResumedVisits) still  *)
(* bound total attempts across resumes, so a crash-loop cannot amplify into *)
(* unbounded work": with every checkpoint written and one process at a time *)
VisitsBoundAttempts ==
    faults \cap {"write_failed", "overlap"} = {} =>
        \A s \in Steps : MaxVisits[s] > 0 => attempts[s] <= MaxVisits[s]

(* "the step resumes from where it left off without re-executing past       *)
(* iterations": the iteration under way is none that has an outcome.        *)
ResumesWhereItLeftOff ==
    \A p \in Procs :
        pc[p] = "step" /\ cursor[p] # None => cursor[p] \notin finished[current[p]]

(* resumeOneLocalRun "resumes a crashed local run": a run is driven by one  *)
(* process at a time.                                                       *)
OneDriver ==
    \A p, q \in Procs : pc[p] # "idle" /\ pc[q] # "idle" => p = q
=============================================================================
