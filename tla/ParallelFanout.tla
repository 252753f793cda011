---------------------------- MODULE ParallelFanout ----------------------------
(***************************************************************************)
(* Parallel steps (internal/engine/parallel_iteration.go): one evaluation  *)
(* of a `parallel = [...]` step is a call that starts a goroutine for      *)
(* every item, waits for all of them and aggregates their results.  An     *)
(* iteration executes an adapter, or runs a subworkflow whose body may     *)
(* evaluate parallel steps again, under the ceiling its state inherits     *)
(* (internal/engine/runstate.go, node_subworkflow.go, node_workflow.go).   *)
(*                                                                         *)
(* The semaphores are counted as the channels of the code are: by tokens,  *)
(* not by owners.  A leaf semaphore is named after the call that made it.  *)
(***************************************************************************)
EXTENDS Naturals, FiniteSets

CONSTANTS
    Steps,       \* compiled parallel steps
    Adapters,    \* those that execute an adapter; the others run a subworkflow
    Max,         \* Max[s]: parallel_max
    OnFailure,   \* OnFailure[s]: abort, continue or ignore
    MaxVisits,   \* MaxVisits[s]: max_visits, 0 when unlimited
    MaxRetries,  \* policy.max_step_retries
    MaxPlain,    \* bound: plain steps a subworkflow body executes
    MaxFanouts,  \* bound: parallel steps the run itself evaluates
    RootCeiling, \* WithParallelCeiling, 0 when there is none
    Calls,       \* evaluations of parallel steps
    Step,        \* Step[c]: the step that call c evaluates
    Parent,      \* Parent[c]: the iteration in whose body c is evaluated, or None
    Iters,       \* iterations
    Call,        \* Call[i]: the call that iteration i belongs to
    None

ASSUME ParallelFanoutAssumption ==
    /\ Adapters \subseteq Steps
    /\ Max \in [Steps -> Nat \ {0}]
    /\ OnFailure \in [Steps -> {"abort", "continue", "ignore"}]
    /\ MaxVisits \in [Steps -> Nat]
    /\ MaxRetries \in Nat /\ MaxPlain \in Nat /\ MaxFanouts \in Nat /\ RootCeiling \in Nat
    /\ Step \in [Calls -> Steps]
    /\ Parent \in [Calls -> Iters \cup {None}]
    /\ Call \in [Iters -> Calls]
    /\ None \notin Iters \cup Calls
    /\ \A c \in Calls : Parent[c] # None => Step[Call[Parent[c]]] \notin Adapters
    /\ IsFiniteSet(Iters)

VARIABLES
    status,    \* status[c]: idle, running or done
    outcome,   \* outcome[c]: the aggregate outcome of a call that is done
    eff,       \* eff[c]: effectiveMax
    leaf,      \* leaf[c]: the leaf semaphore, as the call that made it
    tokens,    \* tokens[c]: tokens in the leaf semaphore that c made
    launched,  \* launched[c]: tokens in c's launch semaphore
    cancelled, \* cancelled[c]: the context of c's iterations is cancelled
    visits,    \* visits[c]: Visits of c's step in the state c is evaluated in
    pc,        \* pc[i]: where the goroutine of iteration i is
    attempt,   \* attempt[i]: attempts of an adapter iteration, plain steps of a body
    result,    \* result[i]: parallelIterResult
    stopped    \* the run's context is cancelled

semVars == <<eff, leaf, tokens, launched>>
vars == <<status, outcome, eff, leaf, tokens, launched, cancelled, visits, pc,
          attempt, result, stopped>>

(* An adapter iteration waits for its launch token, the subtree token and   *)
(* the leaf token in turn, prepares its attempt and executes; a subworkflow *)
(* iteration is in its body, in a plain step of it or in an inner call, or  *)
(* leaves the body with an error of the inner call.                         *)
AdapterPC == {"leaf", "ready", "counting", "counted", "announce", "exec"}
BodyPC    == {"body", "plain", "inner", "unwind"}
PCs       == {"new", "queued", "subtree", "finish", "done"} \cup AdapterPC \cup BodyPC

(* bailed: no outcome, cancelled; broken: no outcome, an engine error;      *)
(* fatal: a FatalRunError.                                                  *)
Results  == {"none", "success", "failure", "bailed", "broken", "fatal"}
Outcomes == {"none", "all_succeeded", "any_failed", "error", "fatal"}

TypeOK ==
    /\ status \in [Calls -> {"idle", "running", "done"}]
    /\ outcome \in [Calls -> Outcomes]
    /\ eff \in [Calls -> Nat]
    /\ leaf \in [Calls -> Calls \cup {None}]
    /\ tokens \in [Calls -> Nat] /\ launched \in [Calls -> Nat]
    /\ cancelled \in [Calls -> BOOLEAN]
    /\ visits \in [Calls -> Nat]
    /\ pc \in [Iters -> PCs]
    /\ attempt \in [Iters -> Nat]
    /\ result \in [Iters -> Results]
    /\ stopped \in BOOLEAN

Init ==
    /\ status = [c \in Calls |-> "idle"] /\ outcome = [c \in Calls |-> "none"]
    /\ eff = [c \in Calls |-> 0] /\ leaf = [c \in Calls |-> None]
    /\ tokens = [c \in Calls |-> 0] /\ launched = [c \in Calls |-> 0]
    /\ cancelled = [c \in Calls |-> FALSE]
    /\ visits = [c \in Calls |-> 0]
    /\ pc = [i \in Iters |-> "new"] /\ attempt = [i \in Iters |-> 0]
    /\ result = [i \in Iters |-> "none"]
    /\ stopped = FALSE

-----------------------------------------------------------------------------
(* The state a call is evaluated in.                                        *)
ItemsOf(c) == {i \in Iters : Call[i] = c}

IsAdapter(i) == Step[Call[i]] \in Adapters

(* st.ParallelCeiling and st.ParallelSem *)
Ceiling(c) == IF Parent[c] = None THEN RootCeiling ELSE eff[Call[Parent[c]]]

ParallelSem(c) == IF Parent[c] = None THEN None ELSE leaf[Call[Parent[c]]]

(* The context the call was given. *)
ContextDone(c) == IF Parent[c] = None THEN stopped ELSE cancelled[Call[Parent[c]]]

EffectiveParallelMax(m, ceiling) == IF ceiling > 0 /\ ceiling < m THEN ceiling ELSE m

(* ParallelSemCache: the calls that made a semaphore under the key of c:    *)
(* the compiled step, the inherited ceiling and the inherited semaphore.    *)
Cached(c) ==
    {d \in Calls : /\ leaf[d] = d /\ Step[d] = Step[c]
                   /\ Ceiling(d) = Ceiling(c) /\ ParallelSem(d) = ParallelSem(c)}

(* Mutant: every call makes a leaf semaphore of its own.                    *)
UncachedLeafSem(c, e) ==
    IF ParallelSem(c) # None /\ e = Ceiling(c) THEN ParallelSem(c) ELSE c

(* parallelSemaphores: the leaf semaphore of a call whose cap is e.         *)
LeafSem(c, e) ==
    IF ParallelSem(c) # None /\ e = Ceiling(c) THEN ParallelSem(c)
    ELSE IF Cached(c) # {} THEN CHOOSE d \in Cached(c) : TRUE
    ELSE c

(* The step's cap is lower than the inherited ceiling: its iterations hold  *)
(* a token of the inherited semaphore as well.                              *)
Lowered(c) == ParallelSem(c) # None /\ eff[c] < Ceiling(c)

-----------------------------------------------------------------------------
(* A call.                                                                  *)

(* The caller is at a node of its own: one of the run, or of a body.        *)
CallerReady(c) ==
    IF Parent[c] = None
    THEN /\ \A d \in Calls : Parent[d] = None => status[d] # "running"
         /\ Cardinality({d \in Calls : Parent[d] = None /\ status[d] = "done"}) < MaxFanouts
    ELSE pc[Parent[c]] = "body"

(* evaluateParallel, up to the start of the goroutines.                     *)
StartCall(c) ==
    LET e == EffectiveParallelMax(Max[Step[c]], Ceiling(c))
    IN  /\ status[c] = "idle" /\ CallerReady(c)
        /\ status' = [status EXCEPT ![c] = "running"]
        /\ eff' = [eff EXCEPT ![c] = e]
        /\ leaf' = [leaf EXCEPT ![c] = LeafSem(c, e)]
        /\ pc' = [i \in Iters |-> IF Call[i] = c THEN "queued"
                                  ELSE IF i = Parent[c] THEN "inner" ELSE pc[i]]
        /\ UNCHANGED <<outcome, tokens, launched, cancelled, visits, attempt, result, stopped>>

(* The call returns to its caller.  An error ends the body it was made in.  *)
Return(c, o) ==
    LET p == Parent[c]
    IN  /\ status' = [status EXCEPT ![c] = "done"]
        /\ outcome' = [outcome EXCEPT ![c] = o]
        /\ IF p = None \/ o \in {"all_succeeded", "any_failed"}
           THEN /\ pc' = [i \in Iters |-> IF i = p THEN "body" ELSE pc[i]]
                /\ result' = [i \in Iters |-> IF Call[i] = c THEN "none" ELSE result[i]]
           ELSE /\ pc' = [i \in Iters |-> IF i = p THEN "unwind" ELSE pc[i]]
                /\ result' = [i \in Iters |->
                                IF Call[i] = c THEN "none"
                                ELSE IF i # p THEN result[i]
                                ELSE IF o = "fatal" THEN "fatal" ELSE "failure"]

(* An empty list succeeds; a list that cannot be evaluated or an adapter    *)
(* that is not parallel_safe is an error.                                   *)
ReturnAtOnce(c) ==
    /\ status[c] = "idle" /\ CallerReady(c)
    /\ \E o \in {"all_succeeded", "error"} : Return(c, o)
    /\ UNCHANGED <<semVars, cancelled, visits, attempt, stopped>>

(* Mutant: a cancellation from above is not looked at.                      *)
AggregateBlindly(c) ==
    LET got == {result[i] : i \in ItemsOf(c)}
    IN  IF got \cap {"fatal", "broken"} # {}
        THEN {IF r = "fatal" THEN "fatal" ELSE "error" : r \in got \ {"bailed"}}
        ELSE {IF got # {"success"} /\ OnFailure[Step[c]] # "ignore"
              THEN "any_failed" ELSE "all_succeeded"} \cup {"error"}

(* aggregateParallelResults and finishParallelOutcome: a cancellation from  *)
(* above is an error; so is an engine error or a fatal error of an          *)
(* iteration, or the write block of one with an outcome, whichever comes    *)
(* first; otherwise the outcomes count, and a write block or an output      *)
(* projection may still fail.                                               *)
Aggregate(c) ==
    LET got == {result[i] : i \in ItemsOf(c)}
    IN  IF ContextDone(c) THEN {"error"}
        ELSE IF got \cap {"fatal", "broken"} # {}
        THEN {IF r = "fatal" THEN "fatal" ELSE "error" : r \in got \ {"bailed"}}
        ELSE {IF got # {"success"} /\ OnFailure[Step[c]] # "ignore"
              THEN "any_failed" ELSE "all_succeeded"} \cup {"error"}

(* All goroutines have returned (wg.Wait).                                  *)
EndCall(c) ==
    /\ status[c] = "running"
    /\ \A i \in ItemsOf(c) : pc[i] = "done"
    /\ \E o \in Aggregate(c) : Return(c, o)
    /\ UNCHANGED <<semVars, cancelled, visits, attempt, stopped>>

(* The cancellation of a context reaches the contexts made from it.         *)
Propagate(c) ==
    /\ status[c] = "running" /\ ~cancelled[c] /\ ContextDone(c)
    /\ cancelled' = [cancelled EXCEPT ![c] = TRUE]
    /\ UNCHANGED <<status, outcome, semVars, visits, pc, attempt, result, stopped>>

(* The run is cancelled. *)
Stop ==
    /\ ~stopped
    /\ stopped' = TRUE
    /\ UNCHANGED <<status, outcome, semVars, cancelled, visits, pc, attempt, result>>

-----------------------------------------------------------------------------
(* An iteration: runOneParallelItem.                                        *)
GoTo(i, where) == pc' = [pc EXCEPT ![i] = where]

Record(i, r) == result' = [result EXCEPT ![i] = r]

(* The launch token, or the iteration's context is done.                    *)
Launch(i) ==
    LET c == Call[i]
    IN  /\ pc[i] = "queued"
        /\ \/ /\ launched[c] < eff[c]
              /\ launched' = [launched EXCEPT ![c] = @ + 1]
              /\ GoTo(i, IF Lowered(c) THEN "subtree"
                         ELSE IF IsAdapter(i) THEN "leaf" ELSE "body")
              /\ UNCHANGED result
           \/ cancelled[c] /\ Record(i, "bailed") /\ GoTo(i, "done") /\ UNCHANGED launched
        /\ UNCHANGED <<status, outcome, eff, leaf, tokens, cancelled, visits, attempt, stopped>>

(* Mutant: a subworkflow iteration takes a leaf token too.                  *)
AcquireSubtreeAndLeaf(i) ==
    LET c == Call[i]
    IN  /\ pc[i] = "subtree"
        /\ \/ /\ tokens[ParallelSem(c)] < eff[ParallelSem(c)]
              /\ IF IsAdapter(i)
                 THEN tokens' = [tokens EXCEPT ![ParallelSem(c)] = @ + 1]
                 ELSE /\ tokens[leaf[c]] < eff[leaf[c]]
                      /\ tokens' = [tokens EXCEPT ![ParallelSem(c)] = @ + 1, ![leaf[c]] = @ + 1]
              /\ GoTo(i, IF IsAdapter(i) THEN "leaf" ELSE "body")
              /\ UNCHANGED result
           \/ cancelled[c] /\ Record(i, "bailed") /\ GoTo(i, "finish") /\ UNCHANGED tokens
        /\ UNCHANGED <<status, outcome, eff, leaf, launched, cancelled, visits, attempt, stopped>>

(* The token of the inherited semaphore (acquireParallelLeafSemaphores,     *)
(* runParallelSubworkflowOnce).                                             *)
AcquireSubtree(i) ==
    LET c == Call[i]
    IN  /\ pc[i] = "subtree"
        /\ \/ /\ tokens[ParallelSem(c)] < eff[ParallelSem(c)]
              /\ tokens' = [tokens EXCEPT ![ParallelSem(c)] = @ + 1]
              /\ GoTo(i, IF IsAdapter(i) THEN "leaf" ELSE "body")
              /\ UNCHANGED result
           \/ cancelled[c] /\ Record(i, "bailed") /\ GoTo(i, "finish") /\ UNCHANGED tokens
        /\ UNCHANGED <<status, outcome, eff, leaf, launched, cancelled, visits, attempt, stopped>>

(* The tokens after giving back the one of the inherited semaphore, if any. *)
GiveBackSubtree(c, t) == IF Lowered(c) THEN [t EXCEPT ![ParallelSem(c)] = @ - 1] ELSE t

(* Mutant: a cancelled acquisition keeps the subtree token.                 *)
AcquireLeafLeaky(i) ==
    LET c == Call[i]
    IN  /\ pc[i] = "leaf"
        /\ \/ /\ tokens[leaf[c]] < eff[leaf[c]]
              /\ tokens' = [tokens EXCEPT ![leaf[c]] = @ + 1]
              /\ GoTo(i, "ready") /\ UNCHANGED result
           \/ /\ cancelled[c]
              /\ Record(i, "bailed") /\ GoTo(i, "finish") /\ UNCHANGED tokens
        /\ UNCHANGED <<status, outcome, eff, leaf, launched, cancelled, visits, attempt, stopped>>

(* The leaf token; a cancelled acquisition gives the subtree token back.    *)
AcquireLeaf(i) ==
    LET c == Call[i]
    IN  /\ pc[i] = "leaf"
        /\ \/ /\ tokens[leaf[c]] < eff[leaf[c]]
              /\ tokens' = [tokens EXCEPT ![leaf[c]] = @ + 1]
              /\ GoTo(i, "ready") /\ UNCHANGED result
           \/ /\ cancelled[c]
              /\ tokens' = GiveBackSubtree(c, tokens)
              /\ Record(i, "bailed") /\ GoTo(i, "finish")
        /\ UNCHANGED <<status, outcome, eff, leaf, launched, cancelled, visits, attempt, stopped>>

(* The adapter iteration has a result and gives its tokens back.            *)
Release(i, r) ==
    LET c == Call[i]
    IN  /\ tokens' = GiveBackSubtree(c, [tokens EXCEPT ![leaf[c]] = @ - 1])
        /\ Record(i, r) /\ GoTo(i, "finish")

(* max_visits allows another visit. *)
VisitAllowed(c) == MaxVisits[Step[c]] = 0 \/ visits[c] < MaxVisits[Step[c]]

(* Mutant: the visit counts are checked and written without the lock.       *)
BeginVisitUnlocked(i) ==
    LET c == Call[i]
    IN  /\ pc[i] = "ready"
        /\ \/ ~cancelled[c] /\ VisitAllowed(c) /\ GoTo(i, "counting") /\ UNCHANGED <<tokens, result>>
           \/ (cancelled[c] \/ ~VisitAllowed(c)) /\ Release(i, "failure")
        /\ UNCHANGED <<status, outcome, eff, leaf, launched, cancelled, visits, attempt, stopped>>

(* prepareAttempt looks at the context, takes the lock of the visit counts  *)
(* and checks max_visits (incrementVisit).  Before the first attempt the    *)
(* input expressions are evaluated, which may fail.                         *)
BeginVisit(i) ==
    LET c == Call[i]
    IN  /\ pc[i] = "ready"
        /\ \/ cancelled[c] /\ Release(i, "failure")
           \/ attempt[i] = 0 /\ Release(i, "broken")
           \/ /\ ~cancelled[c]
              /\ \A j \in ItemsOf(c) : pc[j] # "counting"
              /\ \/ VisitAllowed(c) /\ GoTo(i, "counting") /\ UNCHANGED <<tokens, result>>
                 \/ ~VisitAllowed(c) /\ Release(i, "failure")
        /\ UNCHANGED <<status, outcome, eff, leaf, launched, cancelled, visits, attempt, stopped>>

(* The visit is counted and the lock given back.                            *)
EndVisit(i) ==
    /\ pc[i] = "counting"
    /\ visits' = [visits EXCEPT ![Call[i]] = @ + 1]
    /\ attempt' = [attempt EXCEPT ![i] = @ + 1]
    /\ GoTo(i, "counted")
    /\ UNCHANGED <<status, outcome, semVars, cancelled, result, stopped>>

(* OnStepEntered, one iteration at a time (lockedSink): the sink of a local *)
(* run writes the step checkpoint, with the visit counts of the run.        *)
BeginAnnounce(i) ==
    /\ pc[i] = "counted" /\ \A j \in Iters : pc[j] # "announce"
    /\ GoTo(i, "announce")
    /\ UNCHANGED <<status, outcome, semVars, cancelled, visits, attempt, result, stopped>>

EndAnnounce(i) ==
    /\ pc[i] = "announce"
    /\ GoTo(i, "exec")
    /\ UNCHANGED <<status, outcome, semVars, cancelled, visits, attempt, result, stopped>>

(* The adapter returns: an outcome, a fatal error, or an error or a         *)
(* rejected outcome that is tried again.                                    *)
AdapterReturns(i) ==
    /\ pc[i] = "exec"
    /\ \/ \E r \in {"success", "failure", "fatal"} : Release(i, r)
       \/ attempt[i] <= MaxRetries /\ GoTo(i, "ready") /\ UNCHANGED <<tokens, result>>
    /\ UNCHANGED <<status, outcome, eff, leaf, launched, cancelled, visits, attempt, stopped>>

(* A plain adapter step of a subworkflow body takes no token.               *)
EnterPlain(i) ==
    /\ pc[i] = "body" /\ ~cancelled[Call[i]] /\ attempt[i] < MaxPlain
    /\ attempt' = [attempt EXCEPT ![i] = @ + 1]
    /\ GoTo(i, "plain")
    /\ UNCHANGED <<status, outcome, semVars, cancelled, visits, result, stopped>>

LeavePlain(i) ==
    /\ pc[i] = "plain"
    /\ GoTo(i, "body")
    /\ UNCHANGED <<status, outcome, semVars, cancelled, visits, attempt, result, stopped>>

(* The body ends: in a terminal state, with an error of a node (a           *)
(* cancellation included), with the error of an inner call, or, before its  *)
(* first node, with an error in its input.  The subtree token is given back.*)
EndBody(i) ==
    /\ \/ pc[i] = "body" /\ \E r \in {"success", "failure", "fatal"} : Record(i, r)
       \/ /\ pc[i] = "body" /\ attempt[i] = 0
          /\ \A c \in Calls : Parent[c] = i => status[c] = "idle"
          /\ Record(i, "broken")
       \/ pc[i] = "unwind" /\ UNCHANGED result
    /\ tokens' = GiveBackSubtree(Call[i], tokens)
    /\ GoTo(i, "finish")
    /\ UNCHANGED <<status, outcome, eff, leaf, launched, cancelled, visits, attempt, stopped>>

(* The goroutine ends: a failure cancels the siblings in abort mode, then   *)
(* the launch token is given back.                                          *)
Finish(i) ==
    LET c == Call[i]
    IN  /\ pc[i] = "finish"
        /\ cancelled' = [cancelled EXCEPT
                           ![c] = @ \/ (OnFailure[Step[c]] = "abort" /\ result[i] # "success")]
        /\ launched' = [launched EXCEPT ![c] = @ - 1]
        /\ GoTo(i, "done")
        /\ UNCHANGED <<status, outcome, eff, leaf, tokens, visits, attempt, result, stopped>>

(* No fan-out is under way. *)
Finished ==
    /\ \A c \in Calls : status[c] # "running"
    /\ UNCHANGED vars

-----------------------------------------------------------------------------
RunIteration(i) ==
    \/ Launch(i) \/ AcquireSubtree(i) \/ AcquireLeaf(i)
    \/ BeginVisit(i) \/ EndVisit(i) \/ BeginAnnounce(i) \/ EndAnnounce(i)
    \/ AdapterReturns(i) \/ EnterPlain(i) \/ LeavePlain(i) \/ EndBody(i) \/ Finish(i)

Next ==
    \/ \E c \in Calls : StartCall(c) \/ ReturnAtOnce(c) \/ EndCall(c) \/ Propagate(c)
    \/ \E i \in Iters : RunIteration(i)
    \/ Stop
    \/ Finished

Spec == Init /\ [][Next]_vars

(* While a goroutine can run, one does, and adapters return.                *)
Fairness == WF_vars((\E i \in Iters : RunIteration(i)) \/ (\E c \in Calls : EndCall(c)))

FairSpec == Spec /\ Fairness

-----------------------------------------------------------------------------
(* PROPERTIES                                                               *)

Executing(i) == IsAdapter(i) /\ pc[i] = "exec"

(* The calls that have been started, and those that made a semaphore. *)
Started == {c \in Calls : status[c] # "idle"}
Made    == {c \in Calls : leaf[c] = c}

(* Two limits hold at once for the adapter executions of parallel steps:    *)
(* over all iterations of an enclosing fan-out that share its semaphore, no *)
(* more than its cap (also for a step that lowers the cap, which takes both *)
(* tokens), and over all evaluations of one step under the same semaphore,  *)
(* no more than the step's parallel_max (ParallelSemCache).                 *)
ConcurrencyBounded ==
    LET running == {i \in Iters : Executing(i)}
    IN  /\ \A c \in Made :
              Cardinality({i \in running : c \in {leaf[Call[i]], ParallelSem(Call[i])}}) <= eff[c]
        /\ \A c \in Started :
              Cardinality({i \in running : /\ Step[Call[i]] = Step[c]
                                           /\ ParallelSem(Call[i]) = ParallelSem(c)}) <= Max[Step[c]]

(* Who holds a token of which semaphore. *)
HoldsLaunch(i)  == pc[i] \notin {"new", "queued", "done"}
HoldsSubtree(i) == pc[i] \in AdapterPC \cup BodyPC /\ Lowered(Call[i])
HoldsLeaf(i)    == pc[i] \in AdapterPC \ {"leaf"}

(* Every token in a semaphore belongs to a goroutine that will give it      *)
(* back, whichever way acquisitions were cancelled: nothing leaks and       *)
(* nothing is given back twice (acquireParallelLeafSemaphores).             *)
TokensAccounted ==
    /\ \A c \in Started :
          launched[c] = Cardinality({i \in ItemsOf(c) : HoldsLaunch(i)})
    /\ \A c \in Made :
          tokens[c] = Cardinality({i \in Iters : HoldsLeaf(i) /\ leaf[Call[i]] = c})
                    + Cardinality({i \in Iters : HoldsSubtree(i) /\ ParallelSem(Call[i]) = c})

(* max_visits bounds the attempts of all iterations of a step together,     *)
(* however their checks and counts interleave (incrementVisit).             *)
VisitsBounded ==
    \A c \in Calls : MaxVisits[Step[c]] > 0 => visits[c] <= MaxVisits[Step[c]]

(* A fan-out that was cut short, by a failure in it or by a cancellation    *)
(* from above, is never reported as a success, on_failure = ignore included *)
(* (evaluateParallel's check of the context it was given).                  *)
CutShortIsNoSuccess ==
    \A c \in Calls :
        status[c] = "done" /\ cancelled[c] => outcome[c] # "all_succeeded"

(* A fan-out ends: whatever is nested in it, its goroutines do not block    *)
(* each other for good on the semaphores they hold.                         *)
FanoutEnds ==
    (\E c \in Calls : status[c] = "running") ~> (\A c \in Calls : status[c] # "running")

-----------------------------------------------------------------------------
(* What a comment of the code claims, and the code does not do.             *)

(* "visitsMu serializes Visits map access across goroutines": no iteration  *)
(* of a step of the run writes the visit counts while another one's step    *)
(* checkpoint reads them.                                                   *)
VisitsSerialized ==
    \A i, j \in Iters :
        pc[i] = "counting" /\ Parent[Call[i]] = None => pc[j] # "announce"
=============================================================================
