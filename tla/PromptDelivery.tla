-------------------------- MODULE PromptDelivery --------------------------
(***************************************************************************)
(* The agent prompts of a run (internal/engine/prompts.go).  The control   *)
(* stream puts prompts into a bounded channel; the router's pump takes     *)
(* them out and, under its mutex, decides to deliver, to hold or to refuse *)
(* each one.  What it decided it does after the unlock, while the attempt  *)
(* loops of the step open and close their windows: a loop that opens one   *)
(* delivers what was held, a loop that ends refuses what still is.  Each   *)
(* engine of the run (the first, and one per resume cycle) has a router of *)
(* its own on the same channel.                                            *)
(*                                                                         *)
(* One step is modelled, with several attempt loops: the items of a        *)
(* parallel step share its name, and so its windows.  Whether the adapter  *)
(* accepts a delivery is its own choice.                                   *)
(***************************************************************************)
EXTENDS Naturals, Sequences, FiniteSets

CONSTANTS
  Prompts,      \* the prompts addressed to the step
  Foreign,      \* those of another run, without a step or from a stranger
  Loops,        \* attempt loops of the step
  Modes,        \* "apply" (a full channel blocks) and "agent" (it refuses)
  Capacity,     \* of the prompt channel
  MaxAttempts,  \* 1 + max_step_retries
  MaxEngines    \* bound on the engines of the run

ASSUME PromptAssumption ==
  /\ IsFiniteSet(Loops)
  /\ Foreign \subseteq Prompts /\ Modes \subseteq {"apply", "agent"}
  /\ {Capacity, MaxAttempts, MaxEngines} \subseteq Nat \ {0}

VARIABLES
  mode,
  unsent,     \* prompts the server has not sent
  queue,      \* the prompt channel
  pump,       \* the pump: what it does, and with which prompts
  inFlight,   \* attempts begun by the loops that have not ended
  executing,  \* open windows
  held,
  loop,       \* loop -> where it is, its attempts, prompts in its hands
  engines,    \* engines so far
  outcome     \* prompt -> the outcomes recorded for it

vars == <<mode, unsent, queue, pump, inFlight, executing, held, loop, engines, outcome>>

Outcomes == {"injected", "failed"}

At(st, ps) == [state |-> st, msgs |-> ps]

Ready == [state |-> "idle", attempts |-> 0, msgs |-> <<>>]

TypeOK ==
  /\ mode \in Modes /\ unsent \subseteq Prompts /\ queue \in Seq(Prompts)
  /\ pump.state \in {"select", "deliver", "refuse", "stop", "done"} /\ pump.msgs \in Seq(Prompts)
  /\ inFlight \in Nat /\ executing \in Nat /\ held \in Seq(Prompts)
  /\ \A i \in Loops :
       /\ loop[i].state \in {"idle", "prepare", "flush", "execute", "end", "over"}
       /\ loop[i].attempts \in 0..MaxAttempts /\ loop[i].msgs \in Seq(Prompts)
  /\ engines \in 1..MaxEngines
  /\ outcome \in [Prompts -> Seq(Outcomes)]

Init ==
  /\ mode \in Modes /\ unsent = Prompts /\ queue = <<>>
  /\ pump = At("select", <<>>)
  /\ inFlight = 0 /\ executing = 0 /\ held = <<>>
  /\ loop = [i \in Loops |-> Ready]
  /\ engines = 1
  /\ outcome = [p \in Prompts |-> <<>>]

Record(p, o) == outcome' = [outcome EXCEPT ![p] = Append(@, o)]

Counts == <<inFlight, executing, held>>

-----------------------------------------------------------------------------
(* The control stream.                                                     *)

\* controlLoop in an apply process: forwardControl waits for room.
ForwardControl(p) ==
  /\ mode = "apply" /\ p \in unsent /\ Len(queue) < Capacity
  /\ unsent' = unsent \ {p} /\ queue' = Append(queue, p)
  /\ UNCHANGED <<mode, pump, Counts, loop, engines, outcome>>

\* The agent's way: without room the prompt is recorded as failed.
PromptActive(p) ==
  /\ mode = "agent" /\ p \in unsent
  /\ unsent' = unsent \ {p}
  /\ \/ Len(queue) < Capacity /\ queue' = Append(queue, p) /\ outcome' = outcome
     \/ Len(queue) = Capacity /\ queue' = queue /\ Record(p, "failed")
  /\ UNCHANGED <<mode, pump, Counts, loop, engines>>

-----------------------------------------------------------------------------
(* The pump.                                                               *)

Open == executing > 0

\* route: the receive, the checks and the decision under the mutex.
Route ==
  /\ pump.state = "select" /\ queue # <<>>
  /\ queue' = Tail(queue)
  /\ LET p == Head(queue)
     IN  \/ /\ p \notin Foreign /\ Open
            /\ pump' = At("deliver", <<p>>) /\ held' = held
         \/ /\ p \notin Foreign /\ ~Open /\ inFlight > 0
            /\ pump' = pump /\ held' = Append(held, p)
         \/ /\ p \in Foreign \/ inFlight = 0
            /\ ~(p \notin Foreign /\ Open)
            /\ pump' = At("refuse", <<p>>) /\ held' = held
  /\ UNCHANGED <<mode, unsent, inFlight, executing, loop, engines, outcome>>

\* deliver: the Prompt call ends one way or the other.
PumpDelivers ==
  /\ pump.state = "deliver"
  /\ \E o \in Outcomes : Record(Head(pump.msgs), o)
  /\ pump' = At("select", <<>>)
  /\ UNCHANGED <<mode, unsent, queue, Counts, loop, engines>>

PumpRefuses ==
  /\ pump.state = "refuse"
  /\ Record(Head(pump.msgs), "failed")
  /\ pump' = At("select", <<>>)
  /\ UNCHANGED <<mode, unsent, queue, Counts, loop, engines>>

RunOver == \A i \in Loops : loop[i].state = "over"

\* Stop, when the run loop has returned: the pump takes what is held.
Stop ==
  /\ pump.state = "select" /\ RunOver
  /\ pump' = At("stop", held)
  /\ held' = <<>>
  /\ UNCHANGED <<mode, unsent, queue, inFlight, executing, loop, engines, outcome>>

\* The run is cancelled: the pump stops at once, under loops that have not
\* noticed yet.  No resume cycle follows.
CancelRun ==
  /\ pump.state = "select"
  /\ pump' = At("stop", held)
  /\ held' = <<>>
  /\ engines' = MaxEngines
  /\ UNCHANGED <<mode, unsent, queue, inFlight, executing, loop, outcome>>

\* flushHeld: one record after another, then done.
FlushHeld ==
  /\ pump.state = "stop"
  /\ \/ /\ pump.msgs # <<>>
        /\ Record(Head(pump.msgs), "failed")
        /\ pump' = At("stop", Tail(pump.msgs))
     \/ pump.msgs = <<>> /\ pump' = At("done", <<>>) /\ outcome' = outcome
  /\ UNCHANGED <<mode, unsent, queue, Counts, loop, engines>>

\* A resume cycle: a new engine, and a new router on the same channel.
NextEngine ==
  /\ pump.state = "done" /\ RunOver /\ engines < MaxEngines
  /\ engines' = engines + 1
  /\ pump' = At("select", <<>>)
  /\ inFlight' = 0 /\ executing' = 0 /\ held' = <<>>
  /\ loop' = [i \in Loops |-> Ready]
  /\ UNCHANGED <<mode, unsent, queue, outcome>>

-----------------------------------------------------------------------------
(* The attempt loops of the step: runStepFromAttempt.                      *)

Goto(i, st) == loop' = [loop EXCEPT ![i].state = st]

Hand(i, st, ps) == loop' = [loop EXCEPT ![i].state = st, ![i].msgs = ps]

\* A loop that this engine runs, or one that it does not.
StartLoop(i) ==
  /\ loop[i].state = "idle"
  /\ Goto(i, "prepare") \/ Goto(i, "over")
  /\ UNCHANGED <<mode, unsent, queue, pump, Counts, engines, outcome>>

\* Mutant: what the window was opened with stays held.
BeginExecuteKeeping(i) ==
  /\ loop[i].state = "prepare" /\ loop[i].attempts < MaxAttempts
  /\ inFlight' = inFlight + 1 /\ executing' = executing + 1
  /\ loop' = [loop EXCEPT ![i] = [state |-> "flush", attempts |-> @.attempts + 1, msgs |-> held]]
  /\ UNCHANGED <<mode, unsent, queue, pump, held, engines, outcome>>

\* Mutant: what was held is taken, and not delivered.
BeginExecuteDropping(i) ==
  /\ loop[i].state = "prepare" /\ loop[i].attempts < MaxAttempts
  /\ inFlight' = inFlight + 1 /\ executing' = executing + 1
  /\ loop' = [loop EXCEPT ![i] = [state |-> "flush", attempts |-> @.attempts + 1, msgs |-> <<>>]]
  /\ held' = <<>>
  /\ UNCHANGED <<mode, unsent, queue, pump, engines, outcome>>

\* prepareAttempt has succeeded; beginExecute, under the mutex.
BeginExecute(i) ==
  /\ loop[i].state = "prepare" /\ loop[i].attempts < MaxAttempts
  /\ inFlight' = inFlight + 1 /\ executing' = executing + 1
  /\ loop' = [loop EXCEPT ![i] = [state |-> "flush", attempts |-> @.attempts + 1, msgs |-> held]]
  /\ held' = <<>>
  /\ UNCHANGED <<mode, unsent, queue, pump, engines, outcome>>

\* beginExecute, after the unlock: the held prompts one by one, then Execute.
DeliverHeld(i) ==
  /\ loop[i].state = "flush"
  /\ \/ /\ loop[i].msgs # <<>>
        /\ \E o \in Outcomes : Record(Head(loop[i].msgs), o)
        /\ Hand(i, "flush", Tail(loop[i].msgs))
     \/ loop[i].msgs = <<>> /\ Goto(i, "execute") /\ outcome' = outcome
  /\ UNCHANGED <<mode, unsent, queue, pump, Counts, engines>>

\* endExecute: the next attempt, or the end of the loop follows.
EndExecute(i) ==
  /\ loop[i].state = "execute"
  /\ executing' = executing - 1
  /\ Goto(i, "prepare")
  /\ UNCHANGED <<mode, unsent, queue, pump, inFlight, held, engines, outcome>>

\* Mutant: a loop gives back one attempt, however many it made.
Balance1(i) == IF inFlight > 0 THEN inFlight - 1 ELSE 0

\* endStep gives back the attempts of its loop.
Balance(i) ==
  IF inFlight > loop[i].attempts THEN inFlight - loop[i].attempts ELSE 0

\* The deferred endStep, under the mutex: after the last attempt, a verdict, or
\* a prepareAttempt that failed.  With no attempt of another loop left, the
\* windows are dropped too.
EndStep(i) ==
  /\ loop[i].state = "prepare"
  /\ inFlight' = Balance(i)
  /\ executing' = IF Balance(i) = 0 THEN 0 ELSE executing
  /\ Hand(i, "end", held)
  /\ held' = <<>>
  /\ UNCHANGED <<mode, unsent, queue, pump, engines, outcome>>

\* endStep, after the unlock: what was held is recorded as failed.
RecordNoSession(i) ==
  /\ loop[i].state = "end"
  /\ \/ /\ loop[i].msgs # <<>>
        /\ Record(Head(loop[i].msgs), "failed")
        /\ Hand(i, "end", Tail(loop[i].msgs))
     \/ /\ loop[i].msgs = <<>>
        /\ loop' = [loop EXCEPT ![i] = [Ready EXCEPT !.state = "over"]]
        /\ outcome' = outcome
  /\ UNCHANGED <<mode, unsent, queue, pump, Counts, engines>>

PumpStep == Route \/ PumpDelivers \/ PumpRefuses \/ Stop \/ FlushHeld

LoopStep(i) ==
  \/ StartLoop(i) \/ BeginExecute(i) \/ DeliverHeld(i) \/ EndExecute(i)
  \/ EndStep(i) \/ RecordNoSession(i)

Next ==
  \/ \E p \in Prompts : ForwardControl(p) \/ PromptActive(p)
  \/ PumpStep \/ CancelRun \/ NextEngine
  \/ \E i \in Loops : LoopStep(i)

Spec == Init /\ [][Next]_vars

\* The pump and the loops are goroutines; a step's execute ends (its timeout)
\* and so does a Prompt call.
FairSpec == Spec /\ WF_vars(PumpStep) /\ \A i \in Loops : WF_vars(LoopStep(i))

-----------------------------------------------------------------------------
(* Properties.                                                             *)

\* "AgentPromptInjected is emitted exactly once", and a prompt that was
\* delivered is not reported as failed, nor failed twice: the pump, the loops
\* that open and end, and the stop hand prompts over without sharing one.
OneOutcome == \A p \in Prompts : Len(outcome[p]) <= 1

\* Loops that may still deliver or refuse what is held.
Between(i) == loop[i].state \in {"prepare", "flush", "execute"} /\ loop[i].attempts > 0

\* A prompt is held only while a loop is there to take it: the count that says
\* so is kept by several loops with several attempts each (inFlight, endStep).
HeldHasLoop == held # <<>> => \E i \in Loops : Between(i)

Received(p) == p \notin unsent /\ \A j \in 1..Len(queue) : queue[j] # p

\* Every prompt the router has received is delivered or refused in the end.
EveryPromptAnswered ==
  \A p \in Prompts : Received(p) ~> outcome[p] # <<>>
=============================================================================
