------------------------------ MODULE ToolCalls ------------------------------
(***************************************************************************)
(* Adapter tool calls: an adapter that executes a step calls a tool of      *)
(* another adapter and gets the result inline (internal/adapterhost,        *)
(* tool_call.go, permission_state.go and the nested executes of             *)
(* sessions.go).                                                           *)
(*                                                                         *)
(* A frame is one SessionManager.execute: a step-level one, or a nested     *)
(* one that a tool call of its parent started.  A frame waits for the       *)
(* callee's execute turn, runs, then waits for its own nested calls and     *)
(* gives the turn back.  Contexts form the same tree, so a cancelled step   *)
(* cancels what it called.  Permission decisions, contracts and encodings   *)
(* are abstracted to whether the call is refused and with which effect.     *)
(***************************************************************************)
EXTENDS Naturals, FiniteSets

CONSTANTS Adapters,    \* adapter instances, one session each
          Allowed,     \* pairs <<caller, callee>> the grants and allow_tools admit
          Concurrent,  \* adapters that declare a concurrent-execute capability
          StepAdapters,\* adapters that steps target
          MaxDepth,    \* policy.max_tool_depth
          MaxCalls,    \* policy.max_tool_calls, per caller session
          MaxSteps,    \* bound: step-level executes
          MaxFrames,   \* bound: frames
          MaxIssued,   \* bound: calls one frame makes
          Pausable     \* bound: the sessions that get paused

ASSUME DomainAssumption ==
  /\ Allowed \subseteq Adapters \X Adapters
  /\ Pausable \subseteq Adapters
  /\ Concurrent \subseteq Adapters /\ StepAdapters \subseteq Adapters
ASSUME LimitAssumption ==
  /\ MaxDepth \in Nat \ {0} /\ MaxCalls \in Nat \ {0}
  /\ MaxSteps \in Nat /\ MaxFrames \in Nat /\ MaxIssued \in Nat

Frames == 1 .. MaxFrames

VARIABLES
  frame,     \* [Frames -> what the execute is about and where it is]
  made,      \* frames made so far
  holder,    \* [Adapters -> frame with the execute turn, 0 when it is free]
  charged,   \* toolCallBudgets
  pending,   \* [Adapters -> registered nested calls of the session]
  issued,    \* [Frames -> calls the adapter made that were dispatched]
  answered,  \* [Frames -> replies to those calls that were queued for the adapter]
  dropped,   \* [Frames -> replies to those calls that found the queue full]
  gate,      \* toolCallPauseGate of each session
  pausing    \* progress of Session.Pause: "no", "drain", "grace", "paused"

replyVars == <<answered, dropped>>
toolVars == <<frame, made, holder, charged, pending, issued, replyVars, gate, pausing>>

NoFrame ==
  [adapter |-> CHOOSE a \in Adapters : TRUE, parent |-> 0, above |-> {},
   state |-> "none", cancelled |-> FALSE, fatal |-> FALSE]

\* "done" and "erred" end an execute that returned or failed, "refused" a call
\* the pause gate turned away after it was dispatched.
Ended == {"done", "erred", "refused"}
States == Ended \cup {"none", "dispatched", "queued", "running", "returned", "failed"}

ToolInit ==
  /\ frame = [f \in Frames |-> NoFrame] /\ made = 0
  /\ holder = [a \in Adapters |-> 0]
  /\ charged = [a \in Adapters |-> 0]
  /\ pending = [a \in Adapters |-> {}]
  /\ issued = [f \in Frames |-> 0] /\ answered = [f \in Frames |-> 0]
  /\ dropped = [f \in Frames |-> 0]
  /\ gate = [a \in Adapters |-> FALSE] /\ pausing = [a \in Adapters |-> "no"]

Live(f) == frame[f].state \notin Ended \cup {"none"}
Children(f) == {g \in Frames : Live(g) /\ frame[g].parent = f}
Caller(f) == frame[frame[f].parent].adapter

\* The frames whose contexts derive from f's, and the adapters on f's chain.
Below(f) == {g \in Frames : Live(g) /\ f \in frame[g].above \cup {g}}
Chain(f) == {frame[g].adapter : g \in frame[f].above \cup {f}}

NewFrame(a, p) ==
  [adapter |-> a, parent |-> p, above |-> IF p = 0 THEN {} ELSE frame[p].above \cup {p},
   state |-> IF p = 0 THEN "queued" ELSE "dispatched",
   cancelled |-> p # 0 /\ frame[p].cancelled, fatal |-> FALSE]

Enter(f, state) == frame' = [frame EXCEPT ![f].state = state]

\* sendToolCallResultEvent: the reply to one call of f is queued for f's
\* adapter or, when the session's queue of permission events is full, dropped.
\* Other permission traffic fills the queue and a stalled adapter does not
\* empty it, so any reply may find it full.
Reply(f) ==
  \/ answered' = [answered EXCEPT ![f] = @ + 1] /\ UNCHANGED dropped
  \/ dropped' = [dropped EXCEPT ![f] = @ + 1] /\ UNCHANGED answered

\* The registry of nested calls of a caller session.
RegisterPending(a, g) == pending' = [pending EXCEPT ![a] = @ \cup {g}]
ClearPending(a, g) == pending' = [pending EXCEPT ![a] = @ \ {g}]

-----------------------------------------------------------------------------
(* Executes.                                                               *)

\* SessionManager.Execute for a step: the chain starts with the step's own
\* adapter.
Execute(a) ==
  /\ made < MaxFrames
  /\ Cardinality({f \in Frames : frame[f].state # "none" /\ frame[f].parent = 0}) < MaxSteps
  /\ made' = made + 1
  /\ frame' = [frame EXCEPT ![made + 1] = NewFrame(a, 0)]
  /\ UNCHANGED <<holder, charged, pending, issued, replyVars, gate, pausing>>

\* acquireExecuteTurn and the start of the callee: a session that does not
\* multiplex takes one execute at a time.
TurnFree(a) == a \in Concurrent \/ holder[a] = 0

\* A free turn is taken without a look at the context, so a cancelled call may
\* still run; one that had to wait for the turn gives up.
StartExecute(f) ==
  LET a == frame[f].adapter IN
  /\ frame[f].state = "queued" /\ TurnFree(a)
  /\ Enter(f, "running")
  /\ holder' = IF a \in Concurrent THEN holder ELSE [holder EXCEPT ![a] = f]
  /\ UNCHANGED <<made, charged, pending, issued, replyVars, gate, pausing>>

\* The adapter's Execute comes back; a failed one (an error that is not a
\* crash, a cancelled context, an invalid outcome) takes the early returns of
\* finishExecute.
AdapterReturns(f, how) ==
  /\ frame[f].state = "running" /\ how \in {"returned", "failed"}
  /\ Enter(f, how)
  /\ UNCHANGED <<made, holder, charged, pending, issued, replyVars, gate, pausing>>

\* The callee's session crashes under on_crash = abort_run.
CalleeAborts(f) ==
  /\ frame[f].state = "running" /\ frame[f].parent # 0
  /\ frame' = [frame EXCEPT ![f].state = "returned", ![f].fatal = TRUE]
  /\ UNCHANGED <<made, holder, charged, pending, issued, replyVars, gate, pausing>>

\* What an execute that ends reports upwards: nestedFatal is only read when
\* the adapter call itself succeeded.
Fatal(f) == frame[f].fatal /\ frame[f].state = "returned"

\* Mutant: a fatal callee error is only data for the caller.
SettleUnlatched(f) ==
  LET p == frame[f].parent IN
  /\ frame' = [frame EXCEPT ![f].state = IF @ = "failed" THEN "erred" ELSE "done",
                            ![f].fatal = Fatal(f)]
  /\ holder' = [a \in Adapters |-> IF holder[a] = f THEN 0 ELSE holder[a]]
  /\ IF p = 0
     THEN UNCHANGED <<pending, replyVars>>
     ELSE /\ ClearPending(Caller(f), f)
          /\ Reply(p)
  /\ UNCHANGED <<made, charged, issued, gate, pausing>>

\* Mutant: the turn is kept by the execute that ended.
SettleKeepingTurn(f) ==
  LET p == frame[f].parent IN
  /\ frame' = [frame EXCEPT ![f].state = IF @ = "failed" THEN "erred" ELSE "done",
                            ![f].fatal = Fatal(f)]
  /\ IF p = 0
     THEN UNCHANGED <<pending, replyVars>>
     ELSE /\ ClearPending(Caller(f), f)
          /\ Reply(p)
  /\ UNCHANGED <<holder, made, charged, issued, gate, pausing>>

\* waitPending has seen every nested call settle: the turn goes back; a
\* nested call is removed from the caller's registry and answered, and a
\* fatal error is latched in the caller.
Settle(f) ==
  LET p == frame[f].parent IN
  /\ frame' = [g \in Frames |->
                 IF g = f THEN [frame[f] EXCEPT !.state = IF @ = "failed" THEN "erred" ELSE "done",
                                            !.fatal = Fatal(f)]
                 ELSE IF g = p THEN [frame[p] EXCEPT !.fatal = @ \/ Fatal(f)]
                 ELSE frame[g]]
  /\ holder' = [a \in Adapters |-> IF holder[a] = f THEN 0 ELSE holder[a]]
  /\ IF p = 0
     THEN UNCHANGED <<pending, replyVars>>
     ELSE /\ ClearPending(Caller(f), f)
          /\ Reply(p)
  /\ UNCHANGED <<made, charged, issued, gate, pausing>>

FinishExecute(f) ==
  /\ frame[f].state \in {"returned", "failed"} /\ Children(f) = {}
  /\ Settle(f)

\* A caller cancelled while queued leaves the turn to the next.
AbandonQueued(f) ==
  /\ frame[f].state = "queued" /\ frame[f].cancelled
  /\ Settle(f)

\* The step's context ends (its timeout, the stall watchdog, a stop).
CancelStep(f) ==
  /\ Live(f) /\ frame[f].parent = 0 /\ ~frame[f].cancelled
  /\ frame' = [g \in Frames |-> IF g \in Below(f) THEN [frame[g] EXCEPT !.cancelled = TRUE]
                                ELSE frame[g]]
  /\ UNCHANGED <<made, holder, charged, pending, issued, replyVars, gate, pausing>>

-----------------------------------------------------------------------------
(* Tool-call requests: handleToolCallRequest and dispatchNestedToolCall.    *)

\* Mutant: neither the self-call nor the call chain is checked, and any
\* declared adapter may be called.
GateOfUnchecked(f, b) ==
  LET a == frame[f].adapter IN
  IF gate[a] THEN "paused"
  ELSE IF Cardinality(Chain(f)) > MaxDepth THEN "depth_exceeded"
  ELSE IF charged[a] >= MaxCalls THEN "budget_exhausted"
  ELSE "pass"

\* The gates in their order; the first that does not hold names the reply.
\* A denied call is answered by the permission decision.
GateOf(f, b) ==
  LET a == frame[f].adapter IN
  IF gate[a] THEN "paused"
  ELSE IF <<a, b>> \notin Allowed THEN "denied"
  ELSE IF b = a THEN "self_call"
  ELSE IF b \in Chain(f) THEN "cycle_detected"
  ELSE IF Cardinality(Chain(f)) > MaxDepth THEN "depth_exceeded"
  ELSE IF charged[a] >= MaxCalls THEN "budget_exhausted"
  ELSE "pass"

\* A call that passes is charged to the caller's budget and dispatched.  A
\* refused one, and one whose arguments do not fit the callee's contract (the
\* charge is given back), is answered at once and leaves no trace here.
DispatchCall(f, b) ==
  LET a == frame[f].adapter IN
  /\ frame[f].state = "running" /\ issued[f] < MaxIssued /\ made < MaxFrames
  /\ GateOf(f, b) = "pass"
  /\ issued' = [issued EXCEPT ![f] = @ + 1]
  /\ charged' = [charged EXCEPT ![a] = @ + 1]
  /\ made' = made + 1
  /\ frame' = [frame EXCEPT ![made + 1] = NewFrame(b, f)]
  /\ UNCHANGED <<holder, pending, replyVars, gate, pausing>>

\* Mutant: the registry does not read the pause gate again.
RegisterCallUngated(g) ==
  LET a == Caller(g) IN
  /\ frame[g].state = "dispatched"
  /\ Enter(g, "queued") /\ RegisterPending(a, g)
  /\ UNCHANGED <<charged, replyVars, made, holder, issued, gate, pausing>>

\* Mutant: the refused call is not answered.
RegisterCallSilent(g) ==
  LET a == Caller(g) IN
  /\ frame[g].state = "dispatched"
  /\ IF gate[a]
     THEN /\ Enter(g, "refused") /\ charged' = [charged EXCEPT ![a] = @ - 1]
          /\ UNCHANGED pending
     ELSE /\ Enter(g, "queued") /\ RegisterPending(a, g)
          /\ UNCHANGED charged
  /\ UNCHANGED <<replyVars, made, holder, issued, gate, pausing>>

\* startNestedToolCall: the registry reads the pause gate again.  A refused
\* call gives its charge back and is answered "paused".  Request ids are
\* unique.
RegisterCall(g) ==
  LET a == Caller(g) IN
  /\ frame[g].state = "dispatched"
  /\ IF gate[a]
     THEN /\ Enter(g, "refused") /\ charged' = [charged EXCEPT ![a] = @ - 1]
          /\ Reply(frame[g].parent)
          /\ UNCHANGED pending
     ELSE /\ Enter(g, "queued") /\ RegisterPending(a, g)
          /\ UNCHANGED <<charged, replyVars>>
  /\ UNCHANGED <<made, holder, issued, gate, pausing>>

-----------------------------------------------------------------------------
(* Session.Pause and Session.Resume.                                       *)

BeginPause(a) ==
  /\ pausing[a] = "no"
  /\ gate' = [gate EXCEPT ![a] = TRUE] /\ pausing' = [pausing EXCEPT ![a] = "drain"]
  /\ UNCHANGED <<frame, made, holder, charged, pending, issued, replyVars>>

\* The drain window is over: what is still registered is cancelled.
CancelStragglers(a) ==
  /\ pausing[a] = "drain"
  /\ pausing' = [pausing EXCEPT ![a] = "grace"]
  /\ frame' = [g \in Frames |->
                 IF \E s \in pending[a] : g \in Below(s)
                 THEN [frame[g] EXCEPT !.cancelled = TRUE] ELSE frame[g]]
  /\ UNCHANGED <<made, holder, charged, pending, issued, replyVars, gate>>

\* The handle is paused once the grace is over, with or without stragglers;
\* when the adapter refuses, the gate is opened again.
FinishPause(a) ==
  /\ pausing[a] = "grace"
  /\ \/ pausing' = [pausing EXCEPT ![a] = "paused"] /\ UNCHANGED gate
     \/ pausing' = [pausing EXCEPT ![a] = "no"] /\ gate' = [gate EXCEPT ![a] = FALSE]
  /\ UNCHANGED <<frame, made, holder, charged, pending, issued, replyVars>>

Resume(a) ==
  /\ pausing[a] = "paused"
  /\ pausing' = [pausing EXCEPT ![a] = "no"] /\ gate' = [gate EXCEPT ![a] = FALSE]
  /\ UNCHANGED <<frame, made, holder, charged, pending, issued, replyVars>>

-----------------------------------------------------------------------------
Progress(f) ==
  \/ StartExecute(f) \/ AbandonQueued(f) \/ RegisterCall(f) \/ FinishExecute(f)
  \/ AdapterReturns(f, "returned") \/ AdapterReturns(f, "failed") \/ CalleeAborts(f)

ToolNext ==
  \/ \E a \in StepAdapters : Execute(a)
  \/ \E f \in Frames : Progress(f) \/ CancelStep(f)
  \/ \E f \in Frames, b \in Adapters : DispatchCall(f, b)
  \/ \E a \in Pausable : BeginPause(a) \/ CancelStragglers(a) \/ FinishPause(a) \/ Resume(a)

\* The goroutine of every execute goes on when it can: an adapter's Execute
\* ends (its step timeout or the stall watchdog sees to that) and a session's
\* waiters are served in order.
ToolFairness == \A f \in Frames : WF_toolVars(Progress(f))

ToolSpec == ToolInit /\ [][ToolNext]_toolVars
ToolFairSpec == ToolSpec /\ ToolFairness

-----------------------------------------------------------------------------
(* Properties.                                                             *)

ToolTypeOK ==
  /\ made \in 0 .. MaxFrames
  /\ frame \in [Frames -> [adapter : Adapters, parent : 0 .. MaxFrames, above : SUBSET Frames,
                           state : States, cancelled : BOOLEAN, fatal : BOOLEAN]]
  /\ holder \in [Adapters -> 0 .. MaxFrames]
  /\ charged \in [Adapters -> 0 .. MaxCalls]
  /\ pending \in [Adapters -> SUBSET Frames]
  /\ issued \in [Frames -> 0 .. MaxIssued] /\ answered \in [Frames -> 0 .. MaxIssued]
  /\ dropped \in [Frames -> 0 .. MaxIssued]
  /\ gate \in [Adapters -> BOOLEAN]
  /\ pausing \in [Adapters -> {"no", "drain", "grace", "paused"}]

\* f cannot go on before one of these frames does.
WaitsFor(f) ==
  IF frame[f].state = "queued" /\ ~frame[f].cancelled /\ ~TurnFree(frame[f].adapter)
  THEN {holder[frame[f].adapter]}
  ELSE IF frame[f].state \in {"returned", "failed"} THEN Children(f) ELSE {}

\* Executes never wait for each other in a circle: an execute keeps its
\* session's turn while it waits for its nested calls (waitPending), and those
\* wait for the turns of other sessions.
NoCircularWait ==
  ~ \E S \in (SUBSET {f \in Frames : WaitsFor(f) # {}}) \ {{}} :
      \A f \in S : WaitsFor(f) \cap S # {}

\* Every dispatched call gets exactly one reply, and before its execute is over:
\* it is queued for the caller or dropped at a full queue, whether the call ran,
\* was cancelled while it waited or was refused by the pause gate, and what has
\* no reply yet is a nested call under way (runNestedToolCall).
AnsweredOnce ==
  \A f \in Frames : issued[f] = answered[f] + dropped[f] + Cardinality(Children(f))

\* When a session is paused, every nested call it still has registered has
\* been cancelled: no call slips in while the drain runs.
PausedIsDrained ==
  \A a \in Adapters : pausing[a] = "paused" => \A g \in pending[a] : frame[g].cancelled

\* A callee crash that aborts the run reaches every caller whose own adapter
\* call succeeded, up to the step.
FatalReachesCaller ==
  \A g \in Frames :
    frame[g].fatal /\ frame[g].state \in Ended /\ frame[g].parent # 0
      /\ frame[frame[g].parent].state = "done" => frame[frame[g].parent].fatal

\* Every execute, of a step or of a tool call, comes to an end: however its
\* calls nest, wait and are cancelled, the host has none under way again.
EveryExecuteEnds == []<>(\A f \in Frames : ~Live(f))
=============================================================================
