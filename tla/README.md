# A TLA+ verification of criteria

criteria (`src/`) executes workflows: a compiler turns HCL into a graph of
steps, approval and wait nodes, switches and terminal states, and an engine
walks that graph, calling adapters (plug-in processes) at every step.  A run is
paused, resumed, stopped and prompted from outside while it executes, it fans
out into concurrent iterations, its adapters crash, call each other and live on
other machines, and it survives the death of its process.  This directory models
the parts in which those things meet.

* [1. The system](#1-the-system)
* [2. Modules and how they correspond to the code](#2-modules-and-how-they-correspond-to-the-code)
* [3. Runs: what is checked, bounds, fairness](#3-runs-what-is-checked-bounds-fairness)
* [4. Proofs](#4-proofs)
* [5. Where the code and its documents disagree](#5-where-the-code-and-its-documents-disagree)
* [6. What is not modelled](#6-what-is-not-modelled)
* [7. Plan](#7-plan)

To check: `tlc -config X.cfg MCModule` for the pairs listed in `PROJECT.json`,
`tlapm *Proofs.tla` for the proofs.

## 1. The system

| Component | State | Operations | What is hard |
|---|---|---|---|
| run loop (`engine/engine.go`) | current node, variables, visit counts, live pointer, pause latch | evaluate a node, commit to a successor, pause at a boundary, fail, complete | a pause is requested by another goroutine at any moment, the loop's exits included |
| control bus and resume cycles (`cli/local_control.go`, `apply_resume.go`) | pause tracker, resume token and decision mailboxes, engine pointer | PauseRun, ResumeRun, ResolveResume, stop; the drain loop that builds a fresh engine per pause | mailboxes that outlive the pause they were filled in; an engine pointer read before and used after it was replaced |
| step checkpoints (`cli/local_state.go`, `apply_local.go`) | one JSON file per run | write at every attempt and every pause, remove at the end, reattach at start-up | a crash between any two steps, failing writes, two processes on one directory |
| step attempts (`engine/node_step.go`) | attempt number, visits, total steps | attempt, retry, refuse (max_visits, max_total_steps) | limits across restarts |
| iteration (`engine/engine.go`, `while_iteration.go`) | cursor | advance, finish | what a restart makes of the cursor |
| parallel fan-out (`engine/parallel_iteration.go`) | launch, subtree and leaf semaphores, their cache, a context per call, a lock for the visit counts | launch, acquire, execute, retry, run a body, cancel, aggregate | nesting: tokens held while waiting for others, cancellation half-way, one cap shared by several evaluations of a step |
| prompt router (`engine/prompts.go`) | prompt channel, in-flight and executing counts, held prompts | route, hold, deliver, flush, refuse | a decision taken under a lock and acted on after it; parallel items that share a step's windows |
| adapter sessions (`adapterhost/sessions.go`, `loader.go`) | verified records, sessions, the execute turn, crash marks, leases, live processes | verify, bind lazily, execute, prompt, respawn, re-open, close, shut down | a process replaced while others are between look-up and turn; two callers repairing one crash |
| tool calls (`adapterhost/tool_call.go`) | nested executes, pending calls, call budgets, the pause gate | call, answer, cancel, pause a session, fail the run | executes that wait for executes; answers after a pause or a cancellation |
| event publisher (`transport/server/run_publisher.go`, `run/sink.go`) | send channel, unacknowledged envelopes, sent and acknowledged counters, the stream | publish, send, reconnect and replay, acknowledge, drain, close | streams that break with acknowledgements under way, a handler left behind at the server |
| peer and host (`internal/peer`, `adapter/environment/remote`) | children, bounded journal, connections; sessions, waits, verdicts | spawn, kill, dial, reconnect, deliver handles, follow the journal, stop | three goroutines note one exit; a host that reconnects to a journal that moved on or began again |
| served workflows (`cli/serveadapter*.go`, `peer_workflow.go`) | sessions and run slot of the child process, journal arms; tracker, watches and teardown of the host | open, execute, refuse, cancel, close, tear down | a child run that outlives its stream, its connection and its host |
| agent (`cli/agent.go`) | active run, queue, remembered runs; state file and checkpoint per run | accept, queue, hand off, execute, resume, cancel, shut down, recover | the loop and the goroutine of the run that ended race to start the next one; a shutdown that must not look like a failure |
| server-mode apply (`cli/apply_server.go`, `reattach.go`, `pause_control.go`) | checkpoint, resume channel | reattach, pause command, resume cycles | late commands, reattachment |
| viewer, file and console sinks, compiler, distribution, language server | read models, files | | sequential or pure I/O |

The components interact like this.  `apply` creates an engine and a control
bus.  The engine's events go through sinks, one of which writes the step
checkpoint *synchronously*, from within the engine's goroutine or from within
an iteration's goroutine; in server mode another one hands them to the
publisher.  When the engine returns paused, the drain loop takes a token or a
decision out of the bus's mailboxes, builds a new engine from the old one's
variables and visit counts, makes it the bus's engine and runs it from the
paused node.  Steps execute through the session manager, which spawns adapter
processes or waits for a peer to phone home with them; an executing adapter may
call tools of other adapters, which are executes again.  An adapter may itself
be a workflow that another criteria process serves.  When a process starts, it
first drives every run that it finds a checkpoint of.

What makes each part correct is listed as hazards in `PROJECT.json`, at the
line where each one bites, with the properties that cover it.

## 2. Modules and how they correspond to the code

Each module header says which files it models; `PROJECT.json` maps every
definition to its lines.  Definitions whose comment starts with *Mutant* are
plausible wrong versions of the definition below them; no specification uses
them.  Variables introduced as history are read by no action, only by
properties.

### PauseControl

One run and one process.  `pc` is the place of the goroutine that is, in turn,
the run loop of an engine (`start`, `top`, `eval`, `landing`), the pause
handler inside it (`newpause`, `record`, `persist`, `ack`, `exit`) and the drain
loop between two engines (`drain`, `await`, `clear`, `rebuild`).  Every access
to state that a control verb can see is a step of its own: the latch, the
tracker's `pausedNode`, the two mailboxes, the engine pointer, the checkpoint.
Work in between is merged.  A PauseRun call is a goroutine that reads the
engine pointer, asks the tracker, latches and waits; `fresh` says whether the
pointer it read is still the bus's engine.  ResumeRun and ResolveResume hold
the bus's mutex throughout and are single steps.

| In the model | In the code |
|---|---|
| `live`, `latch` | `liveRunState # nil`, `boundaryPause` with `pauseLanded` |
| `pausedNode` | `pauseTracker.pausedNode` |
| `resumeReq`, `payloadReq` | the two one-element mailboxes of `localRunControl` |
| `payload` | the decision from the drain loop's hands into `ResumePayload` |
| `ckpt`, `unsaved` | the node of the step checkpoint; the last write failed |
| `cycle`, the record's `landed` and `at` | nothing: which pause a decision or a wake-up belongs to, for the properties |

Abstracted: what a step does (it picks any successor), the values of a decision
(it has a target per gate), a retry of a refused PauseRun (it goes back to
`idle`).  The initial node may be `Missing`: a checkpoint of a node that an
edited workflow no longer has.

### RunRecovery

One run, several processes, one checkpoint file.  A process has an engine
(`current`, `attempt`, `cursor`, `visits`, `total`) and the two facts that
decide what its checkpoint writer writes: `resumed` (the running engine is not
the one the writer's closure captured) and `frozen` (the counts of that one).
`Crash` forgets all of it; `ReattachLocal` starts from the file.  A write may
fail, which the code logs and ignores.  `ended`, `last`, `attempts`, `finished`
and `faults` are history.  Pausing and releasing are one step each here; their
inside is PauseControl's subject.

### ParallelFanout

Calls (evaluations of parallel steps) and iterations, in a tree given by
`Parent` (the iteration in whose body a call is made) and `Call` (the call an
iteration belongs to).  An iteration of an adapter step takes its launch token,
a token of the inherited semaphore if its step lowers the cap, and a leaf
token, prepares the attempt (under the lock of the visit counts), announces it
(under the lock of the sink, where the checkpoint is written) and executes.  An
iteration of a subworkflow step runs a body of plain steps and calls.

Semaphores are counted as Go channels are, by the number of tokens in them, so
that a leak or a double release is a state and not a contradiction.  A leaf
semaphore is named after the call that made it, and `Cached` looks for one
under the key of the code: compiled step, inherited ceiling, inherited
semaphore.  Contexts are a flag per call; `Propagate` lets the cancellation of
a parent reach a child late, as `context` does.  Results keep exactly what
`classifyIterError` tells apart.

Abstracted: the order of items (aggregation is a set of possible outcomes), the
fan-in buffers of adapter events, outputs and write blocks (they succeed or
fail), opening and closing of the body's sessions.  Where a step declares no
`any_failed`, the code routes to the target of `all_succeeded`
(`parallel_iteration.go:836-839`): this changes where the run goes on, not the
outcome that is reported, and is left out.

### AdapterSessions

One adapter instance in one session manager.  A caller is a goroutine that
executes a step, pumps a prompt or re-opens a crashed session; its `stage` is
the place between two accesses to what callers share: the verified record and
`bindMu`, the session table, the execute turn (a one-element channel), the
process behind the session, the crash mark, `reopenMu`.  Sessions and processes
are numbered in the order of their creation, so a caller that holds the session
of yesterday is a state the properties can see.  The posture (serial, concurrent,
served workflow) is chosen at the start.  What answers a crash is a choice at
every crash: the session's `on_crash`, the step's override of it and the retry of
a remote adapter decide between a respawn and the return of the error, and any of
them may be in force.  A session may be taken for crashed while its process
lives, since the code also goes by the text of the error.  `by` is history: who
installed the process behind the session.  The loader's table of processes is part of the
module: a process lives until somebody kills it, or it dies.  Leases of
parallel iterations keep a session from being closed.  The engine joins its
goroutines before it closes a scope, which the guards of Close and Shutdown
state.

### ToolCalls

A frame is one `execute`: of a step, or nested, started by a tool call of its
parent.  A frame waits for the turn of its adapter's session, executes, makes
calls, waits for its own pending calls and returns the turn.  Contexts follow
the tree.  Depth and budget are checked where the code checks them;
`Session.Pause` closes the gate, waits for calls in flight and reports; a fatal
error of a nested execute is noted in the caller's frame and read when that
returns.  What a grant or an allow list admits is the constant `Allowed`.

A reply is put into the session's queue or, when that is full, dropped
(`sendToolCallResultEvent`, a send that does not wait): `Reply` chooses, as the
queue's reader is the adapter.  Request ids are taken to be unique; the registry
answers a repeated one without a look at the pause gate
(`permission_state.go:312-317`).  A queued execute whose step has been cancelled
may give up or, as in the code's fast path, still take a free turn.

### RunLog and EventPublisher

`RunLog` is the abstract promise of the event path: `accepted` envelopes, and a
`log` at the server that grows by exactly the next one.  `EventPublisher` is the
code: emitters that put envelopes into a bounded channel and count them, the
loop that sends, fails, reconnects, replays everything unacknowledged, the
receiver of acknowledgements with its counter, Drain, Close, and the three
drivers (apply, agent, reattach) that differ in what they do when a run ends
with an error.  A run that is taken up again starts with `prior` events at the
server, which the publisher does not know of: sequence numbers go on from there,
and an acknowledgement up to `prior` is one of theirs.  The handler of the earlier
process is taken to be gone by then.  A stream that breaks leaves a handler at the server that may
still work through a prefix of what was sent.  `ImplementsRunLog` is the
refinement (`INSTANCE RunLog WITH ...`), with `log` and `accepted` mapped to
themselves; TLC checks it and `EventPublisherProofs` proves it.  The server is
external to the repository; its model is `internal/cli/applytest/fakeserver.go`,
which deduplicates by correlation id.

### PeerLink

The peer process: children, the order in which the exit of one is requested,
seen, classified and journaled, the journal's ring, a dialer per connection with
back-off, and the end of the process.  The host: the registry of sessions, the
waits for a handle, delivery, replacement of a session by a later dial, the
supervision that reads the journal from a sequence number on, verdicts, and
Stop.  A dial is numbered, and a session is the number of its dial.

### ChildRuns

The child process of a served workflow: sessions, the slot for one run, the run on
a context of its own, cancellation, the journal arms, CloseSession and the exit
with the last session.  The host: the tracker that the arms are lifted into,
connections that are lost and made again, steps that execute or are refused, and
the teardown before a close, with control calls that may fail.

Two conversions are modelled by what they do.  The child refuses with a Connect
error, which its plain gRPC server sends as `codes.Unknown`; the host asks for
`FailedPrecondition` before it adopts the run in the way, so `ExecuteRefused` is
the error path that is left, and adoption is not in the module.  And arms are
filed under the type the child writes (`ArmLabel`), while handles and teardowns
look under the name the peer dialled with (`dial`, chosen from `DialNames`):
`Looked` is the tracker as seen from a handle, empty if the two differ.

### PromptDelivery

Prompts from the control stream, the bounded channel, the pump of each engine's
router and the attempt loops of one step.  The decision is made in one action,
under the mutex, and carried out in another.  A loop opens a window per attempt
and flushes what was held, closes it, and ends; the last end refuses what is
still held.  When an engine pauses, its router stops and the next one takes over
the channel.

### AgentRuns

The agent's loop, the goroutine of each run from `load` to `claim`, the disk and
the server.  The places of the loop are those between two critical sections of
`activeRun`: an assignment is checked and queued, then the loop asks whether it is
idle, then claims; the goroutine of a run marks it completed, finishes, checks the
context and claims.  `state` and `ckpt` are the two files of a run.  A process of
the agent is numbered and has an identity of its own at the server; the state
file carries the identity that the next process recovers the run with.  Events
of a run are queued in `tail` and delivered one at a time; a crash loses them.
The server is again that of the tests.  `Stop` cancels the agent's context, and
everything the code makes of a cancelled context is an alternative from then on.
A workflow is `Length` steps in a row; each may fail, be cancelled, or map a
failed attempt to a terminal state.

## 3. Runs: what is checked, bounds, fairness

| Run | Instance | Shows |
|---|---|---|
| `PauseControl` | a step and a gate in a loop, 2 PauseRun calls (symmetric), operators act in 2 pause cycles, a resumer is configured, the start node may be missing | decisions are applied only in the pause they were accepted for (`NoStaleDecision`); nobody waits on a channel that no one will close (`NoOrphanedWaiter`); an acknowledged pause is on disk (`AckedPauseIsDurable`); a waiting PauseRun is answered, an accepted resume or decision releases its pause (`PauseIsAnswered`, `ResumeIsHonoured`, `DecisionReleases`) |
| `RunRecovery` | an iterating step, an approval loop and a last step; `max_visits` 3, one retry, 2 crashes, 1 process | a step with `max_visits` is executed at most that often over all crashes (`CrashLoopsBounded`); there is always a checkpoint to recover from (`RunIsRecoverable`); recovery follows the graph (`NothingSkipped`) |
| `ParallelFanout` | three fan-outs: two bodies evaluating a lowered adapter step, a lowered subworkflow step between two others, a flat one with `max_visits` | caps, token accounts, `max_visits`, no success for what was cut short, termination |
| `AdapterSessions` | 2 callers (symmetric), 1 leasing branch, 2 sessions, 4 processes, every answer to a crash and every posture | the execute turn is neither lost nor doubled (`TurnConserved`), one execution at a time on a serial adapter (`SerialExecution`), no process beside the session's once the callers are done, overlapping respawns apart (`NoOrphanProcess`), no re-open of a healthy session, one that the crash path of an execute repaired apart (`ReopenSparesHealthy`) |
| `ToolCalls` | an agent that multiplexes, two tools that do not, an acyclic call graph, depth 2, 2 calls per session, 4 frames | no circle of executes waiting for each other, one reply for every call, queued or dropped, when it has ended and not before (`AnsweredOnce`), a paused session has none in flight, a fatal error reaches the run, every execute ends |
| `ToolCallDeadlock` | the same with a call cycle between the tools | `NoCircularWait` is violated, section 5 |
| `EventPublisher` | 2 emitters, 3 envelopes, a channel of 1, 3 streams, all three drivers, 0 or 1 earlier event | the publisher implements `RunLog` (`ImplementsRunLog`); unless it counted acknowledgements of earlier events, Drain returns early only by its time-out (`DrainMeansLogged`) and does return (`DrainCompletes`) |
| `DrainReattach` | a reattached run with 1 earlier event, 1 emitter, 2 envelopes, 2 streams | `DrainIsNeverEarly`, the same without the exception, is violated, section 5 |
| `PeerLink` | 2 hosted adapters with a connection each, 1 wait, 2 dials, a journal ring of 2 for 3 events, 1 restart of the peer | a registered wait is served by what arrives (`WaiterNotForgotten`), a stopped host keeps no session (`NoLeakedSession`), an exit that was asked for is never called a crash (`CrashIsReal`), a host that has read the journal knows the state of the child (`CaughtUpKnows`) |
| `ChildRuns` | 2 session ids (symmetric), 2 child runs, 2 faults, both names a peer may dial under | one child run at a time (`OneChildRun`), a truthful tracker (`TrackerIsTrue`), no teardown that waits for a run whose end was read (`TeardownIsTold`), no exit before the run has settled (`ExitAfterSettle`) |
| `PromptDelivery` | 3 prompts, one of them foreign, 2 attempt loops, 2 attempts each, 2 engines, a channel of 1 | at most one outcome per prompt, held prompts have a loop that will settle them, every prompt taken is answered |
| `AgentRuns` | 2 runs of one step (symmetric), 2 processes of the agent, 2 assignments, 2 upsets (a pause, a cancellation, a failure) | the hand-off starts no run beside another and forgets none (`HandOffIsSafe`), an interrupted run can be resumed (`InterruptedIsResumable`), a run that is over is not executed again (`OverIsNotRunAgain`) |

Bounds, and why they are enough.

* *PauseControl*, `MaxCycles = 2`: a stale decision needs one pause to be accepted
  in and a later one to be applied in; a gate that loops to itself gives every
  such pair.  Two PauseRun calls are enough for one to latch while another
  waits; the channel treats all waiters alike.
* *RunRecovery*, `MaxCrashes = 2`: one crash of the first process and one of a
  process that reattached, which is the case that could lose the checkpoint.
  `MaxVisits` 3 with two items, one retry and an approval loop: the limit is hit
  by iterations, by retries and by re-entering the step.
* *ParallelFanout*: `each`/`lint` has two evaluations of one lowered step at a time
  (the shared semaphore matters), `deep`/`mid`/`unit` holds tokens on two levels
  while a third one waits, `flat` has more items than tokens, more items than
  visits, and retries.  `MaxFanouts = 1` explores the three shapes one at a
  time: two fan-outs of one run never overlap, and what they could share, the
  cached semaphores, is empty between them by `TokensAccounted`.
* *AdapterSessions*: four processes are the first one, the two replacements of two
  callers that see the same crash, and one more after a re-open; two sessions
  are one that is closed and its successor.
* *ToolCalls*: four frames are a step, two nested calls and a third one below one
  of them; three issued calls exceed a budget of two.
* *EventPublisher*: three envelopes over a channel of one leave one sent, one queued
  and one waiting in Publish; three streams are a break during a replay.  One
  earlier event is enough for its acknowledgement to be counted.
* *PeerLink*: three events overflow a ring of two; two dials let the second session
  replace or join the first; one restart begins the journal anew.
* *ChildRuns*: two runs are a run and its successor after a lost stream; two faults
  pair any of the lost connections, refusals, failed calls, closes, cancellations
  and teardowns.
* *PromptDelivery*: two loops are a sibling that ends while the other one waits
  between attempts, two engines a router that is replaced.
* *AgentRuns*: two assignments are two runs that meet in the queue, or one run twice,
  in one process or in two; two upsets are any failure or cancellation in each
  process, or a pause and what ends it.

Deadlock is checked where the model has no end of its own or stutters at it
(`PauseControl`, `RunRecovery`, `ParallelFanout`, `PeerLink`).  The other
specifications stop where the system stops: everything closed, every prompt
answered, the process gone.

Fairness.  It is weak fairness of goroutines that can run: that Go schedules
them, and that adapters return.

* `PauseControl`: the run goroutine and every PauseRun call under way.  Operators,
  stop, the resumer's decision and the timer of a call are unfair: the
  properties hold even if no timer ever fires.
* `ParallelFanout`: only that *some* iteration or finished call moves while one can,
  which is weaker than fairness of each goroutine; cancellation is never assumed
  to arrive.  Termination then says that iterations never block each other for
  good.
* `ToolCalls`: each execute that can go on does, its adapter's return included;
  one that gets its turn, sees its calls end or is registered is that execute's
  step.  New steps, calls, cancellations and pauses are unfair.
  `EveryExecuteEnds` says that from every state one follows in which no execute
  is under way.
* `EventPublisher`: emitters, the publisher's loop, its receiver and the server's
  handler.  Breaking a stream is unfair and bounded, and so is the time-out.
* `PromptDelivery`: the pump and the attempt loops.

Each property has a mutant in `PROJECT.json` that TLC refutes, which shows that
the instance reaches the situation the property is about.

## 4. Proofs

TLC's answers are about the instances above.  The eight `*Proofs` modules prove
the same properties for every graph, every number of calls, callers, processes,
iterations, envelopes, runs and pauses, and every nesting, from the assumptions
named in each module: disjoint kinds of nodes, functions with their domains,
bounds that are numbers, and finite sets where cardinalities are taken (the
emitters of EventPublisher and the attempt loops of PromptDelivery are
goroutines of one process).  Every inductive invariant was checked with TLC, as
an invariant of the component's run, before it was proved.

A proof module is about one component, with two exceptions: `AdapterProofs`
extends AdapterSessions and ToolCalls, `PeerProofs` extends ChildRuns and
PeerLink.  The names of the two modules are therefore kept apart (`ToolInit`,
`ToolNext`, `ToolSpec` in ToolCalls, `LinkInit`, `LinkNext`, `LinkSpec` in
PeerLink); the components share no variable.

| Theorem | Statement |
|---|---|
| `PauseControlProofs!TypeCorrect` | `Spec => []TypeOK` |
| `PauseControlProofs!DecisionsAreFresh` | `Spec => []NoStaleDecision` |
| `PauseControlProofs!WaitersAreWoken` | `Spec => []NoOrphanedWaiter` |
| `PauseControlProofs!AcksAreDurable` | `Spec => []AckedPauseIsDurable` |
| `RunRecoveryProofs!TypeCorrect` | `Spec => []TypeOK` |
| `RunRecoveryProofs!CrashLoopsAreBounded` | `Spec => []CrashLoopsBounded` |
| `RunRecoveryProofs!RunsAreRecoverable` | `Spec => []RunIsRecoverable` |
| `RunRecoveryProofs!RunsFollowTheGraph` | `Spec => NothingSkipped` |
| `ParallelFanoutProofs!VisitsAreBounded` | `Spec => []VisitsBounded` |
| `ParallelFanoutProofs!CutShortFails` | `Spec => []CutShortIsNoSuccess` |
| `ParallelFanoutProofs!TypeCorrect` | `Spec => []TypeOK` |
| `ParallelFanoutProofs!TokensAreAccounted` | `Spec => []TokensAccounted` |
| `ParallelFanoutProofs!ConcurrencyIsBounded` | `Spec => []ConcurrencyBounded` |
| `AdapterProofs!SessionInvariant` | `Spec => []IInv` |
| `AdapterProofs!TurnTheorem` | `Spec => []TurnConserved` |
| `AdapterProofs!SerialTheorem` | `Spec => []SerialExecution` |
| `AdapterProofs!OrphanTheorem` | `Spec => []NoOrphanProcess` |
| `AdapterProofs!ReopenTheorem` | `Spec => ReopenSparesHealthy` |
| `AdapterProofs!ToolInvariant` | `ToolSpec => []ToolInv` |
| `AdapterProofs!CircleTheorem` | if `Allowed` orders the adapters, `ToolSpec => []NoCircularWait` |
| `AdapterProofs!AnsweredTheorem` | `ToolSpec => []AnsweredOnce` |
| `AdapterProofs!PausedTheorem` | `ToolSpec => []PausedIsDrained` |
| `AdapterProofs!FatalTheorem` | `ToolSpec => []FatalReachesCaller` |
| `EventPublisherProofs!PublisherInvariant` | `Spec => []IInv` |
| `EventPublisherProofs!DrainTheorem` | `Spec => []DrainMeansLogged` |
| `EventPublisherProofs!FreshDrainTheorem` | `Spec => [](prior = 0 => DrainIsNeverEarly)` |
| `EventPublisherProofs!RefinementTheorem` | `Spec => ImplementsRunLog` |
| `PeerProofs!ChildRunInvariant` | `Spec => []IInv` |
| `PeerProofs!OneRunTheorem` | `Spec => []OneChildRun` |
| `PeerProofs!TrackerTheorem` | `Spec => []TrackerIsTrue` |
| `PeerProofs!TeardownTheorem` | `Spec => []TeardownIsTold` |
| `PeerProofs!ExitTheorem` | `Spec => ExitAfterSettle` |
| `PeerProofs!LinkInvariant` | `LinkSpec => []LinkInv` |
| `PeerProofs!WaiterTheorem` | `LinkSpec => []WaiterNotForgotten` |
| `PeerProofs!LeakTheorem` | `LinkSpec => []NoLeakedSession` |
| `PeerProofs!CrashTheorem` | if `KeepAlive`, `LinkSpec => []CrashIsReal` |
| `PeerProofs!CaughtUpTheorem` | `LinkSpec => []CaughtUpKnows` |
| `PromptDeliveryProofs!RouterInvariant` | `Spec => []IInv` |
| `PromptDeliveryProofs!OutcomeTheorem` | `Spec => []OneOutcome` |
| `PromptDeliveryProofs!HeldTheorem` | `Spec => []HeldHasLoop` |
| `AgentRunsProofs!AgentInvariant` | `Spec => []IInv` |
| `AgentRunsProofs!HandOffTheorem` | `Spec => []HandOffIsSafe` |
| `AgentRunsProofs!ResumableTheorem` | `Spec => []InterruptedIsResumable` |
| `AgentRunsProofs!OverTheorem` | `Spec => OverIsNotRunAgain` |

The inductive invariants, and why they are needed.

* *PauseControl.*  A decision is fresh when it is applied because the mailbox
  was empty when the pause became visible (`MailboxInv`), it is taken out by the
  drain loop of that pause, and the next engine starts at that gate
  (`PayloadInv`).  A waiter is woken because it can only have started to wait
  while the loop was live, and every exit of the loop passes the deferred
  `clearPauseRequest` (`WaiterInv`).  The checkpoint is the paused node's because
  a call woken by an earlier pause carries a smaller number (`WakeInv`,
  `TrackerInv`).
* *RunRecovery.*  Executions are bounded because the counts of the process that
  drives the run, and those on disk unless they are stale, are never below the
  number of executions (`VisitInv`), which needs that only one process drives it
  (`SoleInv`).  The run follows the graph because the checkpoint is never more
  than one edge from the node last entered (`PathInv`).
* *ParallelFanout.*  The goroutine that holds the lock of the visit counts is
  alone with a check that is still true (`CountInv`).  A fan-out that was cut
  short is no success because whoever cancelled its context left a trace, a
  failed iteration or a cancelled parent, that is still there when the results
  are aggregated (`CutInv`); for this no other call of the same body may run and
  no goroutine of an idle call may move (`RunInv`).
* *The semaphores of ParallelFanout* (the second part of its module).  The tokens taken
  from a semaphore are as many as the goroutines that hold one (`AccountInv`,
  over finite sets of holders that change by one element at a time), so nobody
  gives back what was not taken and a semaphore never goes negative.  That the
  holders respect the cap of the *step* needs how its semaphore was chosen: a
  call inherits one with the same cap, or all evaluations of the step below the
  same ancestor share the one cached under their key, with the step's own cap
  (`SemInv`), and a semaphore is opened only below open ones (`OpenInv`).
* *AdapterSessions.*  The turn is conserved because what is not in the channel is
  in the hands of exactly one caller (`TurnInv`), which needs to know at each
  stage which session a caller works on: the registered one, since a scope is
  closed only when every caller has returned (`CallerInv`).  A running process is
  the session's handle or in the hands of the caller that started it
  (`OwnerInv`): a respawn kills the handle before it starts the next process, and
  a re-open holds `reopenMu` from its look at the crash mark to the installation.
  Where two respawns overlap, `OwnerInv` says nothing, as the code does not:
  the surplus process lives until the loader shuts down.  A re-open reads the
  crash mark again under `reopenMu`; it replaces a process that never crashed
  only if the crash path of an execute installed it (`by`).
* *ToolCalls.*  Executes form a tree (`NodeInv`): a nested one was allowed, is
  younger than its caller, and its caller has begun and is not over while it is
  under way itself.  The turn of a session is with an execute of it that has begun
  (`HolderInv`), so one that waits for a turn waits for an execute of the same
  adapter, and one that waits for its calls waits for executes of adapters it may
  call.  If every allowed call goes to an adapter of lower rank, a set of executes
  that all wait for each other would have no member of least rank; that such a
  rank exists is the hypothesis of `CircleTheorem`, and section 5 shows the circle
  without it.  A call is answered, or its answer dropped, when it ends and it is a child
  until then, which makes `AnsweredOnce` inductive over the number of children.  Once the drain
  window is over all registered calls are cancelled and the gate, read again by
  the registry, keeps others out (`PendingInv`); a fatal error is with the caller
  the moment the call has ended, unless the caller's own call failed (`FatalInv`).
* *EventPublisher.*  What is acknowledged, pending, in hand and in `sendCh` is one
  line of consecutive numbers (`LineInv`).  A stream carries a part of it, and
  what its handler has read never lies beyond the log (`UpInv`); the same holds
  for a handler left behind, wherever its part begins (`StaleInv`).  So no
  handler can append anything but the next number, which is the one step of
  RunLog, and dedup turns the rest into stutters.  A drain counts
  acknowledgements rather than looking at the log: `DownInv` says that none is
  new before all below it, which makes the counter the length of the log at the
  moment the two counts meet, as long as no acknowledgement of an earlier event
  is among those counted.  With no earlier events there is none, which is
  `FreshDrainTheorem`.
* *ChildRuns.*  The child first: the slot names the one live run (`SlotInv`), a
  terminal arm is the verdict of a run that is done (`JournalInv`), a
  CloseSession waits for the run of its session (`CloseInv`).  Then the host,
  which reads only what the child cannot take back: what the tracker says
  without having forced it is what the child said (`TrackInv`), and a teardown
  that watches a settled run has a wake under way (`WatchInv`).  A teardown knows
  the number of a run only if arms and handles have one name, which is part of
  `WatchInv`; with two names it never watches.
* *PeerLink.*  The peer: an exit is journaled before it is classified, and it is
  called a crash only if no kill had been accepted for the child by then
  (`ExitInv`, `CrashInv`).  That the child had then ended *by itself* needs
  keepalive, the hypothesis of `CrashTheorem`: without it `serveClosed` kills
  children nobody asked to kill, and their exits are journaled as crashes.  The
  registry: a session is stored under its own key (`KeyInv`); a waiter has looked
  there since the last store, or is owed a handle by it (`WaitInv`); a session
  that is open, or is about to be, is registered, in the hands of a CloseHandle,
  or the predecessor a later accept will close (`OwnedInv`).  A session whose
  transport is up has read a prefix of the journal and says of each child what
  that prefix says (`ReadInv`), as far as the ring has forgotten nothing.
* *PromptDelivery.*  A prompt is in one place only: unsent, the channel, the pump,
  the held list, the hands of one loop, or answered (`PlaceInv`).  `inFlight` is
  the number of attempts begun by loops that have not ended, as a set of pairs
  (`CountInv`), so that the `endStep` of one loop takes away its own and a positive
  count names a loop.
* *AgentRuns.*  The run called active is the one whose goroutine has not released
  its place (`PlaceInv`); a run is queued once, not while active and not when
  completed (`QueueInv`).  From this a run that is over neither goes on nor is
  queued, and an assignment of it will be declined (`OverInv`).  The end of a run is
  among its undelivered events or at the server before its state file goes
  (`EventInv`, `FileInv`), and a goroutine that was broken off adds none
  (`CutInv`).

Only model-checked: the liveness properties (fairness and ENABLED are beyond the
prover): `PauseIsAnswered`, `ResumeIsHonoured`, `DecisionReleases`, the termination of
fan-outs, `EveryExecuteEnds`, `DrainCompletes` and `EveryPromptAnswered`.  After
ParallelFanout a `TypeOK` only documents the ranges of a module's variables: what
the proofs need of the types is stated in their `Shape` parts and proved with the
invariant.

## 5. Where the code and its documents disagree

Two of these are runs; `PROJECT.json` quotes the lines.

1. `ToolCallDeadlock`.  Tools that may call each other are allowed, "bounded by
   depth".  Two of them, called at the same time by one agent, hold their own
   execute turn and wait for the other's; depth never comes into it.
2. `DrainReattach`.  Drain compares the envelopes published with the
   acknowledgements counted, so that one on its way from the channel to the stream
   is not forgotten.  A run that is taken up again has fresh counters; if its first
   stream breaks before an acknowledgement, the reconnect asks for everything since
   0, the acknowledgements of the earlier process's events are counted, and Drain
   returns early.  Afterwards the counts never meet again and a Drain that has
   not returned waits out its window.

The following statements are in the modules, under the names given, and TLC
refutes them as well; put the name under INVARIANT or PROPERTY of the run's cfg,
changed as noted.

| Module, statement | The document's words | What the code does |
|---|---|---|
| PauseControl `DecisionIsCommitted` | "the payload fields are cleared only once the decision is known-valid and the node commits to its outcome" (`node_approval.go:33-35`) | a PauseRun that latches before the resumed engine's first boundary check pauses it, and the decision is dropped with it |
| PauseControl `BoundaryNeedsNoDecision` | "resolution is a boundary ResumeRun token" (`apply_resume.go:110-112`) | a boundary pause in front of a gate is taken for the gate's own pause: ResumeRun is refused |
| RunRecovery `VisitsBoundAttempts` | "still bound total attempts across resumes" (`apply_local.go:343-345`) | after a resume cycle the checkpoints carry the visit counts of the replaced engine; a crash gives visits back |
| RunRecovery `ResumesWhereItLeftOff` | "without re-executing past iterations" (`docs/workflow.md:842-845`) | neither a resume nor a reattach hands over the cursor: the iteration starts at index 0 |
| RunRecovery `OneDriver`, with two `Procs` | "resumes a crashed local run" (`apply_local.go:328`) | a second `apply` on the state directory drives the run of a process that is alive |
| ParallelFanout `VisitsSerialized` | "visitsMu serializes Visits map access across goroutines" (`parallel_iteration.go:457`) | the checkpoint of one iteration reads the map under the sink's lock while another one writes it under `visitsMu` |
| AdapterSessions `NoOverlappingRespawns` | one crash never spawns several replacements (`sessions.go:1225-1229`) | the crash path of Execute respawns without `reopenMu` (`sessions.go:2785`); the process installed first is in no session any more and lives until the loader shuts down, which is why `NoOrphanProcess` excludes the overlap |
| EventPublisher `TailIsDelivered` | "the server receives the RunCompleted envelope regardless of success" (`apply_server.go:174-175`) | a run whose engine returns an error leaves before the drain (`apply_server.go:162-165`) |
| EventPublisher `CancelledRunReturns` | Publish "blocks (bounded by ctx and publisher shutdown)" (`run_publisher.go:64-65`) | the sink publishes on a context that is never cancelled (`run/sink.go:65-70`), and the loop that would take the envelope has ended |
| PeerLink `ReapedAfterLastConn`, `KeepAlive = FALSE` | "kills children whose last serving conn just ended" (`child.go:688-690`) | a failed dial also calls `serveClosed` (`serve.go:267, 369`) |
| ChildRuns `TeardownSettles` | "The close that follows must not strand or race an unsettled run" (`peer_workflow.go:284-286`) | a run whose start arm was not read yet, or is filed under another name than the handle's, counts as settled (`peer_workflow.go:404`) |
| ChildRuns `CancelledOnPurpose` | "CloseSession or the Control cancel arm is the explicit teardown path" (`serveadapter_adapter.go:315-317`) | a host that reconnects opens the session of the surviving run again, which the child refuses (`serveadapter_adapter.go:276`); the host then kills what it failed to open (`sessions.go:1756, 2388, 3597`), and the run is cancelled; so does a respawn after a refused Execute that was taken for a lost connection (`peer_workflow.go:480-485`) |
| AgentRuns `StopIsNeverAnEnd` | "agent shutdown must not report a terminal failure" (`agent_test.go:561`) | a step that maps `failure` to a terminal state completes the run there (`node_step.go:897-905`), and a compilation broken off by the shutdown is reported as failed (`agent.go:709-713, 778-791`) |

Smaller observations, from the code, for which nothing was stated.

Pausing and recovery.

* A woken PauseRun asks the tracker again, and after a quick resume reports that
  the run ended without pausing (`local_control.go:146`).
* A ResumeRun token accepted while the run executes is dropped at the next
  pause, but one that arrives after the mailboxes were emptied and before the
  pause is recorded releases the pause it preceded.
* `failUnknownNode` leaves the live pointer set (`engine.go:854`), the exception
  in `NoOrphanedWaiter`; a failed checkpoint write is logged and the pause still
  acknowledged, the exception in `AckedPauseIsDurable`.
* Plain steps in the bodies of a fan-out take no token, so executions below a
  parallel step can exceed its `parallel_max` (`runstate.go:66-71`).
* `docs/workflow.md:71` says that `max_total_steps` counts retries; the code
  counts evaluations.

Sessions, prompts, served workflows.

* A refused Execute never leads to adoption, against `peer_workflow.go:455-463`:
  the child's Connect error (`serveadapter.go:305-308`) reaches the host as
  `codes.Unknown`, and line 477 asks for `FailedPrecondition`; the tests make the
  error with `status.Errorf`.  If the tracker shows a run, the refusal passes for
  the loss of the connection.
* The child writes its arms under `workflow.v1` (`serveadapter_run.go:555, 789,
  918`), the host looks for them under the name of the handle, the served
  workflow's (`peer_session.go:845-849, 1081-1085`): unless that is its name, the
  tracker of a handle stays empty.
* A tool call's reply is dropped when the session's queue is full
  (`tool_call.go:345-389`), where `tool_call.go:840-843` has it "delivered on every
  path"; the caller then waits until its step ends.
* The fatal error of a nested execute is read only if its caller's own Execute
  succeeded (`sessions.go:3038`).
* The end of one item of a parallel step refuses prompts that are held for a
  sibling between attempts (`prompts.go:237-251`); prompts left in the channel
  when the last router stops are dropped without a record, against
  `prompts.go:8-12`.
* An Execute of a served workflow that had its look before CloseSession may open the session
  again (`serveadapter_run.go:442`), the exception in `ExitAfterSettle`.
* A kill by `serveClosed` is journaled as a crash; an event that the ring evicted
  is lost to a host that reconnects late (`journal.go:61`), the condition in
  `CaughtUpKnows`.

Server mode.

* A run that pauses again after a reattach has its checkpoint removed
  (`reattach.go:441`); a reattach without a current step, after a crash before
  the first event was delivered, runs from the empty node and fails
  (`reattach.go:441`, where `agent.go:961` asks first).
* A ReattachRun that fails abandons the checkpoint and starts a fresh run
  (`reattach.go:158-163`).
* Recovered and resumed engines write no visit counts into the checkpoint,
  against `reattach.go:409-411`.
* The resume channel is not emptied when a run pauses again (`apply_server.go:249`):
  a repeated resume of one pause releases the next.
* One full prompt channel blocks the control stream's dispatch, and with it the
  resume behind it (`client_streams.go:237`).
* An agent takes every refusal to resume for the end of the run (`agent.go:815`),
  a mismatch of identities after a failed recovery included: the exception in
  `InterruptedIsResumable`.  A paused run keeps the agent's queue waiting.

## 6. What is not modelled

* Variable scopes, expressions, outputs, secrets and redaction are data: the
  graph, its outcomes and its failures are constants or choices.  The data store
  is a map behind a mutex.
* The workflow compiler, the adapter distribution (OCI, signatures, lock files),
  the language server, the console and file sinks and the viewer are sequential
  translations or I/O, without state that two actors share.
* Wall-clock time appears only as the choice that a timer fires.
* Generated protocol code, the SDK's helpers and the test tooling, except for the
  fake server as the model of the one outside the repository.
* The reattachment of a server-mode apply run and its pause command: they repeat
  RunRecovery and PauseControl over the server's answers; what differs is listed
  above.  Snapshots of adapter state and the retention sweep.
* The authentication and the byte streams of peers.

`PROJECT.json` lists every component with its status.  The modules cover the
concurrent core; most of the repository's lines are compiler, data handling,
command line and generated code.

## 7. Plan

Done: PauseControl, RunRecovery, ParallelFanout with their proofs; then
AdapterSessions and ToolCalls (what a step relies on), EventPublisher with its
abstract RunLog (what the server learns), PeerLink and ChildRuns (adapters
elsewhere), PromptDelivery and AgentRuns.

Proved since: the refinement of RunLog, and the safety properties of AgentRuns,
PromptDelivery, ChildRuns, PeerLink, AdapterSessions and ToolCalls.

Next: server-mode reattachment as a module over the same server as AgentRuns, and an
abstract run (started, executing, paused, over; driven by at most one process)
that PauseControl implements.

The number of runs is kept small: new questions about a modelled part become
properties of its run.
