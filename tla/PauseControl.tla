---------------------------- MODULE PauseControl ----------------------------
(***************************************************************************)
(* Pausing and resuming a local run: the engine's boundary-pause latch     *)
(* (internal/engine/engine.go), the pause tracker and the drain loop that  *)
(* drives a fresh engine after every pause (internal/cli/apply_resume.go), *)
(* and the control bus that the loopback listener's verbs go through       *)
(* (internal/cli/local_control.go).                                        *)
(*                                                                         *)
(* One process executes the run: `pc` is the place of the goroutine that   *)
(* is in turn the run loop of an engine and the drain loop between two     *)
(* engines.  The PauseRun calls are goroutines of their own; ResumeRun and *)
(* ResolveResume hold the bus's mutex throughout and are single steps.     *)
(* Steps of the run goroutine that share no state with a control verb are  *)
(* merged; every access to the latch, the tracker, the mailboxes, the      *)
(* engine pointer and the step checkpoint is a step of its own.            *)
(***************************************************************************)
EXTENDS Naturals

CONSTANTS
    Steps,      \* nodes whose evaluation commits to a successor by itself
    Gates,      \* approval and signal-wait nodes: they need a decision
    Terminals,  \* terminal states
    Missing,    \* a name that is no node of the graph
    Starts,     \* where the first engine starts: the graph's initial state, or the
                \* node of a crashed run's checkpoint (Missing in an edited graph)
    Succ,       \* Succ[s]: the targets of the outcomes of step s
    Decisions,  \* the decisions a gate declares outcomes for
    Target,     \* Target[g][d]: where gate g goes on decision d
    Calls,      \* PauseRun calls
    HasResumer, \* a resumer (stdin, file, env, auto-approve) is configured
    MaxCycles,  \* bound: operators act in at most this many pause cycles
    None

Nodes == Steps \cup Gates \cup Terminals

ASSUME PauseControlAssumption ==
    /\ Steps \cap Gates = {} /\ Steps \cap Terminals = {} /\ Gates \cap Terminals = {}
    /\ Missing \notin Nodes /\ None \notin Nodes \cup {Missing}
    /\ None \notin Decisions
    /\ Starts \subseteq Nodes \cup {Missing}
    /\ Succ \in [Steps -> SUBSET Nodes]
    /\ Target \in [Gates -> [Decisions -> Nodes]]
    /\ HasResumer \in BOOLEAN
    /\ MaxCycles \in Nat

VARIABLES
    pc,         \* where the run goroutine is
    current,    \* RunState.Current
    mode,       \* why the run last paused: "external" (boundary) or "node"
    live,       \* the current engine's liveRunState # nil
    latch,      \* the current engine's boundaryPause (and pauseLanded # nil)
    payload,    \* the decision in hand: taken by the drain loop, then ResumePayload
    outcome,    \* how the last run loop ended
    pausedNode, \* pauseTracker.pausedNode
    resumeReq,  \* the boundary-resume mailbox holds a token
    payloadReq, \* the decision mailbox
    ckpt,       \* node of the step checkpoint on disk
    unsaved,    \* writing the last pause's step checkpoint failed (and was logged)
    call,       \* the PauseRun calls
    stopped,    \* the run context is cancelled (stop verb)
    cycle       \* number of pauses so far

engineVars == <<current, mode, live, latch, payload, outcome>>
busVars    == <<pausedNode, resumeReq, payloadReq>>
diskVars   == <<ckpt, unsaved>>
vars == <<pc, current, mode, live, latch, payload, outcome, pausedNode,
          resumeReq, payloadReq, ckpt, unsaved, call, stopped, cycle>>

(* A decision remembers the pause it was accepted for. *)
Decision == [node : Gates, dec : Decisions, cycle : Nat]

LoopPC  == {"top", "eval", "landing"}
PausePC == {"newpause", "record", "persist", "ack"}
DrainPC == {"drain", "await", "clear", "rebuild"}
PCs == {"start", "exit", "over"} \cup LoopPC \cup PausePC \cup DrainPC

(* PauseRun: not sent, engine pointer read, tracker seen empty, waiting on  *)
(* the pause-landed channel, channel seen closed, and the five answers.     *)
Answers == {"already", "not_running", "paused", "ended", "timeout"}
Phases  == {"idle", "read", "checked", "waiting", "woken"} \cup Answers

(* `fresh`: the engine pointer the call read is still the bus's engine.     *)
(* `landed`: the channel was closed while the run was paused, in pause      *)
(* number `at`.                                                             *)
CallState == [phase : Phases, fresh : BOOLEAN, landed : BOOLEAN, at : Nat]

TypeOK ==
    /\ pc \in PCs
    /\ current \in Nodes \cup {Missing}
    /\ mode \in {"none", "external", "node"}
    /\ live \in BOOLEAN /\ latch \in BOOLEAN /\ stopped \in BOOLEAN
    /\ payload \in Decision \cup {None}
    /\ outcome \in {"none", "paused", "completed", "failed"}
    /\ pausedNode \in Nodes \cup {Missing, None}
    /\ resumeReq \in BOOLEAN
    /\ payloadReq \in Decision \cup {None}
    /\ ckpt \in Nodes \cup {Missing, None} /\ unsaved \in BOOLEAN
    /\ call \in [Calls -> CallState]
    /\ cycle \in Nat

Init ==
    /\ pc = "start" /\ current \in Starts /\ mode = "none"
    /\ live = FALSE /\ latch = FALSE /\ payload = None /\ outcome = "none"
    /\ pausedNode = None /\ resumeReq = FALSE /\ payloadReq = None
    /\ ckpt = None /\ unsaved = FALSE /\ stopped = FALSE /\ cycle = 0
    /\ call = [c \in Calls |-> [phase |-> "idle", fresh |-> FALSE, landed |-> FALSE, at |-> 0]]

-----------------------------------------------------------------------------
(* The pause-landed channel.  Closing it wakes every call waiting on it.    *)
Woken(c, landed) ==
    IF call[c].phase = "waiting"
    THEN [call[c] EXCEPT !.phase = "woken", !.landed = landed, !.at = cycle]
    ELSE call[c]

CloseChannel(landed) ==
    /\ latch' = FALSE
    /\ call' = [c \in Calls |-> Woken(c, landed)]

-----------------------------------------------------------------------------
(* The run loop of one engine.                                              *)

(* Run / RunFrom reach runLoop: the live pointer is set.                    *)
StartLoop ==
    /\ pc = "start"
    /\ live' = TRUE /\ outcome' = "none" /\ pc' = "top"
    /\ UNCHANGED <<current, mode, latch, payload, busVars, diskVars, call, stopped, cycle>>

(* Every failure of Run / RunFrom before runLoop fails the run.             *)
InitFails ==
    /\ pc = "start"
    /\ outcome' = "failed" /\ pc' = "over" /\ ckpt' = None
    /\ UNCHANGED <<unsaved, current, mode, live, latch, payload, busVars, call, stopped, cycle>>

(* Top of the loop: the latch is read before the node is looked up.         *)
Top ==
    /\ pc = "top"
    /\ \/ latch /\ pc' = "landing" /\ UNCHANGED outcome
       \/ ~latch /\ current # Missing /\ pc' = "eval" /\ UNCHANGED outcome
       \/ \* failUnknownNode: the live pointer is left alone
          ~latch /\ current = Missing /\ pc' = "exit" /\ outcome' = "failed"
    /\ UNCHANGED <<current, mode, live, latch, payload, busVars, diskVars, call, stopped, cycle>>

(* A step commits to its transition.  An adapter step has announced itself  *)
(* before (OnStepEntered writes the step checkpoint); the nodes that are    *)
(* no adapter steps (switch, duration wait) write none.                     *)
EvalStep ==
    /\ pc = "eval" /\ current \in Steps
    /\ ckpt' \in {ckpt, current}
    /\ current' \in Succ[current]
    /\ pc' = "top"
    /\ UNCHANGED <<unsaved, mode, live, latch, payload, outcome, busVars, call, stopped, cycle>>

(* A gate with a decision in hand commits to the decision's target.         *)
EvalDecided ==
    /\ pc = "eval" /\ current \in Gates /\ payload # None
    /\ current' = Target[current][payload.dec]
    /\ payload' = None
    /\ pc' = "top"
    /\ UNCHANGED <<mode, live, latch, outcome, busVars, diskVars, call, stopped, cycle>>

(* A gate without one pauses the run (ErrPaused).                           *)
EvalPauses ==
    /\ pc = "eval" /\ current \in Gates /\ payload = None
    /\ live' = FALSE /\ mode' = "node" /\ outcome' = "paused" /\ pc' = "newpause"
    /\ UNCHANGED <<current, latch, payload, busVars, diskVars, call, stopped, cycle>>

(* A terminal state (ErrTerminal) or a return exit completes the run.       *)
EvalCompletes ==
    /\ pc = "eval" /\ current \in Terminals
    /\ live' = FALSE /\ outcome' = "completed" /\ pc' = "exit"
    /\ UNCHANGED <<current, mode, latch, payload, busVars, diskVars, call, stopped, cycle>>

(* Any other error of a step, a cancellation of the run included, or of     *)
(* the output expressions at a terminal state.  The failing step may have   *)
(* written its checkpoint before.                                           *)
EvalFails ==
    /\ pc = "eval" /\ current \in Steps \cup Terminals
    /\ ckpt' \in {ckpt} \cup ({current} \cap Steps)
    /\ live' = FALSE /\ outcome' = "failed" /\ pc' = "exit"
    /\ UNCHANGED <<unsaved, current, mode, latch, payload, busVars, call, stopped, cycle>>

(* pauseAtBoundary: the sessions are paused, best effort; then the live     *)
(* pointer is cleared and the sink is told.                                 *)
LandBoundary ==
    /\ pc = "landing"
    /\ live' = FALSE /\ mode' = "external" /\ outcome' = "paused" /\ pc' = "newpause"
    /\ UNCHANGED <<current, latch, payload, busVars, diskVars, call, stopped, cycle>>

(* Mutant: the mailbox of decisions is not emptied at a new pause.          *)
DrainKeepsDecision ==
    /\ pc = "newpause"
    /\ resumeReq' = FALSE
    /\ pc' = "record"
    /\ UNCHANGED <<engineVars, pausedNode, payloadReq, diskVars, call, stopped, cycle>>

(* pauseTracker.OnRunPaused, first: OnNewPause empties both mailboxes.      *)
DrainPendingResumes ==
    /\ pc = "newpause"
    /\ resumeReq' = FALSE /\ payloadReq' = None
    /\ pc' = "record"
    /\ UNCHANGED <<engineVars, pausedNode, diskVars, call, stopped, cycle>>

(* Mutant: a boundary pause is acknowledged without its step checkpoint.    *)
RecordThenAck ==
    /\ pc = "record"
    /\ pausedNode' = current /\ cycle' = cycle + 1
    /\ pc' = IF mode = "external" THEN "ack" ELSE "persist"
    /\ UNCHANGED <<engineVars, resumeReq, payloadReq, diskVars, call, stopped>>

(* ... then the paused node is recorded ...                                 *)
RecordPause ==
    /\ pc = "record"
    /\ pausedNode' = current /\ cycle' = cycle + 1
    /\ pc' = "persist"
    /\ UNCHANGED <<engineVars, resumeReq, payloadReq, diskVars, call, stopped>>

(* Mutant: the mailboxes are emptied after the pause became visible.        *)
PersistThenDrain ==
    /\ pc = "persist"
    /\ ckpt' = current /\ unsaved' = FALSE
    /\ resumeReq' = FALSE /\ payloadReq' = None
    /\ pc' = IF mode = "external" THEN "ack" ELSE "exit"
    /\ UNCHANGED <<engineVars, pausedNode, call, stopped, cycle>>

(* ... and PauseCheckpointFn writes the step checkpoint.  A failure to do   *)
(* so is logged and holds nothing up.                                       *)
PersistPause ==
    /\ pc = "persist"
    /\ \/ ckpt' = current /\ unsaved' = FALSE
       \/ UNCHANGED ckpt /\ unsaved' = TRUE
    /\ pc' = IF mode = "external" THEN "ack" ELSE "exit"
    /\ UNCHANGED <<engineVars, busVars, call, stopped, cycle>>

(* ackPauseRequested: the boundary pause has landed.                        *)
AckPauseRequested ==
    /\ pc = "ack"
    /\ CloseChannel(TRUE)
    /\ pc' = "exit"
    /\ UNCHANGED <<current, mode, live, payload, outcome, busVars, diskVars, stopped, cycle>>

(* Mutant: runLoop is left without dropping a pending pause request.        *)
ExitKeepsRequest ==
    /\ pc = "exit"
    /\ IF outcome = "failed" THEN pc' = "over" /\ ckpt' = None
                              ELSE pc' = "drain" /\ UNCHANGED ckpt
    /\ UNCHANGED <<unsaved, engineVars, busVars, call, stopped, cycle>>

(* Leaving runLoop: the deferred clearPauseRequest drops a pending latch.   *)
(* A failed run ends the process, which removes the step checkpoint;        *)
(* otherwise the drain loop takes over.                                     *)
ClearPauseRequest ==
    /\ pc = "exit"
    /\ CloseChannel(outcome = "paused")
    /\ IF outcome = "failed" THEN pc' = "over" /\ ckpt' = None
                              ELSE pc' = "drain" /\ UNCHANGED ckpt
    /\ UNCHANGED <<unsaved, current, mode, live, payload, outcome, busVars, stopped, cycle>>

-----------------------------------------------------------------------------
(* drainLocalResumeCycles.                                                  *)

(* One turn of the loop starts without a decision: the engine that paused   *)
(* took its RunState with it.                                               *)
DrainCheck ==
    /\ pc = "drain"
    /\ payload' = None
    /\ IF pausedNode = None THEN pc' = "over" /\ ckpt' = None
                            ELSE pc' = "await" /\ UNCHANGED ckpt
    /\ UNCHANGED <<unsaved, current, mode, live, latch, outcome, busVars, call, stopped, cycle>>

(* A boundary pause is released by a ResumeRun token ...                    *)
AwaitBoundaryRelease ==
    /\ pc = "await" /\ pausedNode \notin Gates
    /\ resumeReq
    /\ resumeReq' = FALSE /\ pc' = "clear"
    /\ UNCHANGED <<engineVars, pausedNode, payloadReq, diskVars, call, stopped, cycle>>

(* ... a pause at a gate by a decision parked by ResolveResume ...          *)
AwaitDecision ==
    /\ pc = "await" /\ pausedNode \in Gates
    /\ payloadReq # None
    /\ payload' = payloadReq /\ payloadReq' = None /\ pc' = "clear"
    /\ UNCHANGED <<current, mode, live, latch, outcome, pausedNode, resumeReq, diskVars, call, stopped, cycle>>

(* ... or by the configured resumer, which discards a parked decision.      *)
ResumerDecides ==
    /\ pc = "await" /\ pausedNode \in Gates
    /\ HasResumer /\ cycle <= MaxCycles
    /\ \E d \in Decisions :
         payload' = [node |-> pausedNode, dec |-> d, cycle |-> cycle]
    /\ payloadReq' = None /\ pc' = "clear"
    /\ UNCHANGED <<current, mode, live, latch, outcome, pausedNode, resumeReq, diskVars, call, stopped, cycle>>

(* The stop verb ends the wait, and so does an error of the resumer.        *)
AwaitAborted ==
    /\ pc = "await"
    /\ stopped \/ (HasResumer /\ pausedNode \in Gates)
    /\ pc' = "over" /\ ckpt' = None
    /\ UNCHANGED <<unsaved, engineVars, busVars, call, stopped, cycle>>

ClearPaused ==
    /\ pc = "clear"
    /\ pausedNode' = None /\ pc' = "rebuild"
    /\ UNCHANGED <<engineVars, resumeReq, payloadReq, diskVars, call, stopped, cycle>>

(* A fresh engine, with its own latch, becomes the bus's engine and is run  *)
(* from the paused node with the decision, if there is one.                 *)
SetEngine ==
    /\ pc = "rebuild"
    /\ live' = FALSE /\ latch' = FALSE
    /\ call' = [c \in Calls |-> [call[c] EXCEPT !.fresh = FALSE]]
    /\ pc' = "start"
    /\ UNCHANGED <<current, mode, payload, outcome, busVars, diskVars, stopped, cycle>>

-----------------------------------------------------------------------------
(* The control verbs.                                                       *)

(* A PauseRun call moves on. *)
GoTo(c, p) == call' = [call EXCEPT ![c].phase = p]

(* localRunControl.pause reads the engine pointer under the bus's mutex,    *)
PauseRead(c) ==
    /\ call[c].phase = "idle" /\ cycle < MaxCycles
    /\ call' = [call EXCEPT ![c].phase = "read", ![c].fresh = TRUE]
    /\ UNCHANGED <<pc, engineVars, busVars, diskVars, stopped, cycle>>

(* then asks the tracker,                                                   *)
PauseCheck(c) ==
    /\ call[c].phase = "read"
    /\ GoTo(c, IF pausedNode # None THEN "already" ELSE "checked")
    /\ UNCHANGED <<pc, engineVars, busVars, diskVars, stopped, cycle>>

(* then latches the pause: RequestPause joins a pending request, and        *)
(* refuses when the engine it was given has no live run loop.  A refused    *)
(* call is retried by ctrlPause until the run is finished or it gives up.   *)
RequestPause(c) ==
    /\ call[c].phase = "checked"
    /\ \/ /\ call[c].fresh /\ live
          /\ latch' = TRUE
          /\ GoTo(c, "waiting")
       \/ /\ ~(call[c].fresh /\ live)
          /\ \/ GoTo(c, "not_running")
             \/ pc # "over" /\ GoTo(c, "idle")
          /\ UNCHANGED latch
    /\ UNCHANGED <<pc, current, mode, live, payload, outcome, busVars, diskVars, stopped, cycle>>

(* The channel is closed: the tracker tells a landing from a drop.          *)
PauseAnswer(c) ==
    /\ call[c].phase = "woken"
    /\ GoTo(c, IF pausedNode = None THEN "ended" ELSE "paused")
    /\ UNCHANGED <<pc, engineVars, busVars, diskVars, stopped, cycle>>

(* The ack budget or the caller's context runs out; the latch stays.        *)
PauseTimeout(c) ==
    /\ call[c].phase = "waiting"
    /\ GoTo(c, "timeout")
    /\ UNCHANGED <<pc, engineVars, busVars, diskVars, stopped, cycle>>

(* ResumeRun parks a token, whether or not the run is paused, but not       *)
(* while it is paused at a gate.                                            *)
ResumeRun ==
    /\ pc # "over" /\ cycle <= MaxCycles
    /\ pausedNode \notin Gates
    /\ resumeReq' = TRUE
    /\ UNCHANGED <<pc, engineVars, pausedNode, payloadReq, diskVars, call, stopped, cycle>>

(* ResolveResume parks a decision for the gate the run is paused at,        *)
(* replacing one that is parked.                                            *)
ResolveResume(d) ==
    /\ pc # "over" /\ cycle <= MaxCycles
    /\ pausedNode \in Gates
    /\ payloadReq' = [node |-> pausedNode, dec |-> d, cycle |-> cycle]
    /\ UNCHANGED <<pc, engineVars, pausedNode, resumeReq, diskVars, call, stopped, cycle>>

(* The stop verb cancels the run context.                                   *)
Stop ==
    /\ ~stopped /\ pc # "over"
    /\ stopped' = TRUE
    /\ UNCHANGED <<pc, engineVars, busVars, diskVars, call, cycle>>

(* The process is done and so are its PauseRun calls.                       *)
Finished ==
    /\ pc = "over" /\ \A c \in Calls : call[c].phase \in Answers \cup {"idle"}
    /\ UNCHANGED vars

-----------------------------------------------------------------------------
RunGoroutine ==
    \/ StartLoop \/ InitFails \/ Top
    \/ EvalStep \/ EvalDecided \/ EvalPauses \/ EvalCompletes \/ EvalFails
    \/ LandBoundary \/ DrainPendingResumes \/ RecordPause \/ PersistPause
    \/ AckPauseRequested \/ ClearPauseRequest
    \/ DrainCheck \/ AwaitBoundaryRelease \/ AwaitDecision \/ ResumerDecides
    \/ AwaitAborted \/ ClearPaused \/ SetEngine

PauseRun(c) ==
    PauseRead(c) \/ PauseCheck(c) \/ RequestPause(c) \/ PauseAnswer(c) \/ PauseTimeout(c)

Next ==
    \/ RunGoroutine
    \/ \E c \in Calls : PauseRun(c)
    \/ ResumeRun
    \/ \E d \in Decisions : ResolveResume(d)
    \/ Stop
    \/ Finished

Spec == Init /\ [][Next]_vars

(* The Go scheduler runs every goroutine that can take a step: the run      *)
(* goroutine, and a PauseRun call once it is under way.  Nothing makes an   *)
(* operator act, at a terminal (the resumer) no more than over RPC, and no  *)
(* timer need expire before the channel closes.                             *)
Scheduled ==
    \/ StartLoop \/ InitFails \/ Top
    \/ EvalStep \/ EvalDecided \/ EvalPauses \/ EvalCompletes \/ EvalFails
    \/ LandBoundary \/ DrainPendingResumes \/ RecordPause \/ PersistPause
    \/ AckPauseRequested \/ ClearPauseRequest
    \/ DrainCheck \/ AwaitBoundaryRelease \/ AwaitDecision
    \/ (stopped /\ AwaitAborted) \/ ClearPaused \/ SetEngine

Fairness ==
    /\ WF_vars(Scheduled)
    /\ \A c \in Calls : WF_vars(PauseCheck(c) \/ RequestPause(c) \/ PauseAnswer(c))

FairSpec == Spec /\ Fairness

-----------------------------------------------------------------------------
(* PROPERTIES                                                               *)

(* A decision is applied only at the gate it was accepted for, in the very  *)
(* pause it was accepted for: nothing parked in the mailbox during one      *)
(* pause cycle (resolveResume) reaches a later visit of a gate.             *)
NoStaleDecision ==
    pc = "eval" /\ payload # None =>
        /\ current \in Gates
        /\ payload.node = current
        /\ payload.cycle = cycle

(* No PauseRun call is left waiting on a channel nobody will close: once a  *)
(* run loop has been left, no call waits on its pause-landed channel        *)
(* (clearPauseRequest: "the waiter wakes immediately").  The exception is   *)
(* failUnknownNode, which leaves the live pointer set.                      *)
NoOrphanedWaiter ==
    current # Missing /\ pc \in DrainPC \cup {"start", "over"} =>
        \A c \in Calls : call[c].phase # "waiting"

(* A call that was woken by a landed pause, while that pause still stands,  *)
(* finds the step checkpoint of the paused node on disk, unless writing it  *)
(* failed: a crash after the acknowledgement reattaches where the run       *)
(* paused (pauseAtBoundary: durable state first, then the ack).             *)
AckedPauseIsDurable ==
    \A c \in Calls :
        /\ call[c].phase = "woken" /\ call[c].landed /\ call[c].at = cycle
        /\ pausedNode # None /\ pc # "over" /\ ~unsaved
        => ckpt = pausedNode

(* Every waiting PauseRun call is answered: the latch it set is honoured at *)
(* the next boundary or dropped when the loop is left (failUnknownNode      *)
(* apart, as in NoOrphanedWaiter).                                          *)
PauseIsAnswered ==
    \A c \in Calls :
        call[c].phase = "waiting" ~> call[c].phase # "waiting" \/ current = Missing

(* A ResumeRun token accepted from the moment a boundary pause is visible   *)
(* releases that pause: it is not dropped by the mailbox drain.             *)
ResumeIsHonoured ==
    (pausedNode \notin Gates \cup {None} /\ resumeReq)
        ~> (pausedNode = None \/ pc = "over")

(* A decision accepted for a gate releases the pause: the run does not stay *)
(* parked with a decision in the mailbox.                                   *)
DecisionReleases ==
    (pausedNode \in Gates /\ payloadReq # None)
        ~> (pausedNode = None \/ pc = "over")

-----------------------------------------------------------------------------
(* What comments of the code claim, and the code does not do.               *)

(* drainLocalResumeCycles: a checkpoint-boundary pause is resolved by a     *)
(* ResumeRun token and "the fresh engine re-enters the graph without a      *)
(* resume payload".                                                         *)
BoundaryNeedsNoDecision ==
    pc = "clear" /\ mode = "external" => payload = None

(* The decision the drain loop took is applied by the engine it was handed  *)
(* to ("the payload fields are cleared only once the decision is            *)
(* known-valid and the node commits to its outcome").                       *)
DecisionIsCommitted ==
    pc = "drain" => payload = None
=============================================================================
