----------------------------- MODULE ChildRuns -----------------------------
(***************************************************************************)
(* A workflow served as an adapter.  The child process (criteria           *)
(* serve-adapter) runs at most one child run at a time, on a context of    *)
(* its own: the run outlives the Execute stream, the connection and the    *)
(* host.  It journals when the run starts and how it ends.  The host       *)
(* (peer_workflow.go) lifts that journal into a tracker and tears a live   *)
(* run down before it closes the connection.                               *)
(*                                                                         *)
(* The child refuses a second Execute with a Connect error, which a plain  *)
(* gRPC server sends as codes.Unknown.  The host asks for                  *)
(* FailedPrecondition before it adopts the run that is in the way, so that *)
(* adoptSurvivingChildRun is never reached: the step fails, or, when the   *)
(* tracker shows a run, is taken for one that lost its connection.         *)
(*                                                                         *)
(* A run is the number of its creation, and 0 is no run: the empty run id  *)
(* of the wire.  The journal's ring is never full here (PeerLink has the   *)
(* ring).  The pause and resume of a child run are those of PauseControl.  *)
(***************************************************************************)
EXTENDS Naturals, Sequences, FiniteSets

CONSTANTS
  Sessions,   \* session ids the hosts use
  NoSession,
  ArmLabel,   \* the adapter type the child writes on its journal arms
  DialNames,  \* adapter names its identity frame, and so its handles, may have
  Ends,       \* how engines may end: "success", "failure"
  MaxRuns,    \* bound on the child runs of the process
  MaxFaults   \* bound on lost connections, failed calls, refused opens, closes,
              \* teardowns, cancelled steps and respawns, together

ASSUME ChildRunsAssumption ==
  /\ NoSession \notin Sessions /\ Ends \subseteq {"success", "failure"}
  /\ {MaxRuns, MaxFaults} \subseteq Nat

Runs == 1..MaxRuns

VARIABLES
  \* the child process
  sessions,   \* open sessions
  checked,    \* sessions whose Execute has passed its first look at the slot
  slot,       \* c.run
  run,        \* run -> phase, owner, cancelRequested, outcome, stream
  made,       \* runs created
  closing,    \* session -> {the run its CloseSession waits for}, {} without one
  partial,    \* runs whose teardown arm is still to be journaled
  exiting,    \* RequestExit was called
  journal,
  \* the host
  dial,       \* the adapter name of the connection: the one handles go by
  up,         \* the connection and its peerSession
  mine,       \* sessions the host has open on this connection
  track,      \* run -> childRunRecord
  seq,        \* lastSeq
  noting,     \* run the supervision loop is about to wake the watches of
  step,       \* the step that executes on the handle
  tear,       \* teardownInFlightChildRun
  faults

childVars == <<sessions, checked, slot, run, made, closing, partial, exiting, journal>>
hostVars  == <<dial, up, mine, track, seq, noting, step, tear, faults>>
vars      == <<childVars, hostVars>>

NoRun  == [phase |-> "none", owner |-> NoSession,
           canceled |-> FALSE, out |-> "none", stream |-> FALSE]
NoRec  == [known |-> FALSE, out |-> "", forced |-> FALSE]
Idle   == [state |-> "idle", sess |-> NoSession, run |-> 0]
NoTear == [state |-> "idle", run |-> 0]

Live(r) == run[r].phase \in {"building", "running", "ended"}

InFlight(rec) == rec.known /\ rec.out = ""

Init ==
  /\ sessions = {} /\ checked = {} /\ slot = 0 /\ made = 0
  /\ run = [r \in Runs |-> NoRun]
  /\ closing = [s \in Sessions |-> {}]
  /\ partial = {} /\ exiting = FALSE /\ journal = <<>>
  /\ dial \in DialNames /\ up = TRUE /\ mine = {}
  /\ track = [r \in Runs |-> NoRec]
  /\ seq = 0 /\ noting = 0 /\ step = Idle /\ tear = NoTear
  /\ faults = 0

\* A process that is to exit drains the calls it has and takes no new one.
Serving == up /\ ~exiting

Disturbed == faults < MaxFaults /\ faults' = faults + 1

Arm(k, r, o) == [kind |-> k, run |-> r, out |-> o]

-----------------------------------------------------------------------------
(* The child: sessions and Execute.                                        *)

\* CancelChildRun: the run it finds, or 0.  The slot is held until the pump
\* returns, so a run that has just settled still accepts its cancel.
Matched(r) == IF slot # 0 /\ r \in {0, slot} THEN slot ELSE 0

\* A run that has stamped its outcome no longer looks at the request.
Canceled(r) ==
  [q \in Runs |-> [run[q] EXCEPT !.canceled =
     @ \/ (q = Matched(r) /\ run[q].phase \in {"building", "running"})]]

Cancel(r) == run' = Canceled(r)

\* controlServeAdapter(kill_child): a cancel, then the arm of the partial
\* teardown, outside the lock.
ArmPartial == partial' = IF Matched(0) # 0 THEN partial \cup {Matched(0)} ELSE partial

Kill == Cancel(0) /\ ArmPartial

OpenSession(s) ==
  /\ Serving /\ s \notin sessions \cup mine /\ closing[s] = {}
  /\ sessions' = sessions \cup {s}
  /\ mine' = mine \cup {s}
  /\ UNCHANGED <<checked, slot, run, made, closing, partial, exiting, journal,
                 dial, up, track, seq, noting, step, tear, faults>>

\* The session of an earlier connection is still there: the child refuses the
\* second open of its id, and the session manager kills the handle.
OpenSessionRefused(s) ==
  /\ Serving /\ s \in sessions \ mine /\ closing[s] = {} /\ Disturbed
  /\ Kill
  /\ UNCHANGED <<sessions, checked, slot, made, closing, exiting, journal,
                 dial, up, mine, track, seq, noting, step, tear>>

Refused(s) == [state |-> "refused", sess |-> s, run |-> 0]

\* Execute's first look: a run in the way refuses the step.
Execute(s) ==
  /\ Serving /\ step = Idle /\ s \in mine \ checked
  /\ \/ slot # 0 /\ step' = Refused(s) /\ checked' = checked
     \/ /\ slot = 0 /\ s \in sessions
        /\ step' = [state |-> "executing", sess |-> s, run |-> 0]
        /\ checked' = checked \cup {s}
  /\ UNCHANGED <<sessions, slot, run, made, closing, partial, exiting, journal,
                 dial, up, mine, track, seq, noting, tear, faults>>

\* The stream of this Execute still has its reader.
Attached(s) == step.state = "executing" /\ step.sess = s /\ step.run = 0

\* openChildRun: the second look, under the lock, and the session it puts back
\* even if it was closed in between.
OpenChildRun(s) ==
  /\ s \in checked
  /\ checked' = checked \ {s}
  /\ \/ /\ slot # 0
        /\ step' = IF Attached(s) THEN Refused(s) ELSE step
        /\ UNCHANGED <<sessions, slot, run, made>>
     \/ /\ slot = 0 /\ made < MaxRuns
        /\ made' = made + 1 /\ slot' = made'
        /\ run' = [run EXCEPT ![made'] =
             [NoRun EXCEPT !.phase = "building", !.owner = s, !.stream = Attached(s)]]
        /\ sessions' = sessions \cup {s}
        /\ step' = IF Attached(s) THEN [step EXCEPT !.run = made'] ELSE step
  /\ UNCHANGED <<closing, partial, exiting, journal,
                 dial, up, mine, track, seq, noting, tear, faults>>

ClearRun(r) == slot' = IF slot = r THEN 0 ELSE slot

\* The Execute of run r returns: its answer, if anyone reads it, ends the step.
Answer(r) == step' = IF run[r].stream THEN Idle ELSE step

\* buildChildEngine fails: the slot is given back on every path, and the error
\* reaches the host as the other refusals do.
BuildFails(r) ==
  /\ run[r].phase = "building"
  /\ run' = [run EXCEPT ![r].phase = "gone"]
  /\ ClearRun(r)
  /\ step' = IF run[r].stream THEN Refused(step.sess) ELSE step
  /\ UNCHANGED <<sessions, checked, made, closing, partial, exiting, journal,
                 dial, up, mine, track, seq, noting, tear, faults>>

\* armChildRunStart, and the engine's goroutine.
ArmChildRunStart(r) ==
  /\ run[r].phase = "building"
  /\ run' = [run EXCEPT ![r].phase = "running"]
  /\ journal' = Append(journal, Arm("started", r, ""))
  /\ UNCHANGED <<sessions, checked, slot, made, closing, partial, exiting, hostVars>>

\* settleChildRun up to the stamp: a run that was cancelled and did not succeed
\* is reported as cancelled; a cancel that comes later changes nothing.
EngineEnds(r) ==
  /\ run[r].phase = "running"
  /\ \E o \in Ends :
       run' = [run EXCEPT ![r].phase = "ended", ![r].canceled = FALSE,
                 ![r].out = IF o = "failure" /\ run[r].canceled THEN "cancelled" ELSE o]
  /\ UNCHANGED <<sessions, checked, slot, made, closing, partial, exiting, journal, hostVars>>

\* journalChildRunTerminal, and done is closed.
JournalChildRunTerminal(r) ==
  /\ run[r].phase = "ended"
  /\ run' = [run EXCEPT ![r].phase = "done"]
  /\ journal' = Append(journal, Arm("terminal", r, run[r].out))
  /\ UNCHANGED <<sessions, checked, slot, made, closing, partial, exiting, hostVars>>

\* Mutant: an Execute whose stream has died returns without waiting for the run.
PumpReturnsOnStreamDeath(r) ==
  /\ run[r].phase = "done" \/ (run[r].phase = "running" /\ ~run[r].stream)
  /\ slot = r
  /\ ClearRun(r) /\ Answer(r)
  /\ UNCHANGED <<sessions, checked, run, made, closing, partial, exiting, journal,
                 dial, up, mine, track, seq, noting, tear, faults>>

\* pumpExecuteEvents returns after done, whether its stream lives or not, and
\* only then does Execute give the slot back.
PumpReturns(r) ==
  /\ run[r].phase = "done" /\ slot = r
  /\ ClearRun(r) /\ Answer(r)
  /\ UNCHANGED <<sessions, checked, run, made, closing, partial, exiting, journal,
                 dial, up, mine, track, seq, noting, tear, faults>>

-----------------------------------------------------------------------------
(* The child: cancel, kill, close.                                         *)

JournalChildRunTeardownPartial(r) ==
  /\ r \in partial
  /\ partial' = partial \ {r}
  /\ journal' = Append(journal, Arm("partial", r, ""))
  /\ UNCHANGED <<sessions, checked, slot, run, made, closing, exiting, hostVars>>

\* CloseSession, the locked part: refused to a session that does not own the
\* run; else the run is cancelled and the session forgotten.
CloseSession(s) ==
  /\ Serving /\ s \in sessions \cap mine /\ Disturbed
  /\ slot # 0 => run[slot].owner = s
  /\ Cancel(0)
  /\ sessions' = sessions \ {s} /\ mine' = mine \ {s}
  /\ closing' = [closing EXCEPT ![s] = {slot}]
  /\ UNCHANGED <<checked, slot, made, partial, exiting, journal,
                 dial, up, track, seq, noting, step, tear>>

\* Mutant: the exit is requested without waiting for the run.
CloseSessionEndsAtOnce(s) ==
  /\ closing[s] # {}
  /\ closing' = [closing EXCEPT ![s] = {}]
  /\ exiting' = TRUE
  /\ UNCHANGED <<sessions, checked, slot, run, made, partial, journal, hostVars>>

\* The rest: the run has settled, and the process is asked to exit.  A run whose
\* engine was never built does not settle.
CloseSessionEnds(s) ==
  /\ closing[s] # {}
  /\ \A r \in closing[s] \ {0} : run[r].phase = "done"
  /\ closing' = [closing EXCEPT ![s] = {}]
  /\ exiting' = TRUE
  /\ UNCHANGED <<sessions, checked, slot, run, made, partial, journal, hostVars>>

\* closeSessionSettleTimeout, or the end of the call: an error, and no exit.
CloseSessionTimesOut(s) ==
  /\ closing[s] \notin {{}, {0}}
  /\ closing' = [closing EXCEPT ![s] = {}]
  /\ UNCHANGED <<sessions, checked, slot, run, made, partial, exiting, journal, hostVars>>

-----------------------------------------------------------------------------
(* The host: the tracker.                                                  *)

\* The arms go to the journal of the adapter they name, and handles and
\* teardowns look in the journal of their own name.
Looked(r) == IF ArmLabel = dial THEN track[r] ELSE NoRec

\* Mutant: the first settlement of a run stands, a forced one too.
AfterTerminalFirst(rec, o) ==
  IF rec.known /\ rec.out # "" THEN rec ELSE [known |-> TRUE, out |-> o, forced |-> FALSE]

\* A terminal arm settles the run, and outranks a forced teardown only.
AfterTerminal(rec, o) ==
  IF rec.known /\ rec.out # "" /\ ~rec.forced THEN rec
  ELSE [known |-> TRUE, out |-> o, forced |-> FALSE]

ForceKilled(rec) ==
  IF InFlight(rec) THEN [rec EXCEPT !.out = "force_killed", !.forced = TRUE] ELSE rec

\* applyChildRunArmLocked.
AfterArm(rec, e) ==
  CASE e.kind = "started"  -> [rec EXCEPT !.known = TRUE]
    [] e.kind = "terminal" -> AfterTerminal(rec, e.out)
    [] e.kind = "partial"  -> ForceKilled(rec)

\* applySupervisionEvent: the record changes under the lock; the run that has
\* just settled is kept to wake its watches after the unlock.
ApplyArm ==
  /\ up /\ noting = 0 /\ seq < Len(journal)
  /\ LET e   == journal[seq + 1]
         rec == AfterArm(track[e.run], e)
     IN  /\ track' = [track EXCEPT ![e.run] = rec]
         /\ noting' = IF rec.out # "" /\ track[e.run].out = "" THEN e.run ELSE 0
  /\ seq' = seq + 1
  /\ UNCHANGED <<childVars, dial, up, mine, step, tear, faults>>

\* The teardown waits on the watch of run r, in the journal of its own name.
Watched(r) == tear.state = "settling" /\ tear.run = r /\ ArmLabel = dial

\* noteChildRunTerminal, for the supervision loop.
NoteChildRunTerminal ==
  /\ noting # 0
  /\ tear' = IF Watched(noting) THEN [tear EXCEPT !.state = "closing"] ELSE tear
  /\ noting' = 0
  /\ UNCHANGED <<childVars, dial, up, mine, track, seq, step, faults>>

-----------------------------------------------------------------------------
(* The host: the end of a step.                                            *)

\* executeChildRunAware gets an error with codes.Unknown: the step fails.  If
\* the tracker shows a run in flight the same error counts as the loss of the
\* connection, and a session that is to be respawned after a crash kills its
\* handle, and with it whatever run the child has.
ExecuteRefused ==
  /\ up /\ step.state = "refused"
  /\ step' = Idle
  /\ \/ UNCHANGED <<run, partial, faults>>
     \/ (\E r \in Runs : InFlight(Looked(r))) /\ Kill /\ Disturbed
  /\ UNCHANGED <<sessions, checked, slot, made, closing, exiting, journal,
                 dial, up, mine, track, seq, noting, tear>>

\* The step's context ends while it executes.
StepCanceled ==
  /\ step.state = "executing" /\ Disturbed
  /\ step' = Idle
  /\ run' = [r \in Runs |-> [run[r] EXCEPT !.stream = FALSE]]
  /\ UNCHANGED <<sessions, checked, slot, made, closing, partial, exiting, journal,
                 dial, up, mine, track, seq, noting, tear>>

-----------------------------------------------------------------------------
(* The host: teardown ahead of a close.                                    *)

TearTo(st, r) == tear' = [state |-> st, run |-> r]

\* CloseHandle or stopPeers: the run the tracker shows in flight, or 0 for
\* whatever the child has.
TeardownBegins ==
  /\ Serving /\ tear = NoTear /\ Disturbed
  /\ \E r \in Runs \cup {0} :
       /\ r # 0 => InFlight(Looked(r))
       /\ r = 0 => \A q \in Runs : ~InFlight(Looked(q))
       /\ TearTo("cancelling", r)
  /\ UNCHANGED <<childVars, dial, up, mine, track, seq, noting, step>>

\* The cancel control: a rejection ends the teardown; after an error, which the
\* child may have met with a cancel or not, it goes on.
TeardownCancels ==
  /\ up /\ tear.state = "cancelling"
  /\ \/ /\ Cancel(tear.run) /\ faults' = faults
        /\ TearTo(IF Matched(tear.run) # 0 THEN "cancelled" ELSE "closing", tear.run)
     \/ /\ Disturbed
        /\ Cancel(tear.run) \/ UNCHANGED run
        /\ TearTo("cancelled", tear.run)
  /\ UNCHANGED <<sessions, checked, slot, made, closing, partial, exiting, journal,
                 dial, up, mine, track, seq, noting, step>>

Settled(r) == Looked(r).known /\ Looked(r).out # ""

\* Mutant: the watch is registered without a look at the record.
WaitWithoutLook ==
  /\ tear.state = "cancelled"
  /\ \/ tear.run # 0 /\ TearTo("settling", tear.run)
     \/ /\ tear.run = 0 /\ \A r \in Runs : ~InFlight(Looked(r))
        /\ TearTo("closing", 0)
  /\ UNCHANGED <<childVars, dial, up, mine, track, seq, noting, step, faults>>

\* waitChildRunSettle: a known run is watched, unless its record, read in the
\* same critical section, is settled; for an unknown one the tracker is polled
\* until it shows no run in flight.
WaitChildRunSettle ==
  /\ tear.state = "cancelled"
  /\ \/ /\ tear.run # 0
        /\ TearTo(IF Settled(tear.run) THEN "closing" ELSE "settling", tear.run)
     \/ /\ tear.run = 0 /\ \A r \in Runs : ~InFlight(Looked(r))
        /\ TearTo("closing", 0)
  /\ UNCHANGED <<childVars, dial, up, mine, track, seq, noting, step, faults>>

\* The settle budget is over: kill_child, which may fail like the cancel.
ForceKillInFlightChildRun ==
  /\ up /\ tear.state \in {"settling", "cancelled"}
  /\ \/ /\ Kill /\ faults' = faults
        /\ TearTo(IF Matched(0) # 0 THEN "killing" ELSE "closing", tear.run)
     \/ /\ Disturbed
        /\ Kill \/ UNCHANGED <<run, partial>>
        /\ TearTo("closing", tear.run)
  /\ UNCHANGED <<sessions, checked, slot, made, closing, exiting, journal,
                 dial, up, mine, track, seq, noting, step>>

\* noteChildRunForceKilled: the kill was accepted, which its answer says after
\* the arm was journaled.  The only watch there is, the teardown's own, is gone.
MarkForceKilled ==
  /\ tear.state = "killing" /\ partial = {}
  /\ track' = IF tear.run # 0 /\ ArmLabel = dial
              THEN [track EXCEPT ![tear.run] = ForceKilled(@)] ELSE track
  /\ TearTo("closing", tear.run)
  /\ UNCHANGED <<childVars, dial, up, mine, seq, noting, step, faults>>

-----------------------------------------------------------------------------
(* Connections and hosts.                                                  *)

\* A peerSession is gone: whoever waited on it is woken by its done channel, an
\* Execute fails, and the next connection starts with an empty tracker.
SessionLost ==
  /\ up' = FALSE /\ mine' = {}
  /\ track' = [r \in Runs |-> NoRec]
  /\ seq' = 0 /\ noting' = 0 /\ step' = Idle /\ tear' = NoTear

DropStreams == [r \in Runs |-> [run[r] EXCEPT !.stream = FALSE]]

\* The close that ends a teardown: kill_child once more, then the transport.
CloseWorkflowHandle ==
  /\ up /\ tear.state = "closing"
  /\ SessionLost
  /\ run' = [r \in Runs |-> [Canceled(0)[r] EXCEPT !.stream = FALSE]]
  /\ ArmPartial
  /\ UNCHANGED <<sessions, checked, slot, made, closing, exiting, journal, dial, faults>>

\* The network, or the host process with it.  A session's id is its name in the
\* workflow: a restarted host and a respawned session use it again.
ConnectionLost ==
  /\ up /\ Disturbed
  /\ SessionLost
  /\ run' = DropStreams
  /\ UNCHANGED <<sessions, checked, slot, made, closing, partial, exiting, journal, dial>>

\* The phone-home loop dials again unless the process is to exit.
Redial ==
  /\ ~up /\ ~exiting
  /\ up' = TRUE
  /\ UNCHANGED <<childVars, dial, mine, track, seq, noting, step, tear, faults>>

Next ==
  \/ \E s \in Sessions :
       \/ OpenSession(s) \/ OpenSessionRefused(s) \/ Execute(s) \/ OpenChildRun(s)
       \/ CloseSession(s) \/ CloseSessionEnds(s) \/ CloseSessionTimesOut(s)
  \/ \E r \in Runs :
       \/ BuildFails(r) \/ ArmChildRunStart(r) \/ EngineEnds(r)
       \/ JournalChildRunTerminal(r) \/ PumpReturns(r)
       \/ JournalChildRunTeardownPartial(r)
  \/ ApplyArm \/ NoteChildRunTerminal
  \/ ExecuteRefused \/ StepCanceled
  \/ TeardownBegins \/ TeardownCancels \/ WaitChildRunSettle
  \/ ForceKillInFlightChildRun \/ MarkForceKilled
  \/ CloseWorkflowHandle \/ ConnectionLost \/ Redial

Spec == Init /\ [][Next]_vars

-----------------------------------------------------------------------------
(* Properties.                                                             *)

CaughtUp == up /\ seq = Len(journal) /\ noting = 0

Terminals(r) == {i \in 1..Len(journal) : journal[i].kind = "terminal" /\ journal[i].run = r}

\* Two engines never run at once, whatever connections and hosts come and go:
\* the guard of Execute and openChildRun holds until the run has settled, and a
\* dead stream does not open it (ErrChildRunInFlight, pumpExecuteEvents).
OneChildRun == Cardinality({r \in Runs : Live(r)}) <= 1

\* A host that has read the journal to its end holds the verdict the child gave
\* every ended run, though it may have settled the run itself with a forced
\* teardown before (applyChildRunArmLocked, noteChildRunForceKilled).
TrackerIsTrue ==
  CaughtUp => \A r \in Runs : Terminals(r) # {} =>
    track[r].out = run[r].out /\ ~track[r].forced

\* Once the host has read the terminal arm of a run and woken its watches, no
\* teardown is left waiting out its settle budget for that run, after which it
\* would kill the child's next one (waitChildRunTerminal, noteChildRunTerminal).
TeardownIsTold ==
  CaughtUp /\ tear.state = "settling" => Terminals(tear.run) = {}

\* The CloseSession that asks the process to exit leaves no live run of its
\* session behind, unless an Execute that had its first look before the close
\* has opened the session again (serveadapter_adapter.go CloseSession).
ExitAfterSettle ==
  [][\A s \in Sessions, r \in Runs :
       (~exiting /\ exiting' /\ closing[s] # closing'[s] /\ Live(r))
       => run[r].owner # s \/ s \in sessions]_vars

\* "The close that follows must not strand or race an unsettled run"
\* (peer_workflow.go:284-286): a teardown that ends without having forced the
\* run leaves no child run that still runs.
TeardownSettles ==
  [][tear.state = "cancelled" /\ tear'.state = "closing" => \A r \in Runs : ~Live(r)]_vars

\* "A host disconnect mid-Execute must not orphan-kill the run; CloseSession or
\* the Control cancel arm is the explicit teardown path"
\* (serveadapter_adapter.go:316-317): a run is cancelled only by a teardown or a
\* CloseSession.
CancelledOnPurpose ==
  [][\A r \in Runs : ~run[r].canceled /\ run'[r].canceled =>
       tear # NoTear \/ closing' # closing]_vars
=============================================================================
