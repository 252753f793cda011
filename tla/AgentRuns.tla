----------------------------- MODULE AgentRuns -----------------------------
(***************************************************************************)
(* The agent: a long-lived process that takes assignments from the server  *)
(* and executes them one at a time (internal/cli/agent.go).  Its loop      *)
(* declines duplicates, queues and starts assignments; every run has a     *)
(* goroutine of its own, which starts the next one when it ends.  A run    *)
(* leaves a state file and a step checkpoint on disk, from which the next  *)
(* process of the agent recovers it after asking the server.  The agent    *)
(* may be told to stop, or crash, at any point.                            *)
(*                                                                         *)
(* The server is the one of the repository's tests                         *)
(* (internal/cli/applytest/fakeserver.go): it derives a run's status and   *)
(* step from the events it got and answers only the identity that sent the *)
(* first of them.  It does not assign a run it knows to be over.  Events   *)
(* reach it in order (EventPublisher); those a process has not delivered   *)
(* are lost with it.  Workflows are a number of steps in a row.            *)
(***************************************************************************)
EXTENDS Naturals, Sequences, FiniteSets, SequencesExt

CONSTANTS
  Runs,
  None,
  Length,           \* steps of a workflow
  MaxLives,         \* bound on the processes of the agent
  MaxAssigned,      \* bound on the assignments the server sends
  MaxUpsets         \* bound on the pauses, cancellations and failures, over all runs

ASSUME AgentAssumption ==
  /\ None \notin Runs
  /\ {Length, MaxLives, MaxAssigned, MaxUpsets} \subseteq Nat

VARIABLES
  \* the server
  srv,        \* run -> status and current step, as the events tell
  owner,      \* run -> identity that sent its first event, 0 without one
  assigned,   \* assignments sent
  \* the disk
  state,      \* run -> identity in its state file, 0 without a file
  ckpt,       \* runs with a step checkpoint
  \* the process
  life,       \* number of the process, and its identity at the server
  main,       \* the loop
  stopping,   \* the agent's context is cancelled
  todo,       \* state files recoverAgentRuns has still to look at
  inbox,      \* AssignmentCh
  active,     \* runID of activeRun
  pending,    \* its queue
  completed,  \* its runs that are over
  waitFor,    \* run whose done channel the stopping loop waits for
  work,       \* run -> its goroutine
  tail,       \* run -> events its publisher has not delivered
  \* history
  upsets,
  began,      \* runs whose engine was started
  excused,    \* runs whose state file is gone for another reason than an
              \* interruption: not written, not resumable, drained too late
  cutOff      \* run -> what the stopping agent broke off, "none", "step",
              \* "declared" (a step that maps a failed
              \* attempt to a terminal state) or "compile"

serverVars  == <<srv, owner, assigned>>
diskVars    == <<state, ckpt>>
loopVars    == <<life, main, stopping, todo, inbox, waitFor>>
queueVars   == <<active, pending, completed>>
historyVars == <<upsets, began, excused, cutOff>>
vars == <<serverVars, diskVars, loopVars, queueVars, work, tail, historyVars>>

Idle == [pc |-> "idle", at |-> 0, res |-> "none", cred |-> 0,
         again |-> FALSE, cancel |-> FALSE, token |-> FALSE]

\* A run's goroutine has given up the place of the active run.
Released == {"idle", "next", "claim"}

Event(k, s) == [kind |-> k, step |-> s]
Over == Event("over", 0)

EndsIn(evs) == \E i \in 1..Len(evs) : evs[i].kind = "over"

CtxDone(r) == stopping \/ work[r].cancel

\* Something happens that the bound is about.
Upset == upsets < MaxUpsets /\ upsets' = upsets + 1

Init ==
  /\ srv = [r \in Runs |-> [status |-> "none", step |-> 0]]
  /\ owner = [r \in Runs |-> 0] /\ assigned = 0
  /\ state = [r \in Runs |-> 0] /\ ckpt = {}
  /\ life = 1 /\ main = "loop" /\ stopping = FALSE /\ todo = {} /\ inbox = <<>>
  /\ active = None /\ pending = <<>> /\ completed = {} /\ waitFor = None
  /\ work = [r \in Runs |-> Idle] /\ tail = [r \in Runs |-> <<>>]
  /\ upsets = 0 /\ began = {} /\ excused = {}
  /\ cutOff = [r \in Runs |-> "none"]

-----------------------------------------------------------------------------
(* The server.                                                             *)

CanResume(r, cred) == srv[r].status # "over" /\ owner[r] \in {0, cred}

Assign(r) ==
  /\ main # "down" /\ srv[r].status # "over" /\ assigned < MaxAssigned
  /\ assigned' = assigned + 1
  /\ inbox' = Append(inbox, r)
  /\ UNCHANGED <<srv, owner, diskVars, life, main, stopping, todo, waitFor, queueVars,
                 work, tail, historyVars>>

\* What the server makes of an event.  The end of a run is final.
UpdateRunState(s, e) ==
  CASE e.kind = "over"    -> [status |-> "over", step |-> 0]
    [] e.kind = "started" -> [s EXCEPT !.status = "running"]
    [] e.kind = "entered" -> [status |-> IF s.status = "none" THEN "running" ELSE s.status,
                              step |-> e.step]
    [] e.kind = "paused"  -> [status |-> "paused", step |-> e.step]

Deliver(r) ==
  /\ tail[r] # <<>> /\ owner[r] \in {0, work[r].cred}
  /\ owner' = [owner EXCEPT ![r] = work[r].cred]
  /\ srv' = IF srv[r].status = "over" THEN srv
            ELSE [srv EXCEPT ![r] = UpdateRunState(@, Head(tail[r]))]
  /\ tail' = [tail EXCEPT ![r] = Tail(@)]
  /\ UNCHANGED <<assigned, diskVars, loopVars, queueVars, work, historyVars>>

-----------------------------------------------------------------------------
(* The agent's loop.                                                       *)

IsKnown(r) == r = active \/ r \in completed \/ \E i \in 1..Len(pending) : pending[i].run = r

Enqueue(r, cred) == pending' = Append(pending, [run |-> r, cred |-> cred])

HandleAssignment ==
  /\ main = "loop" /\ inbox # <<>>
  /\ inbox' = Tail(inbox)
  /\ IF IsKnown(Head(inbox))
       THEN UNCHANGED <<main, pending>>
       ELSE Enqueue(Head(inbox), life) /\ main' = "check"
  /\ UNCHANGED <<serverVars, diskVars, life, stopping, todo, waitFor, active, completed,
                 work, tail, historyVars>>

MainTo(m) ==
  /\ main' = m
  /\ UNCHANGED <<serverVars, diskVars, life, stopping, todo, inbox, waitFor, queueVars,
                 work, tail, historyVars>>

CheckIdle == main = "check" /\ MainTo(IF active = None THEN "start" ELSE "loop")

StartNext == main = "start" /\ MainTo(IF stopping THEN "loop" ELSE "claim")

\* Pop the oldest assignment and make it the active run in one critical
\* section; w is the goroutines as the caller leaves them.
ClaimNext(w) ==
  IF active = None /\ pending # <<>>
    THEN /\ active' = Head(pending).run /\ pending' = Tail(pending)
         /\ work' = [w EXCEPT ![Head(pending).run] =
                       [Idle EXCEPT !.pc = "load", !.cred = Head(pending).cred]]
    ELSE work' = w /\ UNCHANGED <<active, pending>>

ClaimMain ==
  /\ main = "claim" /\ main' = "loop"
  /\ ClaimNext(work)
  /\ UNCHANGED <<serverVars, diskVars, life, stopping, todo, inbox, waitFor, completed,
                 tail, historyVars>>

HandleCancel(r) ==
  /\ main = "loop" /\ active = r /\ ~work[r].cancel
  /\ Upset
  /\ work' = [work EXCEPT ![r].cancel = TRUE]
  /\ UNCHANGED <<serverVars, diskVars, loopVars, queueVars, tail, began, excused, cutOff>>

HandleResume(r) ==
  /\ main = "loop" /\ active = r /\ srv[r].status = "paused" /\ ~work[r].token
  /\ work' = [work EXCEPT ![r].token = TRUE]
  /\ UNCHANGED <<serverVars, diskVars, loopVars, queueVars, tail, historyVars>>

-----------------------------------------------------------------------------
(* The goroutine of a run.                                                 *)

Go(r, pc) == work' = [work EXCEPT ![r].pc = pc]

Ends(r, pc, res) == work' = [work EXCEPT ![r].pc = pc, ![r].res = res]

Emit(r, evs) == tail' = [tail EXCEPT ![r] = @ \o evs]

\* The directory, the publisher or the server's answer about the checkpoint
\* is missing: the assignment ends and leaves everything on disk.
LoadFails(r) ==
  /\ work[r].pc = "load" /\ Ends(r, "mark", "err")
  /\ IF CtxDone(r) /\ r \in ckpt THEN UNCHANGED upsets ELSE Upset
  /\ UNCHANGED <<serverVars, diskVars, loopVars, queueVars, tail, began, excused, cutOff>>

\* A checkpoint whose run the server does not let this identity resume is
\* taken for one of a run that is over.
LoadDeclines(r) ==
  /\ work[r].pc = "load" /\ r \in ckpt /\ ~CtxDone(r) /\ ~CanResume(r, work[r].cred)
  /\ state' = [state EXCEPT ![r] = 0] /\ ckpt' = ckpt \ {r}
  /\ completed' = completed \cup {r}
  /\ excused' = IF srv[r].status = "over" THEN excused ELSE excused \cup {r}
  /\ Ends(r, "mark", "none")
  /\ UNCHANGED <<serverVars, loopVars, active, pending, tail, upsets, began, cutOff>>

\* With a checkpoint the run goes on at the server's step, if it has one.
LoadResumeState(r) ==
  /\ work[r].pc = "load"
  /\ r \in ckpt => ~CtxDone(r) /\ CanResume(r, work[r].cred)
  /\ work' = [work EXCEPT ![r].pc = "compile", ![r].at = IF r \in ckpt THEN srv[r].step ELSE 0]
  /\ UNCHANGED <<serverVars, diskVars, loopVars, queueVars, tail, historyVars>>

\* For a reason of its own, or because the cancelled context broke off the
\* pull of an adapter: either is reported.
CompileFails(r) ==
  /\ work[r].pc = "compile"
  /\ Emit(r, <<Over>>) /\ Ends(r, "drain", "err")
  /\ \/ Upset /\ cutOff' = [cutOff EXCEPT ![r] = "none"]
     \/ CtxDone(r) /\ cutOff' = [cutOff EXCEPT ![r] = IF work[r].cancel THEN "none" ELSE "compile"]
        /\ UNCHANGED upsets
  /\ UNCHANGED <<serverVars, diskVars, loopVars, queueVars, began, excused>>

\* The state file is written before the engine starts; a write that fails is
\* logged.  A run without a step to go on at starts with RunStarted.
BeginRun(r) ==
  /\ work[r].pc = "compile"
  /\ \/ state' = [state EXCEPT ![r] = work[r].cred] /\ UNCHANGED <<upsets, excused>>
     \/ Upset /\ UNCHANGED state /\ excused' = excused \cup {r}
  /\ began' = began \cup {r}
  /\ work' = [work EXCEPT ![r].pc = "run", ![r].at = IF @ = 0 THEN 1 ELSE @]
  /\ IF work[r].at = 0 THEN Emit(r, <<Event("started", 0)>>) ELSE UNCHANGED tail
  /\ cutOff' = [cutOff EXCEPT ![r] = "none"]
  /\ UNCHANGED <<serverVars, ckpt, loopVars, queueVars>>

EnterStep(r) ==
  /\ work[r].pc = "run" /\ work[r].at <= Length /\ ~CtxDone(r)
  /\ ckpt' = ckpt \cup {r}
  /\ Emit(r, <<Event("entered", work[r].at)>>)
  /\ Go(r, "exec")
  /\ UNCHANGED <<serverVars, state, loopVars, queueVars, historyVars>>

StepDone(r) ==
  /\ work[r].pc = "exec"
  /\ work' = [work EXCEPT ![r].pc = "run", ![r].at = @ + 1]
  /\ UNCHANGED <<serverVars, diskVars, loopVars, queueVars, tail, historyVars>>

\* Where the goroutine is once its engine has returned: runAndDrain looks at
\* the first engine's result, drainResumeCycles at that of the later ones.
Returned(r, res) ==
  IF ~work[r].again THEN "ran" ELSE IF res = "paused" THEN "await" ELSE "drain"

Pause(r) ==
  /\ work[r].pc = "run" /\ work[r].at <= Length
  /\ Upset
  /\ Emit(r, <<Event("paused", work[r].at)>>)
  /\ Ends(r, Returned(r, "paused"), "paused")
  /\ UNCHANGED <<serverVars, diskVars, loopVars, queueVars, began, excused, cutOff>>

Complete(r) ==
  /\ work[r].pc = "run" /\ work[r].at > Length
  /\ Emit(r, <<Over>>) /\ Ends(r, Returned(r, "ok"), "ok")
  /\ UNCHANGED <<serverVars, diskVars, loopVars, queueVars, historyVars>>

\* Mutant: the failure is always published.
AlwaysPublish == <<Over>>

\* The engine ends with an error.  Its sink keeps that to itself while the
\* agent stops.
FailureEvents == IF stopping THEN <<>> ELSE <<Over>>

EngineFails(r) ==
  /\ work[r].pc \in {"run", "exec"} /\ work[r].at <= Length
  /\ Upset
  /\ Emit(r, FailureEvents) /\ Ends(r, Returned(r, "err"), "err")
  /\ UNCHANGED <<serverVars, diskVars, loopVars, queueVars, began, excused, cutOff>>

\* Its cancelled context breaks off a step, or keeps it from being entered.
\* If the step maps a failure to a terminal state the run completes there.
BrokenOff(r) ==
  /\ work[r].pc \in {"run", "exec"} /\ work[r].at <= Length /\ CtxDone(r)
  /\ \E declared \in {FALSE, work[r].pc = "exec"} :
     LET res == IF declared THEN "ok" ELSE "err"
     IN /\ Emit(r, IF declared THEN <<Over>> ELSE FailureEvents)
        /\ Ends(r, Returned(r, res), res)
        /\ cutOff' = [cutOff EXCEPT ![r] = IF work[r].cancel \/ srv[r].status = "over" THEN "none"
                                           ELSE IF declared THEN "declared" ELSE "step"]
  /\ UNCHANGED <<serverVars, diskVars, loopVars, queueVars, upsets, began, excused>>

\* The first engine has returned.  A stopping agent waits for no resume and
\* makes an error of whatever the engine returned.
AfterRun(r) ==
  /\ work[r].pc = "ran"
  /\ IF work[r].res = "err" THEN Emit(r, FailureEvents) ELSE UNCHANGED tail
  /\ IF stopping THEN Ends(r, "drain", "err")
     ELSE Go(r, IF work[r].res = "paused" THEN "await" ELSE "drain")
  /\ UNCHANGED <<serverVars, diskVars, loopVars, queueVars, historyVars>>

Resume(r) ==
  /\ work[r].pc = "await" /\ work[r].token
  /\ work' = [work EXCEPT ![r].pc = "run", ![r].again = TRUE, ![r].token = FALSE]
  /\ UNCHANGED <<serverVars, diskVars, loopVars, queueVars, tail, historyVars>>

AwaitAborted(r) ==
  /\ work[r].pc = "await" /\ CtxDone(r)
  /\ Ends(r, "drain", "err")
  /\ UNCHANGED <<serverVars, diskVars, loopVars, queueVars, tail, historyVars>>

\* Everything is acknowledged, or the drain window is over.  A run that ended
\* without an error leaves nothing to recover: its state file goes first.
DrainAndCleanup(r) ==
  /\ work[r].pc = "drain"
  /\ IF work[r].res = "ok" /\ ~stopping
       THEN /\ state' = [state EXCEPT ![r] = 0] /\ Go(r, "cleanup")
            /\ excused' = IF tail[r] = <<>> THEN excused ELSE excused \cup {r}
       ELSE UNCHANGED <<state, excused>> /\ Go(r, "close")
  /\ UNCHANGED <<serverVars, ckpt, loopVars, queueVars, tail, upsets, began, cutOff>>

\* Then its checkpoint.  Closing the publisher drops what it still has.
ClosePublisher(r) ==
  /\ work[r].pc \in {"close", "cleanup"} /\ Go(r, "mark")
  /\ ckpt' = IF work[r].pc = "cleanup" THEN ckpt \ {r} ELSE ckpt
  /\ tail' = [tail EXCEPT ![r] = <<>>]
  /\ UNCHANGED <<serverVars, state, loopVars, queueVars, historyVars>>

\* Mutant: the run that ended is not remembered.
NotRemembered(r) ==
  /\ work[r].pc = "mark" /\ Go(r, "finish")
  /\ UNCHANGED <<serverVars, diskVars, loopVars, queueVars, tail, historyVars>>

MarkCompleted(r) ==
  /\ work[r].pc = "mark" /\ Go(r, "finish")
  /\ completed' = IF stopping THEN completed ELSE completed \cup {r}
  /\ UNCHANGED <<serverVars, diskVars, loopVars, active, pending, tail, historyVars>>

FinishRun(r) ==
  /\ work[r].pc = "finish" /\ Go(r, "next")
  /\ active' = None
  /\ UNCHANGED <<serverVars, diskVars, loopVars, pending, completed, tail, historyVars>>

\* Mutant: the hand-off is left to the loop.
LeftToLoop(r) ==
  /\ work[r].pc = "next" /\ Go(r, "idle")
  /\ UNCHANGED <<serverVars, diskVars, loopVars, queueVars, tail, historyVars>>

HandOff(r) ==
  /\ work[r].pc = "next" /\ Go(r, IF stopping THEN "idle" ELSE "claim")
  /\ UNCHANGED <<serverVars, diskVars, loopVars, queueVars, tail, historyVars>>

ClaimWorker(r) ==
  /\ work[r].pc = "claim"
  /\ ClaimNext([work EXCEPT ![r] = Idle])
  /\ UNCHANGED <<serverVars, diskVars, loopVars, completed, tail, historyVars>>

-----------------------------------------------------------------------------
(* Stopping, crashing and starting again.                                  *)

Stop ==
  /\ main # "down" /\ ~stopping /\ stopping' = TRUE
  /\ UNCHANGED <<serverVars, diskVars, life, main, todo, inbox, waitFor, queueVars,
                 work, tail, historyVars>>

Shutdown ==
  /\ main = "loop" /\ stopping
  /\ main' = "shutdown" /\ waitFor' = active
  /\ UNCHANGED <<serverVars, diskVars, life, stopping, todo, inbox, queueVars,
                 work, tail, historyVars>>

\* The process is gone, with what it had in memory.
Gone ==
  /\ main' = "down" /\ stopping' = FALSE /\ todo' = {} /\ inbox' = <<>> /\ waitFor' = None
  /\ active' = None /\ pending' = <<>> /\ completed' = {}
  /\ work' = [r \in Runs |-> Idle] /\ tail' = [r \in Runs |-> <<>>]
  /\ UNCHANGED <<serverVars, diskVars, life, upsets, began, cutOff>>

Exit ==
  /\ main = "shutdown" /\ (waitFor # None => work[waitFor].pc \in Released)
  /\ Gone
  /\ UNCHANGED excused

Crash == main # "down" /\ Gone /\ UNCHANGED excused

Restart ==
  /\ main = "down" /\ life < MaxLives
  /\ life' = life + 1 /\ main' = "recover" /\ todo' = {r \in Runs : state[r] # 0}
  /\ UNCHANGED <<serverVars, diskVars, stopping, inbox, waitFor, queueVars,
                 work, tail, historyVars>>

\* The server is asked with the identity in the state file.
RecoverRun(r) ==
  /\ main = "recover" /\ r \in todo /\ todo' = todo \ {r}
  /\ CanResume(r, state[r])
  /\ Enqueue(r, state[r])
  /\ UNCHANGED <<serverVars, diskVars, life, main, stopping, inbox, waitFor, active,
                 completed, work, tail, historyVars>>

ClearRecoveredRun(r) ==
  /\ main = "recover" /\ r \in todo /\ todo' = todo \ {r}
  /\ ~CanResume(r, state[r])
  /\ state' = [state EXCEPT ![r] = 0] /\ ckpt' = ckpt \ {r}
  /\ completed' = completed \cup {r}
  /\ excused' = IF srv[r].status = "over" THEN excused ELSE excused \cup {r}
  /\ UNCHANGED <<serverVars, life, main, stopping, inbox, waitFor, active, pending,
                 work, tail, upsets, began, cutOff>>

RecoverFails(r) ==
  /\ main = "recover" /\ r \in todo /\ todo' = todo \ {r}
  /\ IF stopping THEN UNCHANGED upsets ELSE Upset
  /\ UNCHANGED <<serverVars, diskVars, life, main, stopping, inbox, waitFor, queueVars,
                 work, tail, began, excused, cutOff>>

RecoverEnds == main = "recover" /\ todo = {} /\ MainTo("start")

Worker(r) ==
  \/ LoadFails(r) \/ LoadDeclines(r) \/ LoadResumeState(r)
  \/ CompileFails(r) \/ BeginRun(r)
  \/ EnterStep(r) \/ StepDone(r) \/ Pause(r) \/ Complete(r) \/ EngineFails(r)
  \/ BrokenOff(r) \/ AfterRun(r) \/ Resume(r) \/ AwaitAborted(r)
  \/ DrainAndCleanup(r) \/ ClosePublisher(r)
  \/ MarkCompleted(r) \/ FinishRun(r) \/ HandOff(r) \/ ClaimWorker(r)

Main == HandleAssignment \/ CheckIdle \/ StartNext \/ ClaimMain \/ Shutdown \/ RecoverEnds

Next ==
  \/ Main \/ Stop \/ Exit \/ Crash \/ Restart
  \/ \E r \in Runs : \/ Assign(r) \/ Deliver(r) \/ HandleCancel(r) \/ HandleResume(r)
                     \/ RecoverRun(r) \/ ClearRecoveredRun(r) \/ RecoverFails(r)
                     \/ Worker(r)

Spec == Init /\ [][Next]_vars

-----------------------------------------------------------------------------
(* Properties.                                                             *)

\* The agent executes one assignment at a time, the one it calls active.
OneAtATime == \A r \in Runs : work[r].pc \notin Released => active = r

\* A queued assignment has somebody who will claim it: the run that is
\* active, the goroutine of one that just ended, or the loop.
QueueIsServed ==
  pending # <<>> /\ ~stopping =>
    \/ active # None \/ main \in {"recover", "check", "start", "claim"}
    \/ \E r \in Runs : work[r].pc \in {"next", "claim"}

\* The hand-off from one run to the next, which the loop and the goroutine of
\* the run that ended race for (agent.go, claimNext and startNext), starts no
\* run beside another and wedges the agent with no queued run.
HandOffIsSafe == OneAtATime /\ QueueIsServed

\* However often a run is assigned, and however its earlier processes ended,
\* no step is executed of a run that the server has recorded the end of.
OverIsNotRunAgain ==
  [][\A r \in Runs : work[r].pc = "run" /\ work'[r].pc = "exec" => srv[r].status # "over"]_vars

\* A run that was begun and is not over has a state file for the next process
\* to find, whether the agent stopped, crashed or failed to reach the server.
BegunHasState == \A r \in began \ excused : srv[r].status # "over" => state[r] # 0

\* Stopping the agent does not end a run whose step it breaks off.
StopIsNotAnEnd ==
  \A r \in Runs : cutOff[r] = "step" => srv[r].status # "over" /\ ~EndsIn(tail[r])

\* What the end of an agent process interrupts, the next one can resume: the
\* run's state file is there, and shutdownSuppressingSink and runAndDrain kept
\* the server from hearing that it failed.
InterruptedIsResumable == BegunHasState /\ StopIsNotAnEnd

\* The same of everything that stopping breaks off, as agent_test.go says
\* ("agent shutdown must not report a terminal failure").  Refuted: a step
\* that declares a failure outcome, and a compilation that is broken off,
\* report the end of the run.
StopIsNeverAnEnd ==
  \A r \in Runs : cutOff[r] # "none" => srv[r].status # "over" /\ ~EndsIn(tail[r])
=============================================================================
