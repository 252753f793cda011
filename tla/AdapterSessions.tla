--------------------------- MODULE AdapterSessions ---------------------------
(***************************************************************************)
(* The session of one adapter instance inside one SessionManager           *)
(* (internal/adapterhost/sessions.go): verification before any process     *)
(* stays up, the lazy bind by whichever caller needs the session first,    *)
(* the execute turns, crashes, stalls, respawns and re-opens, the leases   *)
(* taken by parallel iterations, Close and Shutdown, and the loader's      *)
(* table of live processes (loader.go).                                    *)
(*                                                                         *)
(* Callers are goroutines of the run: step iterations (Execute), the       *)
(* prompt pump (Prompt) and a follow-on step re-opening a crashed session  *)
(* (ReopenCrashedSession).  The engine joins all of them before it closes  *)
(* a scope, so Close and Shutdown happen with every caller idle.  Process  *)
(* names are never reused: a process number stands for one child process.  *)
(***************************************************************************)
EXTENDS Naturals, FiniteSets

CONSTANTS Callers,      \* goroutines that use the session
          Branches,     \* parallel iterations that may lease it
          NoCaller,     \* a free mutex
          MaxSessions,  \* bound: Session values ever registered
          MaxProcs      \* bound: processes ever started

ASSUME BoundsAssumption == MaxSessions \in Nat /\ MaxProcs \in Nat
ASSUME NoCallerAssumption == NoCaller \notin Callers

Sessions == 1 .. MaxSessions
Procs == 1 .. MaxProcs

Postures == {"serial", "concurrent", "workflow"}

\* History: the operation that put a Session value's handle in place.
Installers == {"open", "execute", "reopen"}

\* Where a caller is.  The spawning stages hold bindMu, the respawn stages of
\* a re-open hold reopenMu, and Holds says which ones hold the execute turn.
Stages == {"idle", "unbound", "spawning", "registering", "bound", "session",
           "queued", "running", "crashed", "respawning", "installing",
           "retrying", "reopenWait"}

VARIABLES
  posture,   \* what the adapter's capabilities say about concurrent executes
  verified,  \* m.verified[name] holds a record
  current,   \* m.sessions[name], 0 when absent
  used,      \* Session values made so far
  sess,      \* the Session values
  bindMu,    \* holder of m.bindMu
  running,   \* processes that answer
  active,    \* processes in the loader's active table
  started,   \* processes started so far
  leases,    \* branches with a lease on the name (toolResourceLeases counts them)
  stage,     \* [Callers -> Stages]
  op,        \* what the caller was asked to do
  on,        \* the Session value the caller works on
  proc,      \* the process the caller started or executes on
  turn,      \* the caller took the session's execute turn
  stalled,   \* the caller entered through the heartbeat-stall check
  shut,      \* Shutdown has run
  overlap    \* two respawns of one Session value were in flight together

sessionVars == <<verified, current, used, sess>>
procVars == <<running, active, started>>
callerVars == <<stage, op, on, proc, turn, stalled>>
vars == <<posture, sessionVars, bindMu, procVars, leases,
          callerVars, shut, overlap>>

NewSession(p, gated) ==
  [handle |-> p, crashed |-> FALSE, gated |-> gated, free |-> TRUE,
   silent |-> FALSE, reopenMu |-> NoCaller, by |-> "open"]

Init ==
  /\ posture \in Postures
  /\ verified = FALSE /\ current = 0 /\ used = 0
  /\ sess = [s \in Sessions |-> NewSession(0, TRUE)]
  /\ bindMu = NoCaller
  /\ running = {} /\ active = {} /\ started = 0
  /\ leases = {}
  /\ stage = [c \in Callers |-> "idle"] /\ op = [c \in Callers |-> "execute"]
  /\ on = [c \in Callers |-> 0] /\ proc = [c \in Callers |-> 0]
  /\ turn = [c \in Callers |-> FALSE] /\ stalled = [c \in Callers |-> FALSE]
  /\ shut = FALSE /\ overlap = FALSE

AllIdle == \A c \in Callers : stage[c] = "idle"

\* A caller returns: the deferred releaseExecuteTurn puts a turn back.
Leave(c) ==
  /\ stage' = [stage EXCEPT ![c] = "idle"]
  /\ on' = [on EXCEPT ![c] = 0] /\ proc' = [proc EXCEPT ![c] = 0]
  /\ turn' = [turn EXCEPT ![c] = FALSE]
  /\ stalled' = [stalled EXCEPT ![c] = FALSE]
  /\ UNCHANGED op

GoTo(c, where) ==
  /\ stage' = [stage EXCEPT ![c] = where]
  /\ UNCHANGED <<op, on, proc, turn, stalled>>

GoToSession(c, where, s) ==
  /\ stage' = [stage EXCEPT ![c] = where] /\ on' = [on EXCEPT ![c] = s]
  /\ proc' = [proc EXCEPT ![c] = 0]
  /\ UNCHANGED <<op, turn, stalled>>

\* releaseExecuteTurn: a non-blocking send into the one-slot channel.
ReleaseTurn(c) ==
  sess' = IF turn[c] THEN [sess EXCEPT ![on[c]].free = TRUE] ELSE sess

\* Kill runs once per handle: the process goes and so does its table entry.
Kill(p) == running' = running \ {p} /\ active' = active \ {p}

\* The loader starts a process and enters it in its table.
StartProcess(p) ==
  /\ started < MaxProcs
  /\ p = started + 1
  /\ started' = p /\ running' = running \cup {p} /\ active' = active \cup {p}

-----------------------------------------------------------------------------
(* Verification, opening of a scope, leases, Close and Shutdown.            *)

\* Verify: a throw-away process answers Info and is killed again; the record
\* is stored unless the name is already known.  The engine verifies a scope's
\* adapters before any of its steps runs.
Verify ==
  /\ AllIdle /\ ~shut /\ current = 0 /\ ~verified
  /\ used < MaxSessions
  /\ started < MaxProcs
  /\ verified' = TRUE /\ started' = started + 1
  /\ UNCHANGED <<posture, current, used, sess, bindMu, running, active,
                 leases, callerVars, shut, overlap>>

\* Restore of a snapshot when a paused run is taken up again: the session is
\* built without an execute turn, and a verified record stays where it was.
Restore ==
  /\ AllIdle /\ ~shut /\ current = 0 /\ used < MaxSessions
  /\ \E p \in Procs : StartProcess(p) /\ sess' = [sess EXCEPT ![used + 1] = NewSession(p, FALSE)]
  /\ used' = used + 1 /\ current' = used + 1
  /\ UNCHANGED <<posture, verified, bindMu, leases, callerVars, shut, overlap>>

\* leaseToolResourceLocked: only a bound or verified name can be leased.
LeaseToolResources(b) ==
  /\ b \notin leases /\ ~shut
  /\ current # 0 \/ verified
  /\ leases' = leases \cup {b}
  /\ UNCHANGED <<posture, sessionVars, bindMu, procVars, callerVars, shut, overlap>>

ReleaseSharedToolResources(b) ==
  /\ b \in leases
  /\ leases' = leases \ {b}
  /\ UNCHANGED <<posture, sessionVars, bindMu, procVars, callerVars, shut, overlap>>

\* Close at the end of the scope: refused, with no change, while the session is
\* leased; else the verified record goes, whether or not a session was bound.
CloseRefused == current # 0 /\ leases # {}

Close ==
  /\ AllIdle /\ ~shut /\ ~CloseRefused
  /\ current # 0 \/ verified
  /\ verified' = FALSE /\ current' = 0
  /\ IF current # 0 THEN Kill(sess[current].handle) ELSE UNCHANGED <<running, active>>
  /\ UNCHANGED <<posture, used, sess, bindMu, started, leases, callerVars,
                 shut, overlap>>

\* Shutdown takes every session and record, leased or not, closes them, and
\* then the loader kills whatever is still in its table.
Shutdown ==
  /\ AllIdle /\ ~shut
  /\ shut' = TRUE /\ verified' = FALSE /\ current' = 0
  /\ active' = {} /\ running' = running \ (active \cup {IF current # 0 THEN sess[current].handle ELSE 0})
  /\ UNCHANGED <<posture, used, sess, bindMu, started, leases, callerVars, overlap>>

-----------------------------------------------------------------------------
(* Finding or making the session.                                          *)

\* lookup under m.mu; an unknown name goes on to the lazy bind.
Call(c, what) ==
  /\ stage[c] = "idle" /\ ~shut
  /\ op' = [op EXCEPT ![c] = what]
  /\ stage' = [stage EXCEPT ![c] = IF current # 0 THEN "session" ELSE "unbound"]
  /\ on' = [on EXCEPT ![c] = current]
  /\ UNCHANGED <<proc, turn, stalled, posture, sessionVars, bindMu, procVars,
                 leases, shut, overlap>>

\* bindVerifiedAndLookup: under bindMu the name is looked up again.
LockBind(c) ==
  /\ stage[c] = "unbound" /\ bindMu = NoCaller
  /\ \/ current # 0 /\ GoToSession(c, "session", current) /\ UNCHANGED bindMu
     \/ current = 0 /\ ~verified /\ Leave(c) /\ UNCHANGED bindMu
     \/ current = 0 /\ verified /\ GoTo(c, "spawning") /\ bindMu' = c
  /\ UNCHANGED <<posture, sessionVars, procVars, leases, shut, overlap>>

\* bindVerifiedRecord up to OpenSession; a failure kills what was started and
\* leaves the record for the next caller.
BindProcess(c) ==
  /\ stage[c] = "spawning"
  /\ \/ \E p \in Procs :
          /\ StartProcess(p)
          /\ stage' = [stage EXCEPT ![c] = "registering"]
          /\ proc' = [proc EXCEPT ![c] = p]
          /\ UNCHANGED <<op, on, turn, stalled, bindMu>>
     \/ Leave(c) /\ bindMu' = NoCaller /\ UNCHANGED procVars
  /\ UNCHANGED <<posture, sessionVars, leases, shut, overlap>>

\* registerSession under m.mu: a second registration closes its own process.
RegisterSession(c) ==
  /\ stage[c] = "registering"
  /\ IF current # 0
     THEN /\ Kill(proc[c]) /\ Leave(c) /\ bindMu' = NoCaller
          /\ UNCHANGED <<current, used, sess>>
     ELSE /\ used < MaxSessions
          /\ used' = used + 1 /\ current' = used + 1
          /\ sess' = [sess EXCEPT ![used + 1] = NewSession(proc[c], TRUE)]
          /\ GoTo(c, "bound") /\ UNCHANGED <<running, active, bindMu>>
  /\ UNCHANGED <<posture, verified, started, leases, shut, overlap>>

\* The record is deleted and the name looked up once more.
FinishBind(c) ==
  /\ stage[c] = "bound"
  /\ verified' = FALSE /\ bindMu' = NoCaller
  /\ IF current # 0 THEN GoToSession(c, "session", current) ELSE Leave(c)
  /\ UNCHANGED <<posture, current, used, sess, procVars, leases, shut, overlap>>

\* Prompt: the RPC on the session's handle, no turn taken.
Prompt(c) ==
  /\ stage[c] = "session" /\ op[c] = "prompt"
  /\ Leave(c)
  /\ UNCHANGED <<posture, sessionVars, bindMu, procVars, leases, shut, overlap>>

-----------------------------------------------------------------------------
(* Execute.                                                                *)

Gated(s) == sess[s].gated /\ posture # "concurrent"

Run(c, s, took) ==
  /\ stage' = [stage EXCEPT ![c] = "running"]
  /\ proc' = [proc EXCEPT ![c] = sess[s].handle]
  /\ turn' = [turn EXCEPT ![c] = took]
  /\ UNCHANGED <<op, on, stalled>>

\* acquireExecuteTurn, after the heartbeat check found the session alive.
AcquireExecuteTurn(c) ==
  LET s == on[c] IN
  /\ stage[c] = "session" /\ op[c] = "execute" /\ ~sess[s].silent
  /\ \/ ~Gated(s) /\ Run(c, s, FALSE) /\ UNCHANGED sess
     \/ Gated(s) /\ sess[s].free /\ Run(c, s, TRUE) /\ sess' = [sess EXCEPT ![s].free = FALSE]
     \/ Gated(s) /\ ~sess[s].free /\ posture = "workflow" /\ Leave(c) /\ UNCHANGED sess
     \/ Gated(s) /\ ~sess[s].free /\ posture = "serial" /\ GoTo(c, "queued") /\ UNCHANGED sess
  /\ UNCHANGED <<posture, verified, current, used, bindMu, procVars, leases, shut, overlap>>

\* Mutant: the waiter does not wait for the turn to come free.
TakeTurnEarly(c) ==
  LET s == on[c] IN
  /\ stage[c] = "queued"
  /\ Run(c, s, TRUE) /\ sess' = [sess EXCEPT ![s].free = FALSE]
  /\ UNCHANGED <<posture, verified, current, used, bindMu, procVars, leases, shut, overlap>>

\* A queued caller gets the turn, or its own cancellation arrives; when both
\* have happened it either never takes the turn or abandons and hands it on.
TakeTurn(c) ==
  LET s == on[c] IN
  /\ stage[c] = "queued" /\ sess[s].free
  /\ Run(c, s, TRUE) /\ sess' = [sess EXCEPT ![s].free = FALSE]
  /\ UNCHANGED <<posture, verified, current, used, bindMu, procVars, leases, shut, overlap>>

\* Mutant: the cancelled waiter runs the deferred release although it never took the turn.
AbandonTurnReleasing(c) ==
  /\ stage[c] = "queued" /\ Leave(c)
  /\ sess' = [sess EXCEPT ![on[c]].free = TRUE]
  /\ UNCHANGED <<posture, verified, current, used, bindMu, procVars, leases, shut, overlap>>

AbandonTurn(c) ==
  /\ stage[c] = "queued" /\ Leave(c)
  /\ UNCHANGED <<posture, sessionVars, bindMu, procVars, leases, shut, overlap>>

\* handle.Execute returns and finishExecute gives the turn back: a result
\* from a live process, or an error that is no crash (a cancelled context, an
\* invalid outcome, the teardown window after a step timeout).
ExecuteReturns(c) ==
  /\ stage[c] = "running"
  /\ ReleaseTurn(c) /\ Leave(c)
  /\ UNCHANGED <<posture, verified, current, used, bindMu, procVars, leases, shut, overlap>>

\* handleCrash: mark the session; then return the crash to the engine, or go
\* on to a respawn.  The policy in force is the step's own on_crash where it
\* has one, and a remote session whose transport closed respawns under
\* on_crash = fail too, so either may follow any crash.
HandleCrash(c) ==
  \/ /\ GoTo(c, "crashed")
     /\ sess' = [sess EXCEPT ![on[c]].crashed = TRUE]
  \/ /\ Leave(c)
     /\ sess' = [sess EXCEPT ![on[c]].crashed = TRUE,
                             ![on[c]].free = IF turn[c] THEN TRUE ELSE @]

\* executeError takes the error for a crash: by its gRPC code or by its text,
\* whether or not the process still answers.
ExecuteCrashes(c) ==
  /\ stage[c] = "running"
  /\ HandleCrash(c)
  /\ UNCHANGED <<posture, verified, current, used, bindMu, procVars, leases, shut, overlap>>

\* The heartbeat check of execute, made before any turn is taken.
StallCrash(c) ==
  /\ stage[c] = "session" /\ op[c] = "execute" /\ sess[on[c]].silent
  /\ sess' = [sess EXCEPT ![on[c]].crashed = TRUE]
  /\ \/ /\ stage' = [stage EXCEPT ![c] = "crashed"]
        /\ stalled' = [stalled EXCEPT ![c] = TRUE]
        /\ UNCHANGED <<op, on, proc, turn>>
     \/ Leave(c)
  /\ UNCHANGED <<posture, verified, current, used, bindMu, procVars, leases, shut, overlap>>

\* Mutant: respawn forgets to kill the handle it replaces.
RespawnKeeps(c) ==
  /\ stage[c] = "crashed"
  /\ GoTo(c, "respawning")
  /\ overlap' = (overlap \/ \E d \in Callers \ {c} :
                              on[d] = on[c] /\ stage[d] \in {"respawning", "installing"})
  /\ UNCHANGED <<posture, sessionVars, bindMu, procVars, leases, shut>>

\* respawn, first part: kill the handle the Session value holds now.
RespawnKills(c) ==
  /\ stage[c] = "crashed"
  /\ Kill(sess[on[c]].handle) /\ GoTo(c, "respawning")
  /\ overlap' = (overlap \/ \E d \in Callers \ {c} :
                              on[d] = on[c] /\ stage[d] \in {"respawning", "installing"})
  /\ UNCHANGED <<posture, sessionVars, bindMu, started, leases, shut>>

\* The replacement starts, or the respawn fails and the caller returns.
RespawnStarts(c) ==
  /\ stage[c] = "respawning"
  /\ \/ \E p \in Procs :
          /\ StartProcess(p)
          /\ stage' = [stage EXCEPT ![c] = "installing"]
          /\ proc' = [proc EXCEPT ![c] = p]
          /\ UNCHANGED <<op, on, turn, stalled, sess>>
     \/ /\ Leave(c) /\ UNCHANGED procVars
        /\ sess' = [sess EXCEPT ![on[c]].free = IF turn[c] THEN TRUE ELSE @,
                                ![on[c]].reopenMu = IF @ = c THEN NoCaller ELSE @]
  /\ UNCHANGED <<posture, verified, current, used, bindMu, leases, shut, overlap>>

\* The replacement becomes the handle; a re-open is done, a crashed execute
\* goes on to its one retry.
RespawnInstalls(c) ==
  /\ stage[c] = "installing"
  /\ sess' = [sess EXCEPT ![on[c]].handle = proc[c], ![on[c]].crashed = FALSE,
                          ![on[c]].silent = FALSE, ![on[c]].by = op[c],
                          ![on[c]].reopenMu = IF @ = c THEN NoCaller ELSE @]
  /\ IF op[c] = "reopen" THEN Leave(c) ELSE GoTo(c, "retrying")
  /\ UNCHANGED <<posture, verified, current, used, bindMu, procVars, leases, shut, overlap>>

\* retryAfterRespawn: one Execute on the handle, whatever it returns.
Retry(c) ==
  /\ stage[c] = "retrying" /\ proc[c] # 0
  /\ ReleaseTurn(c) /\ Leave(c)
  /\ UNCHANGED <<posture, verified, current, used, bindMu, procVars, leases, shut, overlap>>

-----------------------------------------------------------------------------
(* ReopenCrashedSession, called before a follow-on step.                    *)

Reopen(c) ==
  /\ stage[c] = "session" /\ op[c] = "reopen"
  /\ IF sess[on[c]].crashed THEN GoTo(c, "reopenWait") ELSE Leave(c)
  /\ UNCHANGED <<posture, sessionVars, bindMu, procVars, leases, shut, overlap>>

\* Mutant: the crash mark is not read again under reopenMu.
LockReopenUnchecked(c) ==
  /\ stage[c] = "reopenWait" /\ sess[on[c]].reopenMu = NoCaller
  /\ GoTo(c, "crashed") /\ sess' = [sess EXCEPT ![on[c]].reopenMu = c]
  /\ UNCHANGED <<posture, verified, current, used, bindMu, procVars, leases, shut, overlap>>

\* Under reopenMu the crash mark is read again.
LockReopen(c) ==
  /\ stage[c] = "reopenWait" /\ sess[on[c]].reopenMu = NoCaller
  /\ IF sess[on[c]].crashed
     THEN GoTo(c, "crashed") /\ sess' = [sess EXCEPT ![on[c]].reopenMu = c]
     ELSE Leave(c) /\ UNCHANGED sess
  /\ UNCHANGED <<posture, verified, current, used, bindMu, procVars, leases, shut, overlap>>

-----------------------------------------------------------------------------
(* The adapter process, external to the host.                              *)

\* The process dies; the loader's table keeps it until Kill.
ProcessDies(p) ==
  /\ p \in running
  /\ running' = running \ {p}
  /\ UNCHANGED <<posture, sessionVars, bindMu, active, started, leases, callerVars, shut, overlap>>

\* The log stream is up and no heartbeat arrives within the threshold.
HeartbeatStalls ==
  /\ current # 0 /\ ~sess[current].silent
  /\ sess' = [sess EXCEPT ![current].silent = TRUE]
  /\ UNCHANGED <<posture, verified, current, used, bindMu, procVars, leases, callerVars, shut, overlap>>

Next ==
  \/ Verify \/ Restore \/ Close \/ Shutdown \/ HeartbeatStalls
  \/ \E b \in Branches : LeaseToolResources(b) \/ ReleaseSharedToolResources(b)
  \/ \E p \in Procs : ProcessDies(p)
  \/ \E c \in Callers :
       \/ Call(c, "execute") \/ Call(c, "prompt")
       \/ (current # 0 /\ Call(c, "reopen"))
       \/ LockBind(c) \/ BindProcess(c) \/ RegisterSession(c) \/ FinishBind(c)
       \/ Prompt(c) \/ AcquireExecuteTurn(c) \/ TakeTurn(c) \/ AbandonTurn(c)
       \/ ExecuteReturns(c) \/ ExecuteCrashes(c) \/ StallCrash(c)
       \/ RespawnKills(c) \/ RespawnStarts(c) \/ RespawnInstalls(c) \/ Retry(c)
       \/ Reopen(c) \/ LockReopen(c)

Spec == Init /\ [][Next]_vars

-----------------------------------------------------------------------------
(* Properties.                                                             *)

TypeOK ==
  /\ posture \in Postures
  /\ verified \in BOOLEAN /\ current \in 0 .. used /\ used \in 0 .. MaxSessions
  /\ sess \in [Sessions -> [handle : 0 .. MaxProcs, crashed : BOOLEAN, gated : BOOLEAN,
                            free : BOOLEAN, silent : BOOLEAN,
                            reopenMu : Callers \cup {NoCaller}, by : Installers]]
  /\ bindMu \in Callers \cup {NoCaller}
  /\ running \subseteq Procs /\ active \subseteq Procs /\ started \in 0 .. MaxProcs
  /\ leases \subseteq Branches
  /\ stage \in [Callers -> Stages]
  /\ op \in [Callers -> {"execute", "prompt", "reopen"}]
  /\ on \in [Callers -> 0 .. MaxSessions] /\ proc \in [Callers -> 0 .. MaxProcs]
  /\ turn \in [Callers -> BOOLEAN] /\ stalled \in [Callers -> BOOLEAN]
  /\ shut \in BOOLEAN /\ overlap \in BOOLEAN

\* The one execute turn of a session is never lost and never doubled: it lies
\* in the channel or one caller has it, through queueing, cancellation, crash,
\* respawn and retry (acquireExecuteTurn, releaseExecuteTurn).
TurnConserved ==
  \A s \in 1 .. used :
    LET holders == {c \in Callers : turn[c] /\ on[c] = s}
    IN  Cardinality(holders) = IF sess[s].free THEN 0 ELSE 1

Executing(s) == {c \in Callers : on[c] = s /\ stage[c] \in {"running", "retrying"}}

\* A session without the concurrent capabilities executes one call at a time,
\* except for callers that came in through the heartbeat check, which is made
\* before the turn (execute, sessions.go:2953).
SerialExecution ==
  \A s \in 1 .. used :
    Gated(s) => Cardinality({c \in Executing(s) : ~stalled[c]}) <= 1

\* Once every caller has returned, the only process left is the handle of the
\* registered session: no bind, crash, respawn, re-open or Close leaves one
\* behind, as long as no two respawns of the session overlapped.
NoOrphanProcess ==
  AllIdle /\ ~overlap =>
    running \subseteq {IF current # 0 THEN sess[current].handle ELSE 0}

\* The first re-open that succeeds wins: a re-open never kills a process that
\* an open or another re-open put there and that no crash has been marked on
\* since, however many callers saw the crash and whatever on_crash the steps
\* carry (ReopenCrashedSession reads the crash mark again under reopenMu).  A
\* respawn of a crashed execute takes no reopenMu, so a process installed by one
\* may be killed.
ReopenSparesHealthy ==
  [][\A c \in Callers :
       op[c] = "reopen" /\ stage[c] = "crashed" /\ stage'[c] = "respawning"
         => sess[on[c]].crashed \/ sess[on[c]].by = "execute"]_vars

\* One crash never leads to several replacement processes in a parallel
\* fan-out (the comment of Session.reopenMu).
NoOverlappingRespawns == ~overlap
=============================================================================
