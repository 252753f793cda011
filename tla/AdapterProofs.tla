---------------------------- MODULE AdapterProofs ----------------------------
(***************************************************************************)
(* Proofs about AdapterSessions and, in the second part, about ToolCalls:  *)
(* the sessions of the host and the executes that call each other there.   *)
(*                                                                         *)
(* AdapterSessions, for any callers, branches, sessions and processes.     *)
(* Whoever works on a session works on the registered one,                 *)
(* because a scope is closed only when every caller has returned.  The     *)
(* turn of that session is in its channel or in the hands of one caller;   *)
(* a re-open holds reopenMu from its look at the crash mark until the      *)
(* replacement is installed; and a process that answers is the handle of   *)
(* the session or in the hands of the caller that started it, because a    *)
(* respawn kills the handle before it starts the next one.                 *)
(***************************************************************************)
EXTENDS AdapterSessions, ToolCalls, FiniteSetTheorems, WellFoundedInduction, TLAPS

SessionType ==
  [handle : 0 .. MaxProcs, crashed : BOOLEAN, gated : BOOLEAN, free : BOOLEAN,
   silent : BOOLEAN, reopenMu : Callers \cup {NoCaller}, by : Installers]

Shape ==
  /\ current \in 0 .. MaxSessions /\ used \in 0 .. MaxSessions /\ current <= used
  /\ sess \in [Sessions -> SessionType]
  /\ running \subseteq Procs /\ started \in 0 .. MaxProcs
  /\ overlap \in BOOLEAN

CallerShape ==
  /\ stage \in [Callers -> Stages]
  /\ op \in [Callers -> {"execute", "prompt", "reopen"}]
  /\ on \in [Callers -> 0 .. MaxSessions] /\ proc \in [Callers -> 0 .. MaxProcs]
  /\ turn \in [Callers -> BOOLEAN] /\ stalled \in [Callers -> BOOLEAN]

\* Process numbers are given out in order.
NumberInv ==
  /\ \A p \in running : p <= started
  /\ \A s \in Sessions : sess[s].handle <= started

ProcInv ==
  \A c \in Callers : stage[c] \in {"registering", "installing"} => proc[c] <= started

\* Stages without a session, and stages of a crash that is being repaired.
Early     == {"idle", "unbound", "spawning", "registering", "bound"}
Repairing == {"crashed", "respawning", "installing"}
Replacing == {"respawning", "installing"}

\* Where one caller is, and what it holds there.  Under reopenMu a re-open finds the
\* crash mark, or the work of an execute that respawned without the mutex.
CallerInv(c) ==
  /\ stage[c] \in Early => on[c] = 0
  /\ stage[c] \notin Early => on[c] = current /\ current # 0
  /\ turn[c] => /\ stage[c] \in Repairing \cup {"running", "retrying"}
                /\ op[c] = "execute" /\ ~sess[on[c]].free
  /\ stage[c] \in {"queued", "running", "retrying"} => op[c] = "execute"
  /\ stage[c] = "reopenWait" => op[c] = "reopen"
  /\ stage[c] \in Repairing => op[c] \in {"reopen", "execute"}
  /\ /\ op[c] = "execute" /\ stage[c] \in Repairing \cup {"running", "retrying"}
     /\ ~stalled[c] /\ Gated(on[c])
     => turn[c]
  /\ op[c] = "reopen" /\ stage[c] \in Repairing => sess[on[c]].reopenMu = c
  /\ op[c] = "reopen" /\ stage[c] = "crashed" =>
       sess[on[c]].crashed \/ sess[on[c]].by = "execute"

\* The turn that is not in the channel is with exactly one caller.
TurnInv ==
  /\ \A c, d \in Callers : turn[c] /\ turn[d] => c = d
  /\ \A s \in 1 .. used : ~sess[s].free => \E c \in Callers : turn[c] /\ on[c] = s

Handed(c, p) == stage[c] \in {"registering", "installing"} /\ proc[c] = p

\* Who answers for a running process while respawns do not overlap.
OwnerInv ==
  ~overlap =>
    /\ \A p \in running : \/ current # 0 /\ p = sess[current].handle
                          \/ \E c \in Callers : Handed(c, p)
    /\ \A c \in Callers : stage[c] \in Replacing => sess[current].handle \notin running
    /\ \A c, d \in Callers : stage[c] \in Replacing /\ stage[d] \in Replacing => c = d

IInv ==
  /\ Shape /\ CallerShape /\ NumberInv /\ ProcInv
  /\ \A c \in Callers : CallerInv(c)
  /\ TurnInv /\ OwnerInv

-----------------------------------------------------------------------------
(* Moves of one caller.                                                    *)

Others(c) ==
  \A d \in Callers : d # c =>
    /\ stage'[d] = stage[d] /\ op'[d] = op[d] /\ on'[d] = on[d]
    /\ proc'[d] = proc[d] /\ turn'[d] = turn[d] /\ stalled'[d] = stalled[d]

\* Bounds and stages.
LEMMA ConstFacts ==
  /\ MaxSessions \in Nat /\ MaxProcs \in Nat
  /\ Sessions = 1 .. MaxSessions /\ Procs = 1 .. MaxProcs
  /\ 0 \in 0 .. MaxSessions /\ 0 \in 0 .. MaxProcs
  /\ \A s \in 0 .. MaxSessions : s # 0 => s \in Sessions
  /\ NoCaller \notin Callers
BY BoundsAssumption, NoCallerAssumption DEF Sessions, Procs

\* A caller that returns holds nothing.
LEMMA LeaveFacts ==
  ASSUME CallerShape, NEW c \in Callers, Leave(c)
  PROVE  /\ CallerShape' /\ Others(c)
         /\ stage'[c] = "idle" /\ on'[c] = 0 /\ ~turn'[c] /\ op'[c] = op[c]
<1>1. CallerShape'
  BY ConstFacts DEF CallerShape, Leave, Stages
<1>2. Others(c)
  BY DEF CallerShape, Leave, Others
<1>3. stage'[c] = "idle" /\ on'[c] = 0 /\ ~turn'[c] /\ op'[c] = op[c]
  BY DEF CallerShape, Leave
<1> QED
  BY <1>1, <1>2, <1>3

\* A caller that only changes its stage.
LEMMA GoToFacts ==
  ASSUME CallerShape, NEW c \in Callers, NEW w \in Stages, GoTo(c, w)
  PROVE  /\ CallerShape' /\ Others(c)
         /\ stage'[c] = w /\ on'[c] = on[c] /\ turn'[c] = turn[c] /\ op'[c] = op[c]
         /\ proc'[c] = proc[c] /\ stalled'[c] = stalled[c]
<1>1. CallerShape'
  BY DEF CallerShape, GoTo
<1>2. Others(c)
  BY DEF CallerShape, GoTo, Others
<1> QED
  BY <1>1, <1>2 DEF CallerShape, GoTo

\* A caller that has found its session.
LEMMA GoToSessionFacts ==
  ASSUME CallerShape, NEW c \in Callers, NEW w \in Stages, NEW s \in 0 .. MaxSessions,
         GoToSession(c, w, s)
  PROVE  /\ CallerShape' /\ Others(c)
         /\ stage'[c] = w /\ on'[c] = s /\ turn'[c] = turn[c] /\ op'[c] = op[c]
<1>1. CallerShape'
  BY ConstFacts DEF CallerShape, GoToSession
<1>2. Others(c)
  BY DEF CallerShape, GoToSession, Others
<1> QED
  BY <1>1, <1>2 DEF CallerShape, GoToSession

\* A caller that starts to execute.
LEMMA RunFacts ==
  ASSUME CallerShape, NEW c \in Callers, NEW s \in Sessions, NEW t \in BOOLEAN,
         sess \in [Sessions -> SessionType], Run(c, s, t)
  PROVE  /\ CallerShape' /\ Others(c)
         /\ stage'[c] = "running" /\ on'[c] = on[c] /\ turn'[c] = t /\ op'[c] = op[c]
         /\ stalled'[c] = stalled[c]
<1>0. sess[s].handle \in 0 .. MaxProcs /\ "running" \in Stages
  BY DEF SessionType, Stages
<1>1. CallerShape'
  BY <1>0 DEF CallerShape, Run
<1>2. Others(c)
  BY DEF CallerShape, Run, Others
<1> QED
  BY <1>1, <1>2 DEF CallerShape, Run

\* A caller that has a process to show for its start.
LEMMA StartedFacts ==
  ASSUME CallerShape, NEW c \in Callers, NEW w \in Stages, NEW p \in Procs,
         stage' = [stage EXCEPT ![c] = w], proc' = [proc EXCEPT ![c] = p],
         UNCHANGED <<op, on, turn, stalled>>
  PROVE  /\ CallerShape' /\ Others(c)
         /\ stage'[c] = w /\ on'[c] = on[c] /\ turn'[c] = turn[c] /\ op'[c] = op[c]
         /\ proc'[c] = p /\ stalled'[c] = stalled[c]
<1>0. p \in 0 .. MaxProcs
  BY ConstFacts
<1>1. CallerShape'
  BY <1>0 DEF CallerShape
<1>2. Others(c)
  BY DEF CallerShape, Others
<1> QED
  BY <1>1, <1>2 DEF CallerShape

\* A caller past the look-up works on the registered session.
LEMMA OnCurrent ==
  ASSUME IInv, NEW c \in Callers, stage[c] \notin Early
  PROVE  /\ on[c] = current /\ current # 0 /\ current \in Sessions
         /\ sess[current] \in SessionType /\ current \in 1 .. used
<1>1. on[c] = current /\ current # 0
  BY DEF IInv, CallerInv
<1>2. current \in Sessions
  BY <1>1, ConstFacts DEF IInv, Shape
<1>3. sess[current] \in SessionType
  BY <1>2 DEF IInv, Shape
<1>4. current \in 1 .. used
  BY <1>1, ConstFacts DEF IInv, Shape
<1> QED
  BY <1>1, <1>2, <1>3, <1>4

-----------------------------------------------------------------------------
(* Steps of one caller: everybody else and the turn.                       *)

\* The session table and the turns are left alone.
LEMMA QuietStep ==
  ASSUME IInv, NEW c \in Callers, Others(c),
         UNCHANGED <<posture, current, used, sess>>,
         CallerInv(c)', turn'[c] = turn[c], turn[c] => on'[c] = on[c]
  PROVE  (\A d \in Callers : CallerInv(d)') /\ TurnInv'
<1>1. ASSUME NEW d \in Callers, d # c PROVE CallerInv(d)'
  <2>1. /\ stage'[d] = stage[d] /\ op'[d] = op[d] /\ on'[d] = on[d]
        /\ turn'[d] = turn[d] /\ stalled'[d] = stalled[d]
    BY <1>1 DEF Others
  <2>2. CallerInv(d)
    BY DEF IInv
  <2> QED
    BY <2>1, <2>2 DEF CallerInv, Gated
<1>2. \A d \in Callers : turn'[d] = turn[d] /\ (turn[d] => on'[d] = on[d])
  BY DEF Others
<1>3. TurnInv'
  BY <1>2 DEF IInv, TurnInv
<1> QED
  BY <1>1, <1>3

\* A step on the registered session that keeps what others hold of it.
LEMMA SessionStep ==
  ASSUME IInv, NEW c \in Callers, Others(c), stage[c] \notin Early,
         UNCHANGED <<posture, current, used>>,
         NEW v \in SessionType, sess' = [sess EXCEPT ![current] = v],
         v.gated = sess[current].gated,
         CallerInv(c)',
         \/ turn'[c] = turn[c] /\ v.free = sess[current].free /\ (turn[c] => on'[c] = on[c])
         \/ sess[current].free /\ turn'[c] /\ ~v.free /\ on'[c] = current
         \/ turn[c] /\ ~turn'[c] /\ v.free,
         \A d \in Callers : d # c /\ sess[current].reopenMu = d => v.reopenMu = d,
         \/ v.crashed \/ v.by = "execute" \/ sess[current].reopenMu = c
         \/ v.crashed = sess[current].crashed /\ v.by = sess[current].by
  PROVE  (\A d \in Callers : CallerInv(d)') /\ TurnInv'
<1>0. /\ on[c] = current /\ current # 0 /\ current \in Sessions /\ current \in 1 .. used
      /\ sess[current] \in SessionType
  BY OnCurrent
<1>1. sess'[current] = v /\ \A s \in Sessions : s # current => sess'[s] = sess[s]
  BY <1>0 DEF IInv, Shape
<1>2. \A d, e \in Callers : turn[d] /\ turn[e] => d = e
  BY DEF IInv, TurnInv
<1>3. \A d \in Callers : turn[d] => on[d] = current /\ ~sess[current].free
  <2> SUFFICES ASSUME NEW d \in Callers, turn[d]
               PROVE  on[d] = current /\ ~sess[current].free
    OBVIOUS
  <2>1. stage[d] \notin Early /\ ~sess[on[d]].free
    BY DEF IInv, CallerInv, Early, Repairing
  <2> QED
    BY <2>1, OnCurrent
<1>4. ASSUME NEW d \in Callers, d # c PROVE CallerInv(d)'
  <2>1. /\ stage'[d] = stage[d] /\ op'[d] = op[d] /\ on'[d] = on[d]
        /\ turn'[d] = turn[d] /\ stalled'[d] = stalled[d]
    BY <1>4 DEF Others
  <2>2. CallerInv(d)
    BY DEF IInv
  <2>3. CASE stage[d] \in Early
    <3>1. ~turn[d]
      BY <2>2, <2>3 DEF CallerInv, Early, Repairing
    <3> QED
      BY <2>1, <2>2, <2>3, <3>1 DEF CallerInv, Early, Repairing
  <2>4. CASE stage[d] \notin Early
    <3>1. on[d] = current
      BY <2>4, OnCurrent
    <3>2. turn[d] => ~v.free
      BY <1>2, <1>3, <1>4
    <3>3. Gated(current)' <=> Gated(current)
      BY <1>1 DEF Gated
    <3>4. op[d] = "reopen" /\ stage[d] \in Repairing => v.reopenMu = d
      BY <1>4, <2>2, <3>1 DEF CallerInv
    <3>5. op[d] = "reopen" /\ stage[d] = "crashed" => v.crashed \/ v.by = "execute"
      BY <1>4, <2>2, <3>1 DEF CallerInv, Repairing
    <3>6. sess'[on'[d]] = v
      BY <1>1, <2>1, <3>1
    <3>7. Gated(on[d])' <=> Gated(on[d])
      BY <2>1, <3>1, <3>3 DEF Gated
    <3> QED
      BY <2>1, <2>2, <3>2, <3>4, <3>5, <3>6, <3>7 DEF CallerInv
  <2> QED
    BY <2>3, <2>4
<1>5. TurnInv'
  <2>1. \A d \in Callers : d # c => turn'[d] = turn[d] /\ on'[d] = on[d]
    BY DEF Others
  <2>2. \A d, e \in Callers : turn'[d] /\ turn'[e] => d = e
    BY <1>2, <1>3, <2>1
  <2>3. ASSUME NEW s \in 1 .. used, ~sess'[s].free
        PROVE  \E d \in Callers : turn'[d] /\ on'[d] = s
    <3>1. s \in Sessions
      BY ConstFacts DEF IInv, Shape
    <3>2. CASE s # current
      <4>1. ~sess[s].free
        BY <1>1, <2>3, <3>1, <3>2
      <4>2. PICK d \in Callers : turn[d] /\ on[d] = s
        BY <4>1 DEF IInv, TurnInv
      <4> QED
        BY <1>3, <3>2, <4>2
    <3>3. CASE s = current
      <4>1. ~v.free
        BY <1>1, <2>3, <3>3
      <4>2. CASE turn'[c] = turn[c] /\ v.free = sess[current].free
                   /\ (turn[c] => on'[c] = on[c])
        <5>1. PICK d \in Callers : turn[d] /\ on[d] = s
          BY <3>3, <4>1, <4>2 DEF IInv, TurnInv
        <5> QED
          BY <2>1, <4>2, <5>1
      <4>3. CASE turn'[c] /\ on'[c] = current
        BY <3>3, <4>3
      <4> QED
        BY <4>1, <4>2, <4>3
    <3> QED
      BY <3>2, <3>3
  <2> QED
    BY <2>2, <2>3 DEF TurnInv
<1> QED
  BY <1>4, <1>5

\* Processes, for a caller that starts none, installs none and waits for none.
LEMMA OwnerCalm ==
  ASSUME IInv, NEW c \in Callers, Others(c), current' = current,
         current # 0 => sess'[current].handle = sess[current].handle,
         running' \subseteq running, overlap => overlap',
         stage[c] \in {"registering", "installing"} => proc[c] \notin running',
         stage'[c] \notin Replacing
  PROVE  OwnerInv'
<1> SUFFICES ASSUME ~overlap'
             PROVE  /\ \A p \in running' : \/ current' # 0 /\ p = sess'[current'].handle
                                           \/ \E d \in Callers : Handed(d, p)'
                    /\ \A d \in Callers : stage'[d] \in Replacing =>
                         sess'[current'].handle \notin running'
                    /\ \A d, e \in Callers :
                         stage'[d] \in Replacing /\ stage'[e] \in Replacing => d = e
  BY DEF OwnerInv
<1>0. ~overlap
  OBVIOUS
<1>1. ASSUME NEW p \in running'
      PROVE  (current # 0 /\ p = sess[current].handle) \/ \E d \in Callers : Handed(d, p)'
  <2>1. (current # 0 /\ p = sess[current].handle) \/ \E d \in Callers : Handed(d, p)
    BY <1>0, <1>1 DEF IInv, OwnerInv
  <2>2. ASSUME NEW d \in Callers, Handed(d, p) PROVE Handed(d, p)'
    <3>1. d # c
      BY <1>1, <2>2 DEF Handed
    <3> QED
      BY <2>2, <3>1 DEF Handed, Others
  <2> QED
    BY <2>1, <2>2
<1>2. \A d \in Callers : stage'[d] \in Replacing => d # c /\ stage[d] \in Replacing
  BY DEF Others
<1>3. ASSUME NEW d \in Callers, stage'[d] \in Replacing
      PROVE  sess[current].handle \notin running' /\ current # 0
  <2>1. stage[d] \in Replacing
    BY <1>2, <1>3
  <2>2. current # 0
    BY <2>1, OnCurrent DEF Replacing, Early
  <2> QED
    BY <1>0, <2>1, <2>2 DEF IInv, OwnerInv
<1>4. \A d, e \in Callers : stage'[d] \in Replacing /\ stage'[e] \in Replacing => d = e
  BY <1>0, <1>2 DEF IInv, OwnerInv
<1> QED
  BY <1>1, <1>3, <1>4

\* The processes in hand are numbered below the next one.
LEMMA ProcStep ==
  ASSUME IInv, NEW c \in Callers, Others(c),
         \A q \in 0 .. MaxProcs : q <= started => q <= started',
         stage'[c] \in {"registering", "installing"} => proc'[c] <= started'
  PROVE  ProcInv'
<1>1. \A d \in Callers : proc[d] \in 0 .. MaxProcs
  BY DEF IInv, CallerShape
<1> QED
  BY <1>1 DEF IInv, ProcInv, Others

\* No process starts.
LEMMA ProcSame ==
  ASSUME IInv, NEW c \in Callers, Others(c), started' = started,
         stage'[c] \notin {"registering", "installing"}
  PROVE  ProcInv'
BY DEF IInv, ProcInv, Others

\* A step of one caller that touches neither sessions nor processes.
LEMMA CalmCaller ==
  ASSUME IInv, NEW c \in Callers, Others(c), CallerShape',
         UNCHANGED <<posture, current, used, sess, running, started, overlap>>,
         CallerInv(c)', turn'[c] = turn[c], turn[c] => on'[c] = on[c],
         stage[c] \notin {"registering", "installing"}, stage'[c] \notin Replacing \cup {"registering"}
  PROVE  IInv'
<1>1. Shape' /\ NumberInv'
  BY DEF IInv, Shape, NumberInv
<1>2. (\A d \in Callers : CallerInv(d)') /\ TurnInv'
  BY QuietStep
<1>3. OwnerInv'
  BY OwnerCalm
<1>4. ProcInv'
  BY ProcSame DEF Replacing
<1> QED
  BY <1>1, <1>2, <1>3, <1>4 DEF IInv

\* The record of the registered session is replaced.
LEMMA SessFacts ==
  ASSUME IInv, current # 0, NEW v \in SessionType, sess' = [sess EXCEPT ![current] = v],
         UNCHANGED <<current, used>>, v.handle <= started
  PROVE  /\ sess' \in [Sessions -> SessionType] /\ sess'[current] = v
         /\ \A s \in Sessions : sess'[s].handle <= started
<1>1. current \in Sessions /\ sess \in [Sessions -> SessionType]
  BY ConstFacts DEF IInv, Shape
<1> QED
  BY <1>1 DEF IInv, NumberInv

\* A step of one caller on its session that touches no process.
LEMMA CallerOnSession ==
  ASSUME IInv, NEW c \in Callers, Others(c), CallerShape', stage[c] \notin Early,
         UNCHANGED <<posture, current, used, running, started, overlap>>,
         NEW v \in SessionType, sess' = [sess EXCEPT ![current] = v],
         v.gated = sess[current].gated, v.handle = sess[current].handle,
         sess'[current] = v => CallerInv(c)',
         \/ turn'[c] = turn[c] /\ v.free = sess[current].free /\ (turn[c] => on'[c] = on[c])
         \/ sess[current].free /\ turn'[c] /\ ~v.free /\ on'[c] = current
         \/ turn[c] /\ ~turn'[c] /\ v.free,
         \A d \in Callers : d # c /\ sess[current].reopenMu = d => v.reopenMu = d,
         v.crashed \/ (v.crashed = sess[current].crashed /\ v.by = sess[current].by),
         stage[c] # "installing", stage'[c] \notin Replacing \cup {"registering"}
  PROVE  IInv'
<1>0. current # 0 /\ current \in Sessions
  BY OnCurrent
<1>1. v.handle <= started
  BY <1>0 DEF IInv, NumberInv
<1>2. /\ sess' \in [Sessions -> SessionType] /\ sess'[current] = v
      /\ \A s \in Sessions : sess'[s].handle <= started
  BY <1>0, <1>1, SessFacts
<1>3. Shape' /\ NumberInv'
  BY <1>2 DEF IInv, Shape, NumberInv
<1>4. CallerInv(c)'
  BY <1>2
<1>5. (\A d \in Callers : CallerInv(d)') /\ TurnInv'
  BY <1>4, SessionStep
<1>6. stage[c] \notin {"registering", "installing"}
  BY DEF Early
<1>7. OwnerInv'
  BY <1>2, <1>6, OwnerCalm
<1>8. ProcInv'
  BY ProcSame DEF Replacing
<1> QED
  BY <1>3, <1>5, <1>7, <1>8 DEF IInv

\* A caller that has returned keeps no promise.
LEMMA IdleInv ==
  ASSUME NEW c \in Callers, stage'[c] = "idle", on'[c] = 0, ~turn'[c]
  PROVE  CallerInv(c)'
BY DEF CallerInv, Early, Repairing

\* The parts of the invariant that every caller step starts from.
LEMMA Parts ==
  ASSUME IInv, NEW c \in Callers
  PROVE  /\ CallerShape /\ Shape /\ CallerInv(c)
         /\ sess \in [Sessions -> SessionType] /\ current \in 0 .. MaxSessions
         /\ op[c] \in {"execute", "prompt", "reopen"}
BY DEF IInv, Shape, CallerShape

-----------------------------------------------------------------------------
(* Finding or making the session.                                          *)

\* A call starts with a look at the table.
LEMMA CallHolds ==
  ASSUME IInv, NEW c \in Callers, NEW w \in {"execute", "prompt", "reopen"}, Call(c, w)
  PROVE  IInv'
<1>0. /\ CallerShape /\ Shape /\ CallerInv(c) /\ current \in 0 .. MaxSessions
  BY Parts
<1>1. /\ stage[c] = "idle"
      /\ UNCHANGED <<posture, current, used, sess, running, started, overlap>>
      /\ op' = [op EXCEPT ![c] = w] /\ on' = [on EXCEPT ![c] = current]
      /\ stage' = [stage EXCEPT ![c] = IF current # 0 THEN "session" ELSE "unbound"]
      /\ UNCHANGED <<proc, turn, stalled>>
  BY DEF Call, sessionVars, procVars
<1>2. CallerShape' /\ Others(c)
  <2>1. CallerShape'
    BY <1>0, <1>1 DEF CallerShape, Stages
  <2>2. Others(c)
    BY <1>0, <1>1 DEF CallerShape, Others
  <2> QED
    BY <2>1, <2>2
<1>3. /\ stage'[c] = (IF current # 0 THEN "session" ELSE "unbound") /\ on'[c] = current
      /\ turn'[c] = turn[c]
  BY <1>0, <1>1 DEF CallerShape
<1>4. ~turn[c]
  BY <1>0, <1>1 DEF CallerInv, Repairing
<1>5. CallerInv(c)'
  BY <1>1, <1>3, <1>4 DEF CallerInv, Early, Repairing
<1> QED
  BY <1>1, <1>2, <1>3, <1>4, <1>5, CalmCaller DEF Replacing

\* A second look under bindMu.
LEMMA LockBindHolds ==
  ASSUME IInv, NEW c \in Callers, LockBind(c) PROVE IInv'
<1>0. /\ CallerShape /\ CallerInv(c) /\ current \in 0 .. MaxSessions
  BY Parts
<1>1. /\ stage[c] = "unbound"
      /\ UNCHANGED <<posture, current, used, sess, running, started, overlap>>
  BY DEF LockBind, sessionVars, procVars
<1>2. ~turn[c] /\ on[c] = 0
  BY <1>0, <1>1 DEF CallerInv, Repairing, Early
<1>3. CASE current # 0 /\ GoToSession(c, "session", current)
  <2>1. /\ CallerShape' /\ Others(c)
        /\ stage'[c] = "session" /\ on'[c] = current /\ turn'[c] = turn[c]
    BY <1>0, <1>3, GoToSessionFacts DEF Stages
  <2>2. CallerInv(c)'
    BY <1>1, <1>2, <1>3, <2>1 DEF CallerInv, Early, Repairing
  <2> QED
    BY <1>1, <1>2, <2>1, <2>2, CalmCaller DEF Replacing
<1>4. CASE Leave(c)
  <2>1. CallerShape' /\ Others(c) /\ stage'[c] = "idle" /\ on'[c] = 0 /\ ~turn'[c]
    BY <1>0, <1>4, LeaveFacts
  <2>2. CallerInv(c)' /\ turn'[c] = turn[c]
    <3>1. turn[c] \in BOOLEAN /\ turn'[c] \in BOOLEAN
      BY <1>0, <2>1 DEF CallerShape
    <3> QED
      BY <1>2, <2>1, <3>1, IdleInv
  <2> QED
    BY <1>1, <1>2, <2>1, <2>2, CalmCaller DEF Replacing
<1>5. CASE GoTo(c, "spawning")
  <2>1. /\ CallerShape' /\ Others(c)
        /\ stage'[c] = "spawning" /\ on'[c] = on[c] /\ turn'[c] = turn[c]
    BY <1>0, <1>5, GoToFacts DEF Stages
  <2>2. CallerInv(c)'
    BY <1>1, <1>2, <2>1 DEF CallerInv, Early, Repairing
  <2> QED
    BY <1>1, <1>2, <2>1, <2>2, CalmCaller DEF Replacing
<1> QED
  BY <1>3, <1>4, <1>5 DEF LockBind

\* The number of a new process is in no one's hands.
LEMMA StartFacts ==
  ASSUME IInv, NEW p \in Procs, StartProcess(p)
  PROVE  /\ started' = p /\ running' = running \cup {p} /\ p \notin running
         /\ started' \in 0 .. MaxProcs /\ running' \subseteq Procs
         /\ \A q \in running' : q <= started'
         /\ \A s \in Sessions : sess[s].handle <= started' /\ sess[s].handle # p
         /\ \A q \in 0 .. MaxProcs : q <= started => q <= started'
         /\ p <= started' /\ p \in 0 .. MaxProcs
<1>1. p = started + 1 /\ started' = p /\ running' = running \cup {p}
  BY DEF StartProcess
<1>2. started \in Nat /\ p \in Nat /\ started <= p /\ ~(p <= started) /\ p <= p
      /\ \A q \in Nat : q <= started => q <= p
  BY <1>1, ConstFacts DEF IInv, Shape
<1>3. \A q \in running : q \in Nat /\ q <= started
  BY ConstFacts DEF IInv, Shape, NumberInv
<1>4. \A s \in Sessions : sess[s].handle \in Nat /\ sess[s].handle <= started
  <2>1. \A s \in Sessions : sess[s].handle \in 0 .. MaxProcs
    BY DEF IInv, Shape, SessionType
  <2> QED
    BY <2>1, ConstFacts DEF IInv, NumberInv
<1>5. p \in 0 .. MaxProcs /\ running \subseteq Procs
  BY ConstFacts DEF IInv, Shape
<1>6. \A q \in 0 .. MaxProcs : q \in Nat
  BY ConstFacts
<1> QED
  BY <1>1, <1>2, <1>3, <1>4, <1>5, <1>6

\* A process that starts is in the hands of the caller that started it, whether
\* it binds or respawns.
LEMMA StartedHolds ==
  ASSUME IInv, NEW c \in Callers, NEW p \in Procs, StartProcess(p),
         UNCHANGED <<posture, current, used, sess, overlap>>,
         \/ stage[c] = "spawning" /\ stage' = [stage EXCEPT ![c] = "registering"]
         \/ stage[c] = "respawning" /\ stage' = [stage EXCEPT ![c] = "installing"],
         proc' = [proc EXCEPT ![c] = p], UNCHANGED <<op, on, turn, stalled>>
  PROVE  IInv'
<1>0. CallerShape /\ CallerInv(c)
  BY Parts
<1>1. /\ started' = p /\ running' = running \cup {p} /\ p \notin running
      /\ started' \in 0 .. MaxProcs /\ running' \subseteq Procs
      /\ \A q \in running' : q <= started'
      /\ \A s \in Sessions : sess[s].handle <= started' /\ sess[s].handle # p
      /\ \A q \in 0 .. MaxProcs : q <= started => q <= started'
      /\ p <= started'
  BY StartFacts
<1>2. Shape' /\ NumberInv'
  BY <1>1 DEF IInv, Shape, NumberInv
<1>3. /\ CallerShape' /\ Others(c)
      /\ \/ stage[c] = "spawning" /\ stage'[c] = "registering"
         \/ stage[c] = "respawning" /\ stage'[c] = "installing"
      /\ on'[c] = on[c] /\ turn'[c] = turn[c] /\ op'[c] = op[c]
      /\ proc'[c] = p /\ stalled'[c] = stalled[c]
  <2>1. PICK w \in {"registering", "installing"} :
           /\ stage' = [stage EXCEPT ![c] = w]
           /\ \/ stage[c] = "spawning" /\ w = "registering"
              \/ stage[c] = "respawning" /\ w = "installing"
    OBVIOUS
  <2>2. w \in Stages
    BY DEF Stages
  <2> QED
    BY <1>0, <2>1, <2>2, StartedFacts
<1>4. CallerInv(c)'
  BY <1>0, <1>3 DEF CallerInv, Early, Repairing, Gated
<1>5. (\A d \in Callers : CallerInv(d)') /\ TurnInv'
  BY <1>3, <1>4, QuietStep
<1>6. OwnerInv'
  <2> SUFFICES ASSUME ~overlap'
               PROVE  /\ \A q \in running' : \/ current' # 0 /\ q = sess'[current'].handle
                                             \/ \E d \in Callers : Handed(d, q)'
                      /\ \A d \in Callers : stage'[d] \in Replacing =>
                           sess'[current'].handle \notin running'
                      /\ \A d, e \in Callers :
                           stage'[d] \in Replacing /\ stage'[e] \in Replacing => d = e
    BY DEF OwnerInv
  <2>1. /\ \A q \in running : \/ current # 0 /\ q = sess[current].handle
                              \/ \E d \in Callers : Handed(d, q)
        /\ \A d \in Callers : stage[d] \in Replacing => sess[current].handle \notin running
        /\ \A d, e \in Callers : stage[d] \in Replacing /\ stage[e] \in Replacing => d = e
    BY DEF IInv, OwnerInv
  <2>2. ~\E q : Handed(c, q)
    BY <1>3 DEF Handed
  <2>3. \A d \in Callers, q \in running : Handed(d, q) => Handed(d, q)'
    BY <1>3, <2>2 DEF Handed, Others
  <2>4. Handed(c, p)'
    BY <1>3 DEF Handed
  <2>5. \A d \in Callers : stage'[d] \in Replacing => stage[d] \in Replacing
    BY <1>3 DEF Others, Replacing
  <2>6. \A d \in Callers : stage[d] \in Replacing => current \in Sessions
    BY OnCurrent DEF Replacing, Early
  <2> QED
    BY <1>1, <2>1, <2>3, <2>4, <2>5, <2>6
<1>7. ProcInv'
  BY <1>1, <1>3, ProcStep
<1> QED
  BY <1>2, <1>3, <1>5, <1>6, <1>7 DEF IInv

\* bindVerifiedRecord up to OpenSession.
LEMMA BindProcessHolds ==
  ASSUME IInv, NEW c \in Callers, BindProcess(c) PROVE IInv'
<1>0. /\ CallerShape /\ CallerInv(c) /\ stage[c] = "spawning"
      /\ UNCHANGED <<posture, current, used, sess, overlap>>
  BY Parts DEF BindProcess, sessionVars
<1>1. CASE Leave(c) /\ UNCHANGED procVars
  <2>1. CallerShape' /\ Others(c) /\ stage'[c] = "idle" /\ on'[c] = 0 /\ ~turn'[c]
    BY <1>0, <1>1, LeaveFacts
  <2>2. CallerInv(c)' /\ turn'[c] = turn[c] /\ ~turn[c]
    <3>1. turn[c] \in BOOLEAN /\ turn'[c] \in BOOLEAN
      BY <1>0, <2>1 DEF CallerShape
    <3>2. ~turn[c]
      BY <1>0 DEF CallerInv, Repairing
    <3> QED
      BY <2>1, <3>1, <3>2, IdleInv
  <2>3. running' = running /\ started' = started
    BY <1>1 DEF procVars
  <2> QED
    BY <1>0, <2>1, <2>2, <2>3, CalmCaller DEF Replacing
<1>2. ASSUME NEW p \in Procs, StartProcess(p),
             stage' = [stage EXCEPT ![c] = "registering"],
             proc' = [proc EXCEPT ![c] = p], UNCHANGED <<op, on, turn, stalled>>
      PROVE  IInv'
  BY <1>0, <1>2, StartedHolds
<1>3. \/ Leave(c) /\ UNCHANGED procVars
      \/ \E p \in Procs : /\ StartProcess(p)
                          /\ stage' = [stage EXCEPT ![c] = "registering"]
                          /\ proc' = [proc EXCEPT ![c] = p]
                          /\ UNCHANGED <<op, on, turn, stalled>>
  BY DEF BindProcess
<1> QED
  BY <1>1, <1>2, <1>3

\* A session is registered while there is none: everybody is still without one.
LEMMA RegisteredHolds ==
  ASSUME IInv, current = 0, used < MaxSessions, used' = used + 1, current' = used + 1,
         UNCHANGED <<posture, overlap>>,
         NEW p, NEW g \in BOOLEAN, sess' = [sess EXCEPT ![used + 1] = NewSession(p, g)],
         p \in 0 .. MaxProcs, p <= started', started' \in 0 .. MaxProcs,
         running' \subseteq Procs, \A q \in running' : q <= started',
         \A s \in Sessions : sess[s].handle <= started',
         CallerShape',
         \A d \in Callers : /\ stage'[d] \in Early /\ on'[d] = on[d] /\ turn'[d] = turn[d],
         ~overlap => \A q \in running' : q = p \/ \E d \in Callers : Handed(d, q)',
         ProcInv'
  PROVE  IInv'
<1> DEFINE n == used + 1
<1>0. n \in Sessions /\ n \in 0 .. MaxSessions /\ used \in Nat /\ used < n
      /\ (\A s \in 1 .. n : s # n => s \in 1 .. used)
      /\ used \in 0 .. MaxSessions /\ n <= n
  BY ConstFacts DEF IInv, Shape
<1>1. NewSession(p, g) \in SessionType
  BY DEF NewSession, SessionType, Installers
<1>2. NewSession(p, g).handle = p /\ NewSession(p, g).free
  BY DEF NewSession
<1>3. /\ sess' \in [Sessions -> SessionType] /\ sess'[n] = NewSession(p, g)
      /\ \A s \in Sessions : s # n => sess'[s] = sess[s]
  BY <1>0, <1>1 DEF IInv, Shape
<1>4. current' = n /\ used' = n
  OBVIOUS
<1>5. \A d \in Callers : stage[d] \in Early /\ on[d] = 0 /\ ~turn[d]
  BY DEF IInv, CallerInv, Early, Repairing
<1> HIDE DEF n
<1>6. Shape'
  BY <1>0, <1>3, <1>4 DEF Shape, IInv
<1>7. NumberInv'
  BY <1>2, <1>3 DEF NumberInv
<1>8. \A d \in Callers : CallerInv(d)'
  BY <1>5 DEF CallerInv, Early, Repairing
<1>9. TurnInv'
  <2>1. ASSUME NEW s \in 1 .. n PROVE sess'[s].free
    <3>1. CASE s = n
      BY <1>2, <1>3, <3>1
    <3>2. CASE s # n
      <4>1. s \in 1 .. used /\ s \in Sessions
        BY <1>0, <3>2, ConstFacts
      <4>2. sess[s].free
        BY <1>5, <4>1 DEF IInv, TurnInv
      <4> QED
        BY <1>3, <3>2, <4>1, <4>2
    <3> QED
      BY <3>1, <3>2
  <2> QED
    BY <1>4, <1>5, <2>1 DEF TurnInv
<1>10. OwnerInv'
  <2>1. n # 0
    BY <1>0
  <2>2. \A d \in Callers : stage'[d] \notin Replacing
    BY DEF Early, Replacing
  <2> QED
    BY <1>2, <1>3, <1>4, <2>1, <2>2 DEF OwnerInv
<1> QED
  BY <1>6, <1>7, <1>8, <1>9, <1>10 DEF IInv

\* registerSession: the first one is registered, a second one closes its process.
LEMMA RegisterHolds ==
  ASSUME IInv, NEW c \in Callers, RegisterSession(c) PROVE IInv'
<1>0. CallerShape /\ Shape /\ CallerInv(c) /\ stage[c] = "registering"
  BY Parts DEF RegisterSession
<1>1. ~turn[c] /\ on[c] = 0
  BY <1>0 DEF CallerInv, Repairing, Early
<1>2. UNCHANGED <<posture, started, overlap>>
  BY DEF RegisterSession
<1>3. CASE current # 0
  <2>1. Kill(proc[c]) /\ Leave(c) /\ UNCHANGED <<current, used, sess>>
    BY <1>3 DEF RegisterSession
  <2>2. CallerShape' /\ Others(c) /\ stage'[c] = "idle" /\ on'[c] = 0 /\ ~turn'[c]
    BY <1>0, <2>1, LeaveFacts
  <2>3. CallerInv(c)' /\ turn'[c] = turn[c]
    <3>1. turn[c] \in BOOLEAN /\ turn'[c] \in BOOLEAN
      BY <1>0, <2>2 DEF CallerShape
    <3> QED
      BY <1>1, <2>2, <3>1, IdleInv
  <2>4. running' = running \ {proc[c]}
    BY <2>1 DEF Kill
  <2>5. Shape' /\ NumberInv'
    BY <1>2, <2>1, <2>4 DEF IInv, Shape, NumberInv
  <2>6. (\A d \in Callers : CallerInv(d)') /\ TurnInv'
    BY <1>1, <1>2, <2>1, <2>2, <2>3, QuietStep
  <2>7. OwnerInv'
    BY <1>2, <2>1, <2>2, <2>4, OwnerCalm DEF Replacing
  <2>8. ProcInv'
    BY <1>2, <2>2, ProcSame
  <2> QED
    BY <2>2, <2>5, <2>6, <2>7, <2>8 DEF IInv
<1>4. CASE current = 0
  <2>1. /\ used < MaxSessions /\ used' = used + 1 /\ current' = used + 1
        /\ sess' = [sess EXCEPT ![used + 1] = NewSession(proc[c], TRUE)]
        /\ GoTo(c, "bound") /\ running' = running
    BY <1>4 DEF RegisterSession
  <2>2. /\ CallerShape' /\ Others(c)
        /\ stage'[c] = "bound" /\ on'[c] = on[c] /\ turn'[c] = turn[c]
    BY <1>0, <2>1, GoToFacts DEF Stages
  <2>3. \A d \in Callers : stage[d] \in Early
    BY <1>4 DEF IInv, CallerInv
  <2>4. \A d \in Callers : stage'[d] \in Early /\ on'[d] = on[d] /\ turn'[d] = turn[d]
    BY <2>2, <2>3 DEF Others, Early
  <2>5. proc[c] \in 0 .. MaxProcs /\ started \in 0 .. MaxProcs /\ running \subseteq Procs
    BY <1>0 DEF CallerShape, Shape
  <2>6. ~overlap => \A q \in running : q = proc[c] \/ \E d \in Callers : Handed(d, q)'
    <3> SUFFICES ASSUME ~overlap, NEW q \in running, q # proc[c]
                 PROVE  \E d \in Callers : Handed(d, q)'
      OBVIOUS
    <3>1. PICK d \in Callers : Handed(d, q)
      BY <1>4 DEF IInv, OwnerInv
    <3>2. d # c
      BY <3>1 DEF Handed
    <3> QED
      BY <2>2, <3>1, <3>2 DEF Handed, Others
  <2>7. proc[c] <= started
    BY <1>0 DEF IInv, ProcInv
  <2>8. (\A q \in running : q <= started) /\ (\A s \in Sessions : sess[s].handle <= started)
    BY DEF IInv, NumberInv
  <2>9. ProcInv'
    BY <1>2, <2>2, ProcSame
  <2> QED
    BY <1>2, <1>4, <2>1, <2>2, <2>4, <2>5, <2>6, <2>7, <2>8, <2>9, RegisteredHolds
<1> QED
  BY <1>3, <1>4

\* The record goes and the name is looked up once more.
LEMMA FinishBindHolds ==
  ASSUME IInv, NEW c \in Callers, FinishBind(c) PROVE IInv'
<1>0. /\ CallerShape /\ CallerInv(c) /\ current \in 0 .. MaxSessions
      /\ stage[c] = "bound"
  BY Parts DEF FinishBind
<1>1. UNCHANGED <<posture, current, used, sess, running, started, overlap>>
  BY DEF FinishBind, procVars
<1>2. ~turn[c] /\ on[c] = 0 /\ turn[c] \in BOOLEAN
  BY <1>0 DEF CallerInv, Repairing, Early, CallerShape
<1>3. CASE current # 0
  <2>0. GoToSession(c, "session", current)
    BY <1>3 DEF FinishBind
  <2>1. /\ CallerShape' /\ Others(c)
        /\ stage'[c] = "session" /\ on'[c] = current /\ turn'[c] = turn[c]
    BY <1>0, <2>0, GoToSessionFacts DEF Stages
  <2>2. CallerInv(c)'
    BY <1>1, <1>2, <1>3, <2>1 DEF CallerInv, Early, Repairing
  <2> QED
    BY <1>0, <1>1, <1>2, <2>1, <2>2, CalmCaller DEF Replacing
<1>4. CASE current = 0
  <2>1. CallerShape' /\ Others(c) /\ stage'[c] = "idle" /\ on'[c] = 0 /\ ~turn'[c]
    BY <1>0, <1>4, LeaveFacts DEF FinishBind
  <2>2. turn'[c] = turn[c]
    BY <1>2, <2>1 DEF CallerShape
  <2>3. CallerInv(c)'
    BY <2>1, IdleInv
  <2> QED
    BY <1>0, <1>1, <1>2, <2>1, <2>2, <2>3, CalmCaller DEF Replacing
<1> QED
  BY <1>3, <1>4

-----------------------------------------------------------------------------
(* Scopes, leases and the adapter process.                                 *)

\* Nothing the callers or the sessions hold changes.
LEMMA WorldCalm ==
  ASSUME IInv, UNCHANGED <<posture, current, used, callerVars, overlap>>,
         sess' \in [Sessions -> SessionType],
         \A s \in Sessions : /\ sess'[s].handle = sess[s].handle
                             /\ sess'[s].free = sess[s].free
                             /\ sess'[s].gated = sess[s].gated
                             /\ sess'[s].crashed = sess[s].crashed /\ sess'[s].by = sess[s].by
                             /\ sess'[s].reopenMu = sess[s].reopenMu,
         running' \subseteq running, started' \in 0 .. MaxProcs,
         \A q \in 0 .. MaxProcs : q <= started => q <= started'
  PROVE  IInv'
<1>0. UNCHANGED <<stage, op, on, proc, turn, stalled>>
  BY DEF callerVars
<1>1. CallerShape' /\ Shape'
  BY <1>0 DEF IInv, CallerShape, Shape
<1>2. NumberInv'
  <2>1. \A s \in Sessions : sess[s].handle \in 0 .. MaxProcs
    BY DEF IInv, Shape, SessionType
  <2>2. \A q \in running : q \in 0 .. MaxProcs
    BY ConstFacts DEF IInv, Shape
  <2> QED
    BY <2>1, <2>2 DEF IInv, NumberInv
<1>3. ProcInv'
  <2>1. \A d \in Callers : proc[d] \in 0 .. MaxProcs
    BY DEF IInv, CallerShape
  <2> QED
    BY <1>0, <2>1 DEF IInv, ProcInv
<1>4. ASSUME NEW c \in Callers PROVE CallerInv(c)'
  <2>1. CASE stage[c] \in Early
    BY <1>0, <2>1 DEF IInv, CallerInv, Early, Repairing
  <2>2. CASE stage[c] \notin Early
    <3>1. on[c] = current /\ current \in Sessions
      BY <2>2, OnCurrent
    <3>2. Gated(on[c])' <=> Gated(on[c])
      BY <1>0, <3>1 DEF Gated
    <3>3. CallerInv(c)
      BY DEF IInv
    <3>4. /\ sess'[on[c]].free = sess[on[c]].free
          /\ sess'[on[c]].crashed = sess[on[c]].crashed
          /\ sess'[on[c]].by = sess[on[c]].by
          /\ sess'[on[c]].reopenMu = sess[on[c]].reopenMu
      BY <3>1
    <3> QED
      BY <1>0, <3>2, <3>3, <3>4 DEF CallerInv
  <2> QED
    BY <2>1, <2>2
<1>5. TurnInv'
  <2>1. \A s \in 1 .. used : s \in Sessions
    BY ConstFacts DEF IInv, Shape
  <2> QED
    BY <1>0, <2>1 DEF IInv, TurnInv
<1>6. OwnerInv'
  <2>1. current # 0 => sess'[current].handle = sess[current].handle
    BY ConstFacts DEF IInv, Shape
  <2>2. \A c \in Callers : stage[c] \in Replacing => current # 0
    BY OnCurrent DEF Replacing, Early
  <2>3. \A c \in Callers, p \in running : Handed(c, p)' <=> Handed(c, p)
    BY <1>0 DEF Handed
  <2> QED
    BY <1>0, <2>1, <2>2, <2>3 DEF IInv, OwnerInv
<1> QED
  BY <1>1, <1>2, <1>3, <1>4, <1>5, <1>6 DEF IInv

\* Verification, leases, a process that dies, a heartbeat that stays out.
LEMMA WorldHolds ==
  ASSUME IInv,
         \/ Verify \/ HeartbeatStalls
         \/ \E b \in Branches : LeaseToolResources(b) \/ ReleaseSharedToolResources(b)
         \/ \E p \in Procs : ProcessDies(p)
  PROVE  IInv'
<1>0. /\ UNCHANGED <<posture, current, used, callerVars, overlap>>
      /\ running' \subseteq running
  BY DEF Verify, HeartbeatStalls, LeaseToolResources, ReleaseSharedToolResources,
         ProcessDies, sessionVars, procVars
<1>1. sess \in [Sessions -> SessionType] /\ started \in 0 .. MaxProcs
  BY DEF IInv, Shape
<1>2. /\ started' \in 0 .. MaxProcs
      /\ \A q \in 0 .. MaxProcs : q <= started => q <= started'
  <2>1. started' = started \/ (started < MaxProcs /\ started' = started + 1)
    BY DEF Verify, HeartbeatStalls, LeaseToolResources, ReleaseSharedToolResources,
           ProcessDies, procVars
  <2>2. CASE started' = started
    BY <1>1, <2>2
  <2>3. CASE started < MaxProcs /\ started' = started + 1
    <3>1. started + 1 \in 0 .. MaxProcs
      BY <1>1, <2>3, ConstFacts
    <3>2. \A q \in 0 .. MaxProcs : q <= started => q <= started + 1
      BY <1>1, ConstFacts
    <3> QED
      BY <2>3, <3>1, <3>2
  <2> QED
    BY <2>1, <2>2, <2>3
<1>3. sess' = sess \/ (current # 0 /\ sess' = [sess EXCEPT ![current].silent = TRUE])
  BY DEF Verify, HeartbeatStalls, LeaseToolResources, ReleaseSharedToolResources,
         ProcessDies, sessionVars
<1>4. /\ sess' \in [Sessions -> SessionType]
      /\ \A s \in Sessions : /\ sess'[s].handle = sess[s].handle
                             /\ sess'[s].free = sess[s].free
                             /\ sess'[s].gated = sess[s].gated
                             /\ sess'[s].crashed = sess[s].crashed /\ sess'[s].by = sess[s].by
                             /\ sess'[s].reopenMu = sess[s].reopenMu
  <2>1. CASE sess' = sess
    BY <1>1, <2>1
  <2>2. CASE current # 0 /\ sess' = [sess EXCEPT ![current].silent = TRUE]
    <3> DEFINE v == [sess[current] EXCEPT !.silent = TRUE]
    <3>1. current \in Sessions
      BY <2>2, ConstFacts DEF IInv, Shape
    <3>2. sess[current] \in SessionType
      BY <1>1, <3>1
    <3>3. /\ v \in SessionType
          /\ v.handle = sess[current].handle /\ v.free = sess[current].free
          /\ v.gated = sess[current].gated /\ v.crashed = sess[current].crashed
          /\ v.reopenMu = sess[current].reopenMu /\ v.by = sess[current].by
      BY <3>2 DEF SessionType
    <3>4. sess' = [sess EXCEPT ![current] = v]
      BY <2>2
    <3> HIDE DEF v
    <3> QED
      BY <1>1, <3>1, <3>3, <3>4
  <2> QED
    BY <1>3, <2>1, <2>2
<1> QED
  BY <1>0, <1>2, <1>4, WorldCalm

\* With every caller back, no turn is out, and the only process is the handle.
LEMMA IdleFacts ==
  ASSUME IInv, AllIdle
  PROVE  /\ \A c \in Callers : stage[c] = "idle" /\ on[c] = 0 /\ ~turn[c]
         /\ \A s \in 1 .. used : sess[s].free
         /\ ~overlap => \A p \in running : current # 0 /\ p = sess[current].handle
<1>1. \A c \in Callers : stage[c] = "idle" /\ on[c] = 0 /\ ~turn[c]
  BY DEF AllIdle, IInv, CallerInv, Early, Repairing
<1>2. \A s \in 1 .. used : sess[s].free
  BY <1>1 DEF IInv, TurnInv
<1>3. \A c \in Callers, p \in running : ~Handed(c, p)
  BY <1>1 DEF Handed
<1> QED
  BY <1>1, <1>2, <1>3 DEF IInv, OwnerInv

\* A restored session is built with every caller idle.
LEMMA RestoreHolds == ASSUME IInv, Restore PROVE IInv'
<1>0. PICK p \in Procs :
        /\ StartProcess(p)
        /\ sess' = [sess EXCEPT ![used + 1] = NewSession(p, FALSE)]
  BY DEF Restore
<1>1. /\ AllIdle /\ current = 0 /\ used < MaxSessions /\ used' = used + 1
      /\ current' = used + 1 /\ UNCHANGED <<posture, overlap, callerVars>>
  BY DEF Restore
<1>2. /\ started' = p /\ running' = running \cup {p}
      /\ started' \in 0 .. MaxProcs /\ running' \subseteq Procs
      /\ \A q \in running' : q <= started'
      /\ \A s \in Sessions : sess[s].handle <= started'
      /\ p <= started' /\ p \in 0 .. MaxProcs
  BY <1>0, StartFacts
<1>3. UNCHANGED <<stage, op, on, proc, turn, stalled>>
  BY <1>1 DEF callerVars
<1>4. /\ \A c \in Callers : stage[c] = "idle" /\ on[c] = 0 /\ ~turn[c]
      /\ ~overlap => running = {}
  BY <1>1, IdleFacts
<1>5. CallerShape' /\ ProcInv'
  BY <1>3, <1>4 DEF IInv, CallerShape, ProcInv
<1>6. \A d \in Callers : stage'[d] \in Early /\ on'[d] = on[d] /\ turn'[d] = turn[d]
  BY <1>3, <1>4 DEF Early
<1>7. ~overlap => \A q \in running' : q = p
  BY <1>2, <1>4
<1> QED
  BY <1>0, <1>1, <1>2, <1>5, <1>6, <1>7, RegisteredHolds

\* Close and Shutdown: nobody works on the session, and its process goes with it.
LEMMA ClosedHolds == ASSUME IInv, Close \/ Shutdown PROVE IInv'
<1>1. /\ AllIdle /\ current' = 0
      /\ UNCHANGED <<posture, used, sess, started, overlap, callerVars>>
      /\ running' \subseteq running
  BY DEF Close, Shutdown, Kill
<1>2. current # 0 => sess[current].handle \notin running'
  BY DEF Close, Shutdown, Kill
<1>3. UNCHANGED <<stage, op, on, proc, turn, stalled>>
  BY <1>1 DEF callerVars
<1>4. /\ \A c \in Callers : stage[c] = "idle" /\ on[c] = 0 /\ ~turn[c]
      /\ \A s \in 1 .. used : sess[s].free
      /\ ~overlap => \A p \in running : current # 0 /\ p = sess[current].handle
  BY <1>1, IdleFacts
<1>5. CallerShape' /\ ProcInv'
  BY <1>3, <1>4 DEF IInv, CallerShape, ProcInv
<1>6. Shape' /\ NumberInv'
  <2>1. 0 <= used /\ 0 \in 0 .. MaxSessions
    BY ConstFacts DEF IInv, Shape
  <2> QED
    BY <1>1, <2>1 DEF IInv, Shape, NumberInv
<1>7. \A c \in Callers : CallerInv(c)'
  BY <1>3, <1>4 DEF CallerInv, Early, Repairing
<1>8. TurnInv'
  BY <1>1, <1>3, <1>4 DEF TurnInv
<1>9. OwnerInv'
  BY <1>1, <1>2, <1>3, <1>4 DEF OwnerInv, Replacing
<1> QED
  BY <1>5, <1>6, <1>7, <1>8, <1>9 DEF IInv

-----------------------------------------------------------------------------
(* Execute.                                                                *)

\* A caller without a turn returns and leaves its session alone.
LEMMA LeavesHolds ==
  ASSUME IInv, NEW c \in Callers, Leave(c), ~turn[c],
         stage[c] \notin {"registering", "installing"},
         UNCHANGED <<posture, current, used, sess, running, started, overlap>>
  PROVE  IInv'
<1>0. CallerShape
  BY Parts
<1>1. CallerShape' /\ Others(c) /\ stage'[c] = "idle" /\ on'[c] = 0 /\ ~turn'[c]
  BY <1>0, LeaveFacts
<1>2. turn'[c] = turn[c]
  BY <1>0, <1>1 DEF CallerShape
<1>3. CallerInv(c)'
  BY <1>1, IdleInv
<1> QED
  BY <1>1, <1>2, <1>3, CalmCaller DEF Replacing

\* A prompt is over, a queued caller gives up, or a re-open finds no crash mark.
LEMMA NothingHeldHolds ==
  ASSUME IInv, NEW c \in Callers,
         Prompt(c) \/ AbandonTurn(c) \/ (Reopen(c) /\ ~sess[on[c]].crashed)
  PROVE  IInv'
<1>1. /\ Leave(c) /\ stage[c] \in {"session", "queued"}
      /\ UNCHANGED <<posture, current, used, sess, running, started, overlap>>
  BY DEF Prompt, AbandonTurn, Reopen, sessionVars, procVars
<1>2. ~turn[c]
  BY <1>1 DEF IInv, CallerInv, Repairing
<1> QED
  BY <1>1, <1>2, LeavesHolds

\* A re-open that has seen the crash mark waits for reopenMu.
LEMMA ReopenHolds ==
  ASSUME IInv, NEW c \in Callers, Reopen(c) PROVE IInv'
<1>0. CallerShape /\ CallerInv(c)
  BY Parts
<1>1. CASE sess[on[c]].crashed
  <2>1. /\ GoTo(c, "reopenWait") /\ stage[c] = "session" /\ op[c] = "reopen"
        /\ UNCHANGED <<posture, current, used, sess, running, started, overlap>>
    BY <1>1 DEF Reopen, sessionVars, procVars
  <2>2. /\ CallerShape' /\ Others(c) /\ stage'[c] = "reopenWait" /\ on'[c] = on[c]
        /\ turn'[c] = turn[c] /\ op'[c] = op[c]
    BY <1>0, <2>1, GoToFacts DEF Stages
  <2>3. ~turn[c]
    BY <1>0, <2>1 DEF CallerInv, Repairing
  <2>4. CallerInv(c)'
    BY <1>0, <2>1, <2>2, <2>3 DEF CallerInv, Early, Repairing
  <2> QED
    BY <2>1, <2>2, <2>3, <2>4, CalmCaller DEF Replacing
<1>2. CASE ~sess[on[c]].crashed
  BY <1>2, NothingHeldHolds
<1> QED
  BY <1>1, <1>2

\* The turn is taken out of the channel.
LEMMA TurnTakenHolds ==
  ASSUME IInv, NEW c \in Callers, stage[c] \in {"session", "queued"}, op[c] = "execute",
         sess[on[c]].free, Run(c, on[c], TRUE), sess' = [sess EXCEPT ![on[c]].free = FALSE],
         UNCHANGED <<posture, current, used, running, started, overlap>>
  PROVE  IInv'
<1>0. CallerShape /\ CallerInv(c) /\ sess \in [Sessions -> SessionType]
  BY Parts
<1>1. stage[c] \notin Early
  BY DEF Early
<1>2. /\ on[c] = current /\ current # 0 /\ current \in Sessions
      /\ sess[current] \in SessionType
  BY <1>1, OnCurrent
<1> DEFINE v == [sess[current] EXCEPT !.free = FALSE]
<1>3. /\ v \in SessionType /\ ~v.free
      /\ v.handle = sess[current].handle /\ v.gated = sess[current].gated
      /\ v.crashed = sess[current].crashed /\ v.by = sess[current].by
      /\ v.reopenMu = sess[current].reopenMu
  BY <1>2 DEF SessionType
<1>4. sess' = [sess EXCEPT ![current] = v]
  BY <1>2
<1> HIDE DEF v
<1>5. /\ CallerShape' /\ Others(c)
      /\ stage'[c] = "running" /\ on'[c] = on[c] /\ turn'[c] = TRUE /\ op'[c] = op[c]
  BY <1>0, <1>2, RunFacts
<1>6. sess'[current] = v => CallerInv(c)'
  BY <1>2, <1>3, <1>5 DEF CallerInv, Early, Repairing
<1>7. /\ sess[current].free /\ turn'[c] /\ ~v.free /\ on'[c] = current
      /\ stage[c] # "installing" /\ stage'[c] \notin Replacing \cup {"registering"}
      /\ \A d \in Callers : d # c /\ sess[current].reopenMu = d => v.reopenMu = d
      /\ v.crashed \/ (v.crashed = sess[current].crashed /\ v.by = sess[current].by)
  BY <1>2, <1>3, <1>5 DEF Replacing
<1> QED
  BY <1>1, <1>3, <1>4, <1>5, <1>6, <1>7, CallerOnSession

\* acquireExecuteTurn.
LEMMA AcquireHolds ==
  ASSUME IInv, NEW c \in Callers, AcquireExecuteTurn(c) PROVE IInv'
<1>0. CallerShape /\ CallerInv(c) /\ sess \in [Sessions -> SessionType]
  BY Parts
<1>1. /\ stage[c] = "session" /\ op[c] = "execute"
      /\ UNCHANGED <<posture, current, used, running, started, overlap>>
  BY DEF AcquireExecuteTurn, procVars
<1>2. ~turn[c] /\ turn[c] \in BOOLEAN
  BY <1>0, <1>1 DEF CallerInv, Repairing, CallerShape
<1>3. on[c] = current /\ current # 0 /\ current \in Sessions
  BY <1>1, OnCurrent DEF Early
<1>4. CASE ~Gated(on[c]) /\ Run(c, on[c], FALSE) /\ UNCHANGED sess
  <2>1. /\ CallerShape' /\ Others(c)
        /\ stage'[c] = "running" /\ on'[c] = on[c] /\ turn'[c] = FALSE /\ op'[c] = op[c]
    BY <1>0, <1>3, <1>4, RunFacts
  <2>2. ~Gated(on[c])'
    BY <1>1, <1>4, <2>1 DEF Gated
  <2>3. CallerInv(c)'
    BY <1>1, <1>3, <2>1, <2>2 DEF CallerInv, Early, Repairing
  <2>4. turn'[c] = turn[c]
    BY <1>2, <2>1
  <2> QED
    BY <1>1, <1>2, <1>4, <2>1, <2>3, <2>4, CalmCaller DEF Replacing
<1>5. CASE sess[on[c]].free /\ Run(c, on[c], TRUE)
             /\ sess' = [sess EXCEPT ![on[c]].free = FALSE]
  BY <1>1, <1>5, TurnTakenHolds
<1>6. CASE Leave(c) /\ UNCHANGED sess
  BY <1>1, <1>2, <1>6, LeavesHolds
<1>7. CASE GoTo(c, "queued") /\ UNCHANGED sess
  <2>1. /\ CallerShape' /\ Others(c)
        /\ stage'[c] = "queued" /\ on'[c] = on[c] /\ turn'[c] = turn[c] /\ op'[c] = op[c]
    BY <1>0, <1>7, GoToFacts DEF Stages
  <2>2. CallerInv(c)'
    BY <1>1, <1>2, <1>3, <2>1 DEF CallerInv, Early, Repairing
  <2> QED
    BY <1>1, <1>2, <1>7, <2>1, <2>2, CalmCaller DEF Replacing
<1> QED
  BY <1>4, <1>5, <1>6, <1>7 DEF AcquireExecuteTurn

\* A queued caller gets the turn.
LEMMA TakeTurnHolds ==
  ASSUME IInv, NEW c \in Callers, TakeTurn(c) PROVE IInv'
<1>1. /\ stage[c] = "queued" /\ sess[on[c]].free
      /\ Run(c, on[c], TRUE) /\ sess' = [sess EXCEPT ![on[c]].free = FALSE]
      /\ UNCHANGED <<posture, current, used, running, started, overlap>>
  BY DEF TakeTurn, procVars
<1>2. op[c] = "execute"
  BY <1>1 DEF IInv, CallerInv
<1> QED
  BY <1>1, <1>2, TurnTakenHolds

\* A caller leaves its session: its turn goes back, its crash mark may be set, and
\* reopenMu is unlocked if it held it.
LEMMA ReturnsHolds ==
  ASSUME IInv, NEW c \in Callers, Leave(c), stage[c] \notin Early, stage[c] # "installing",
         UNCHANGED <<posture, current, used, running, started, overlap>>,
         NEW v \in SessionType, sess' = [sess EXCEPT ![current] = v],
         v.gated = sess[current].gated, v.handle = sess[current].handle,
         v.free = IF turn[c] THEN TRUE ELSE sess[current].free,
         v.crashed \/ (v.crashed = sess[current].crashed /\ v.by = sess[current].by),
         \A d \in Callers : d # c /\ sess[current].reopenMu = d => v.reopenMu = d
  PROVE  IInv'
<1>0. CallerShape
  BY Parts
<1>1. CallerShape' /\ Others(c) /\ stage'[c] = "idle" /\ on'[c] = 0 /\ ~turn'[c]
  BY <1>0, LeaveFacts
<1>2. CallerInv(c)'
  BY <1>1, IdleInv
<1>3. turn[c] \in BOOLEAN /\ turn'[c] \in BOOLEAN
  BY <1>0, <1>1 DEF CallerShape
<1>4. \/ turn'[c] = turn[c] /\ v.free = sess[current].free /\ (turn[c] => on'[c] = on[c])
      \/ turn[c] /\ ~turn'[c] /\ v.free
  BY <1>1, <1>3
<1> QED
  BY <1>1, <1>2, <1>4, CallerOnSession DEF Replacing

\* An Execute or its retry returns, and finishExecute gives the turn back.
LEMMA ExecutedHolds ==
  ASSUME IInv, NEW c \in Callers, ExecuteReturns(c) \/ Retry(c) PROVE IInv'
<1>0. /\ ReleaseTurn(c) /\ Leave(c) /\ stage[c] \in {"running", "retrying"}
      /\ UNCHANGED <<posture, current, used, running, started, overlap>>
  BY DEF ExecuteReturns, Retry, procVars
<1>1. stage[c] \notin Early /\ stage[c] # "installing"
  BY <1>0 DEF Early
<1>2. /\ on[c] = current /\ current \in Sessions /\ sess[current] \in SessionType
      /\ sess \in [Sessions -> SessionType]
  BY <1>1, OnCurrent, Parts
<1> DEFINE f == IF turn[c] THEN TRUE ELSE sess[current].free
           v == [sess[current] EXCEPT !.free = f]
<1>3. f \in BOOLEAN
  BY <1>2 DEF SessionType
<1>4. sess' = [sess EXCEPT ![current] = v]
  <2>1. CASE turn[c]
    BY <1>0, <1>2, <2>1 DEF ReleaseTurn
  <2>2. CASE ~turn[c]
    <3>1. v = sess[current]
      BY <1>2, <2>2 DEF SessionType
    <3> HIDE DEF v
    <3> QED
      BY <1>0, <1>2, <2>2, <3>1 DEF ReleaseTurn
  <2> QED
    BY <2>1, <2>2
<1>5. /\ v \in SessionType /\ v.free = f
      /\ v.handle = sess[current].handle /\ v.gated = sess[current].gated
      /\ v.crashed = sess[current].crashed /\ v.by = sess[current].by
      /\ v.reopenMu = sess[current].reopenMu
  <2> HIDE DEF f
  <2> QED
    BY <1>2, <1>3 DEF SessionType
<1> HIDE DEF v
<1> QED
  BY <1>0, <1>1, <1>4, <1>5, ReturnsHolds

\* The crash mark is set and the caller returns without a respawn.
LEMMA CrashReturnsHolds ==
  ASSUME IInv, NEW c \in Callers, Leave(c), stage[c] \in {"session", "running"},
         UNCHANGED <<posture, current, used, running, started, overlap>>,
         sess' = [sess EXCEPT ![on[c]].crashed = TRUE,
                              ![on[c]].free = IF turn[c] THEN TRUE ELSE @]
  PROVE  IInv'
<1>1. stage[c] \notin Early /\ stage[c] # "installing"
  BY DEF Early
<1>2. /\ on[c] = current /\ current \in Sessions /\ sess[current] \in SessionType
      /\ sess \in [Sessions -> SessionType]
  BY <1>1, OnCurrent, Parts
<1> DEFINE f == IF turn[c] THEN TRUE ELSE sess[current].free
           v == [sess[current] EXCEPT !.crashed = TRUE, !.free = f]
<1>3. f \in BOOLEAN
  BY <1>2 DEF SessionType
<1>4. sess' = [sess EXCEPT ![current] = v]
  BY <1>2 DEF SessionType
<1>5. /\ v \in SessionType /\ v.free = f
      /\ v.handle = sess[current].handle /\ v.gated = sess[current].gated
      /\ v.crashed /\ v.reopenMu = sess[current].reopenMu
  <2> HIDE DEF f
  <2> QED
    BY <1>2, <1>3 DEF SessionType
<1> HIDE DEF v
<1>6. /\ v.free = IF turn[c] THEN TRUE ELSE sess[current].free
      /\ \A d \in Callers : d # c /\ sess[current].reopenMu = d => v.reopenMu = d
      /\ v.crashed \/ (v.crashed = sess[current].crashed /\ v.by = sess[current].by)
  BY <1>5
<1> HIDE DEF f
<1> QED
  BY <1>1, <1>4, <1>5, <1>6, ReturnsHolds

\* The crash mark is set and the caller goes on to the respawn.
LEMMA CrashMarkedHolds ==
  ASSUME IInv, NEW c \in Callers, Others(c), CallerShape',
         stage[c] \in {"session", "running"}, op[c] = "execute",
         UNCHANGED <<posture, current, used, running, started, overlap>>,
         sess' = [sess EXCEPT ![on[c]].crashed = TRUE],
         stage'[c] = "crashed", on'[c] = on[c], turn'[c] = turn[c], op'[c] = op[c],
         stalled'[c] \/ (stage[c] = "running" /\ stalled'[c] = stalled[c])
  PROVE  IInv'
<1>0. CallerInv(c)
  BY Parts
<1>1. stage[c] \notin Early
  BY DEF Early
<1>2. /\ on[c] = current /\ current # 0 /\ current \in Sessions
      /\ sess[current] \in SessionType /\ sess \in [Sessions -> SessionType]
  BY <1>1, OnCurrent, Parts
<1> DEFINE v == [sess[current] EXCEPT !.crashed = TRUE]
<1>3. /\ v \in SessionType /\ v.free = sess[current].free
      /\ v.handle = sess[current].handle /\ v.gated = sess[current].gated
      /\ v.crashed /\ v.reopenMu = sess[current].reopenMu
  BY <1>2 DEF SessionType
<1>4. sess' = [sess EXCEPT ![current] = v]
  BY <1>2
<1> HIDE DEF v
<1>5. ASSUME sess'[current] = v PROVE CallerInv(c)'
  <2>1. Gated(on[c])' <=> Gated(on[c])
    BY <1>2, <1>3, <1>5 DEF Gated
  <2> QED
    BY <1>0, <1>2, <1>3, <1>5, <2>1 DEF CallerInv, Early, Repairing
<1>6. /\ turn'[c] = turn[c] /\ v.free = sess[current].free /\ (turn[c] => on'[c] = on[c])
      /\ stage[c] # "installing" /\ stage'[c] \notin Replacing \cup {"registering"}
      /\ \A d \in Callers : d # c /\ sess[current].reopenMu = d => v.reopenMu = d
      /\ v.crashed \/ (v.crashed = sess[current].crashed /\ v.by = sess[current].by)
  BY <1>3 DEF Replacing
<1> QED
  BY <1>1, <1>3, <1>4, <1>5, <1>6, CallerOnSession

\* executeError on a transport that is gone.
LEMMA CrashesHolds ==
  ASSUME IInv, NEW c \in Callers, ExecuteCrashes(c) PROVE IInv'
<1>0. CallerShape /\ CallerInv(c)
  BY Parts
<1>1. /\ stage[c] = "running" /\ HandleCrash(c)
      /\ UNCHANGED <<posture, current, used, running, started, overlap>>
  BY DEF ExecuteCrashes, procVars
<1>2. op[c] = "execute"
  BY <1>0, <1>1 DEF CallerInv
<1>3. CASE GoTo(c, "crashed") /\ sess' = [sess EXCEPT ![on[c]].crashed = TRUE]
  <2>2. /\ CallerShape' /\ Others(c)
        /\ stage'[c] = "crashed" /\ on'[c] = on[c] /\ turn'[c] = turn[c] /\ op'[c] = op[c]
        /\ stalled'[c] = stalled[c]
    BY <1>0, <1>3, GoToFacts DEF Stages
  <2> QED
    BY <1>1, <1>2, <1>3, <2>2, CrashMarkedHolds
<1>4. CASE /\ Leave(c)
           /\ sess' = [sess EXCEPT ![on[c]].crashed = TRUE,
                                   ![on[c]].free = IF turn[c] THEN TRUE ELSE @]
  BY <1>1, <1>4, CrashReturnsHolds
<1> QED
  BY <1>1, <1>3, <1>4 DEF HandleCrash

\* The heartbeat check, before any turn is taken.
LEMMA StallHolds ==
  ASSUME IInv, NEW c \in Callers, StallCrash(c) PROVE IInv'
<1>0. CallerShape /\ CallerInv(c) /\ sess \in [Sessions -> SessionType]
  BY Parts
<1>1. /\ stage[c] = "session" /\ op[c] = "execute"
      /\ sess' = [sess EXCEPT ![on[c]].crashed = TRUE]
      /\ UNCHANGED <<posture, current, used, running, started, overlap>>
  BY DEF StallCrash, procVars
<1>2. ~turn[c] /\ on[c] = current /\ current \in Sessions /\ sess[current] \in SessionType
  BY <1>0, <1>1, OnCurrent DEF CallerInv, Repairing, Early
<1>3. CASE /\ stage' = [stage EXCEPT ![c] = "crashed"]
           /\ stalled' = [stalled EXCEPT ![c] = TRUE]
           /\ UNCHANGED <<op, on, proc, turn>>
  <2>2. CallerShape' /\ Others(c)
    BY <1>0, <1>3 DEF CallerShape, Others, Stages
  <2>3. /\ stage'[c] = "crashed" /\ stalled'[c] /\ on'[c] = on[c] /\ turn'[c] = turn[c]
        /\ op'[c] = op[c]
    BY <1>0, <1>3 DEF CallerShape
  <2> QED
    BY <1>1, <1>3, <2>2, <2>3, CrashMarkedHolds
<1>4. CASE Leave(c)
  <2>2. sess' = [sess EXCEPT ![on[c]].crashed = TRUE,
                             ![on[c]].free = IF turn[c] THEN TRUE ELSE @]
    <3> DEFINE v == [sess[current] EXCEPT !.crashed = TRUE]
    <3>1. v = [v EXCEPT !.free = sess[current].free]
      BY <1>2 DEF SessionType
    <3> QED
      BY <1>0, <1>1, <1>2, <3>1 DEF SessionType
  <2> QED
    BY <1>1, <1>4, <2>2, CrashReturnsHolds
<1> QED
  BY <1>3, <1>4 DEF StallCrash

-----------------------------------------------------------------------------
(* Respawn and re-open.                                                    *)

\* The handle is killed first; unless two respawns overlap the caller is the only
\* one to replace it.
LEMMA KillsHolds ==
  ASSUME IInv, NEW c \in Callers, RespawnKills(c) PROVE IInv'
<1>0. CallerShape /\ CallerInv(c)
  BY Parts
<1>1. /\ stage[c] = "crashed" /\ GoTo(c, "respawning")
      /\ running' = running \ {sess[on[c]].handle}
      /\ UNCHANGED <<posture, current, used, sess, started>>
      /\ overlap' = (overlap \/ \E d \in Callers \ {c} :
                              on[d] = on[c] /\ stage[d] \in {"respawning", "installing"})
  BY DEF RespawnKills, Kill, sessionVars
<1>2. /\ CallerShape' /\ Others(c)
      /\ stage'[c] = "respawning" /\ on'[c] = on[c] /\ turn'[c] = turn[c]
      /\ op'[c] = op[c] /\ stalled'[c] = stalled[c]
  BY <1>0, <1>1, GoToFacts DEF Stages
<1>3. on[c] = current /\ current # 0
  BY <1>1, OnCurrent DEF Early
<1>4. Shape' /\ NumberInv'
  <2>1. overlap' \in BOOLEAN
    BY <1>1 DEF IInv, Shape
  <2> QED
    BY <1>1, <2>1 DEF IInv, Shape, NumberInv
<1>5. CallerInv(c)'
  BY <1>0, <1>1, <1>2 DEF CallerInv, Early, Repairing, Gated
<1>6. (\A d \in Callers : CallerInv(d)') /\ TurnInv'
  BY <1>1, <1>2, <1>5, QuietStep
<1>7. ProcInv'
  BY <1>1, <1>2, ProcSame
<1>8. OwnerInv'
  <2> SUFFICES ASSUME ~overlap'
               PROVE  /\ \A p \in running' : \/ current' # 0 /\ p = sess'[current'].handle
                                             \/ \E d \in Callers : Handed(d, p)'
                      /\ \A d \in Callers : stage'[d] \in Replacing =>
                           sess'[current'].handle \notin running'
                      /\ \A d, e \in Callers :
                           stage'[d] \in Replacing /\ stage'[e] \in Replacing => d = e
    BY DEF OwnerInv
  <2>1. /\ ~overlap
        /\ \A d \in Callers : d # c /\ on[d] = on[c] => stage[d] \notin Replacing
    BY <1>1 DEF Replacing
  <2>2. \A d \in Callers : stage[d] \in Replacing => on[d] = current
    BY OnCurrent DEF Replacing, Early
  <2>3. \A d \in Callers : stage'[d] \in Replacing => d = c
    BY <1>2, <1>3, <2>1, <2>2 DEF Others
  <2>4. ASSUME NEW p \in running'
        PROVE  (current # 0 /\ p = sess[current].handle) \/ \E d \in Callers : Handed(d, p)'
    <3>1. (current # 0 /\ p = sess[current].handle) \/ \E d \in Callers : Handed(d, p)
      BY <1>1, <2>1, <2>4 DEF IInv, OwnerInv
    <3>2. \A d \in Callers : Handed(d, p) => d # c /\ Handed(d, p)'
      BY <1>1, <1>2 DEF Handed, Others
    <3> QED
      BY <3>1, <3>2
  <2> QED
    BY <1>1, <1>3, <2>3, <2>4
<1> QED
  BY <1>2, <1>4, <1>6, <1>7, <1>8 DEF IInv

\* The replacement starts, or the respawn fails and everything held is given back.
LEMMA StartsHolds ==
  ASSUME IInv, NEW c \in Callers, RespawnStarts(c) PROVE IInv'
<1>1. /\ stage[c] = "respawning"
      /\ UNCHANGED <<posture, current, used, overlap>>
  BY DEF RespawnStarts
<1>2. ASSUME NEW p \in Procs, StartProcess(p), stage' = [stage EXCEPT ![c] = "installing"],
             proc' = [proc EXCEPT ![c] = p], UNCHANGED <<op, on, turn, stalled, sess>>
      PROVE  IInv'
  BY <1>1, <1>2, StartedHolds
<1>3. CASE /\ Leave(c) /\ UNCHANGED procVars
           /\ sess' = [sess EXCEPT ![on[c]].free = IF turn[c] THEN TRUE ELSE @,
                                   ![on[c]].reopenMu = IF @ = c THEN NoCaller ELSE @]
  <2>1. stage[c] \notin Early /\ stage[c] # "installing"
    BY <1>1 DEF Early
  <2>2. /\ on[c] = current /\ current \in Sessions /\ sess[current] \in SessionType
        /\ sess \in [Sessions -> SessionType]
    BY <2>1, OnCurrent, Parts
  <2> DEFINE f == IF turn[c] THEN TRUE ELSE sess[current].free
             m == IF sess[current].reopenMu = c THEN NoCaller ELSE sess[current].reopenMu
             v == [sess[current] EXCEPT !.free = f, !.reopenMu = m]
  <2>3. f \in BOOLEAN /\ m \in Callers \cup {NoCaller}
    BY <2>2 DEF SessionType
  <2>4. sess' = [sess EXCEPT ![current] = v]
    BY <1>3, <2>2 DEF SessionType
  <2>5. /\ v \in SessionType /\ v.free = f
        /\ v.handle = sess[current].handle /\ v.gated = sess[current].gated
        /\ v.crashed = sess[current].crashed /\ v.by = sess[current].by
        /\ v.reopenMu = m
    <3> HIDE DEF f, m
    <3> QED
      BY <2>2, <2>3 DEF SessionType
  <2> HIDE DEF v
  <2>6. /\ v.free = IF turn[c] THEN TRUE ELSE sess[current].free
        /\ \A d \in Callers : d # c /\ sess[current].reopenMu = d => v.reopenMu = d
        /\ v.crashed \/ (v.crashed = sess[current].crashed /\ v.by = sess[current].by)
    BY <2>5
  <2> HIDE DEF f, m
  <2>7. running' = running /\ started' = started
    BY <1>3 DEF procVars
  <2> QED
    BY <1>1, <1>3, <2>1, <2>4, <2>5, <2>6, <2>7, ReturnsHolds
<1>4. \/ \E p \in Procs : /\ StartProcess(p) /\ stage' = [stage EXCEPT ![c] = "installing"]
                          /\ proc' = [proc EXCEPT ![c] = p]
                          /\ UNCHANGED <<op, on, turn, stalled, sess>>
      \/ /\ Leave(c) /\ UNCHANGED procVars
         /\ sess' = [sess EXCEPT ![on[c]].free = IF turn[c] THEN TRUE ELSE @,
                                 ![on[c]].reopenMu = IF @ = c THEN NoCaller ELSE @]
  BY DEF RespawnStarts
<1> QED
  BY <1>2, <1>3, <1>4

\* The replacement becomes the handle: the one it replaces is dead, and nobody else
\* who re-opens relies on the crash mark that it clears.
LEMMA InstallsHolds ==
  ASSUME IInv, NEW c \in Callers, RespawnInstalls(c) PROVE IInv'
<1>0. CallerShape /\ CallerInv(c)
  BY Parts
<1>1. /\ stage[c] = "installing"
      /\ sess' = [sess EXCEPT ![on[c]].handle = proc[c], ![on[c]].crashed = FALSE,
                          ![on[c]].silent = FALSE, ![on[c]].by = op[c],
                          ![on[c]].reopenMu = IF @ = c THEN NoCaller ELSE @]
      /\ UNCHANGED <<posture, current, used, running, started, overlap>>
      /\ IF op[c] = "reopen" THEN Leave(c) ELSE GoTo(c, "retrying")
  BY DEF RespawnInstalls, procVars
<1>2. /\ stage[c] \notin Early /\ stage[c] \in Repairing /\ stage[c] \in Replacing
  BY <1>1 DEF Early, Repairing, Replacing
<1>3. /\ on[c] = current /\ current # 0 /\ current \in Sessions
      /\ sess[current] \in SessionType /\ sess \in [Sessions -> SessionType]
  BY <1>2, OnCurrent, Parts
<1>4. proc[c] \in 0 .. MaxProcs /\ proc[c] <= started
  BY <1>0, <1>1 DEF CallerShape, IInv, ProcInv
<1> DEFINE m == IF sess[current].reopenMu = c THEN NoCaller ELSE sess[current].reopenMu
           v == [sess[current] EXCEPT !.handle = proc[c], !.crashed = FALSE,
                                      !.silent = FALSE, !.by = op[c], !.reopenMu = m]
<1>5. /\ m \in Callers \cup {NoCaller} /\ op[c] \in Installers
      /\ \A d \in Callers : d # c /\ sess[current].reopenMu = d => m = d
  BY <1>0, <1>2, <1>3 DEF SessionType, CallerInv, Installers
<1>6. sess' = [sess EXCEPT ![current] = v]
  BY <1>1, <1>3 DEF SessionType
<1> HIDE DEF m
<1>7. /\ v \in SessionType /\ v.free = sess[current].free
      /\ v.handle = proc[c] /\ v.gated = sess[current].gated /\ v.reopenMu = m
      /\ v.by = op[c]
  BY <1>3, <1>4, <1>5 DEF SessionType
<1> HIDE DEF v
<1>8. /\ sess' \in [Sessions -> SessionType] /\ sess'[current] = v
      /\ \A s \in Sessions : sess'[s].handle <= started
  BY <1>1, <1>3, <1>4, <1>6, <1>7, SessFacts
<1>9. Shape' /\ NumberInv'
  BY <1>1, <1>8 DEF IInv, Shape, NumberInv
<1>10. v.crashed \/ v.by = "execute" \/ sess[current].reopenMu = c
  BY <1>0, <1>2, <1>3, <1>7 DEF CallerInv
\* The caller itself: a re-open returns without a turn, an execute retries with its own.
<1>11. /\ CallerShape' /\ Others(c) /\ CallerInv(c)'
       /\ turn'[c] = turn[c] /\ (turn[c] => on'[c] = on[c])
       /\ stage'[c] \notin Replacing \cup {"registering"}
  <2>1. CASE op[c] = "reopen"
    <3>1. CallerShape' /\ Others(c) /\ stage'[c] = "idle" /\ on'[c] = 0 /\ ~turn'[c]
      BY <1>0, <1>1, <2>1, LeaveFacts
    <3>2. CallerInv(c)'
      BY <3>1, IdleInv
    <3>3. ~turn[c]
      BY <1>0, <2>1 DEF CallerInv
    <3>4. turn'[c] = turn[c]
      BY <1>0, <3>1, <3>3 DEF CallerShape
    <3> QED
      BY <3>1, <3>2, <3>3, <3>4 DEF Replacing
  <2>2. CASE op[c] # "reopen"
    <3>1. /\ CallerShape' /\ Others(c)
          /\ stage'[c] = "retrying" /\ on'[c] = on[c] /\ turn'[c] = turn[c]
          /\ op'[c] = op[c] /\ stalled'[c] = stalled[c]
      BY <1>0, <1>1, <2>2, GoToFacts DEF Stages
    <3>2. op[c] = "execute"
      BY <1>0, <1>2, <2>2 DEF CallerInv
    <3>3. Gated(on[c])' <=> Gated(on[c])
      BY <1>1, <1>3, <1>7, <1>8, <3>1 DEF Gated
    <3>4. CallerInv(c)'
      BY <1>0, <1>1, <1>2, <1>3, <1>7, <1>8, <3>1, <3>2, <3>3 DEF CallerInv, Early, Repairing
    <3> QED
      BY <3>1, <3>4 DEF Replacing
  <2> QED
    BY <2>1, <2>2
<1>12. (\A d \in Callers : CallerInv(d)') /\ TurnInv'
  BY <1>1, <1>2, <1>5, <1>6, <1>7, <1>10, <1>11, SessionStep
<1>13. ProcInv'
  BY <1>1, <1>11, ProcSame DEF Replacing
<1>14. OwnerInv'
  <2> SUFFICES ASSUME ~overlap
               PROVE  /\ \A p \in running : \/ p = proc[c]
                                            \/ \E d \in Callers : Handed(d, p)'
                      /\ \A d \in Callers : stage'[d] \notin Replacing
    BY <1>1, <1>3, <1>7, <1>8 DEF OwnerInv
  <2>1. /\ \A p \in running : \/ p = sess[current].handle
                              \/ \E d \in Callers : Handed(d, p)
        /\ sess[current].handle \notin running
        /\ \A d \in Callers : stage[d] \in Replacing => d = c
    BY <1>2 DEF IInv, OwnerInv
  <2>2. ASSUME NEW p \in running, p # proc[c] PROVE \E d \in Callers : Handed(d, p)'
    <3>1. PICK d \in Callers : Handed(d, p)
      BY <2>1
    <3>2. d # c
      BY <2>2, <3>1 DEF Handed
    <3> QED
      BY <1>11, <3>1, <3>2 DEF Handed, Others
  <2>3. \A d \in Callers : stage'[d] \notin Replacing
    BY <1>11, <2>1 DEF Others
  <2> QED
    BY <2>2, <2>3
<1> QED
  BY <1>9, <1>11, <1>12, <1>13, <1>14 DEF IInv

\* Under reopenMu the crash mark is read again.
LEMMA LockReopenHolds ==
  ASSUME IInv, NEW c \in Callers, LockReopen(c) PROVE IInv'
<1>0. CallerShape /\ CallerInv(c)
  BY Parts
<1>1. /\ stage[c] = "reopenWait" /\ sess[on[c]].reopenMu = NoCaller
      /\ UNCHANGED <<posture, current, used, running, started, overlap>>
  BY DEF LockReopen, procVars
<1>2. stage[c] \notin Early /\ op[c] = "reopen" /\ ~turn[c]
  BY <1>0, <1>1 DEF CallerInv, Early, Repairing
<1>3. CASE ~sess[on[c]].crashed
  <2>1. Leave(c) /\ UNCHANGED sess
    BY <1>3 DEF LockReopen
  <2> QED
    BY <1>1, <1>2, <2>1, LeavesHolds
<1>4. CASE sess[on[c]].crashed
  <2>1. GoTo(c, "crashed") /\ sess' = [sess EXCEPT ![on[c]].reopenMu = c]
    BY <1>4 DEF LockReopen
  <2>2. /\ on[c] = current /\ current # 0 /\ current \in Sessions
        /\ sess[current] \in SessionType /\ sess \in [Sessions -> SessionType]
    BY <1>2, OnCurrent, Parts
  <2> DEFINE v == [sess[current] EXCEPT !.reopenMu = c]
  <2>3. /\ v \in SessionType /\ v.free = sess[current].free
        /\ v.handle = sess[current].handle /\ v.gated = sess[current].gated
        /\ v.crashed = sess[current].crashed /\ v.by = sess[current].by
        /\ v.reopenMu = c
    BY <2>2 DEF SessionType
  <2>4. sess' = [sess EXCEPT ![current] = v]
    BY <2>1, <2>2
  <2> HIDE DEF v
  <2>5. /\ CallerShape' /\ Others(c)
        /\ stage'[c] = "crashed" /\ on'[c] = on[c] /\ turn'[c] = turn[c] /\ op'[c] = op[c]
    BY <1>0, <2>1, GoToFacts DEF Stages
  <2>6. sess'[current] = v => CallerInv(c)'
    BY <1>0, <1>1, <1>2, <1>4, <2>2, <2>3, <2>5 DEF CallerInv, Early, Repairing
  <2>7. /\ turn'[c] = turn[c] /\ v.free = sess[current].free /\ (turn[c] => on'[c] = on[c])
        /\ stage[c] # "installing" /\ stage'[c] \notin Replacing \cup {"registering"}
        /\ \A d \in Callers : d # c /\ sess[current].reopenMu = d => v.reopenMu = d
        /\ v.crashed \/ (v.crashed = sess[current].crashed /\ v.by = sess[current].by)
    BY <1>1, <2>2, <2>3, <2>5, ConstFacts DEF Replacing
  <2> QED
    BY <1>1, <1>2, <2>3, <2>4, <2>5, <2>6, <2>7, CallerOnSession
<1> QED
  BY <1>3, <1>4

-----------------------------------------------------------------------------
(* The theorems.                                                           *)

\* A manager that has just been made.
LEMMA InitHolds == ASSUME Init PROVE IInv
<1>1. NewSession(0, TRUE) \in SessionType
  BY ConstFacts DEF NewSession, SessionType, Installers
<1>2. NewSession(0, TRUE).handle = 0 /\ NewSession(0, TRUE).free
  BY DEF NewSession
<1>3. Shape
  <2>1. sess \in [Sessions -> SessionType]
    BY <1>1 DEF Init
  <2>2. 0 <= 0
    OBVIOUS
  <2> QED
    BY <2>1, <2>2, ConstFacts DEF Init, Shape
<1>4. CallerShape
  BY ConstFacts DEF Init, CallerShape, Stages
<1>5. NumberInv /\ ProcInv
  <2>1. 0 <= 0
    OBVIOUS
  <2>2. NumberInv
    BY <1>2, <2>1 DEF Init, NumberInv
  <2>3. ProcInv
    BY DEF Init, ProcInv
  <2> QED
    BY <2>2, <2>3
<1>6. \A c \in Callers : stage[c] = "idle" /\ on[c] = 0 /\ ~turn[c]
  BY DEF Init
<1>7. \A c \in Callers : CallerInv(c)
  BY <1>6 DEF CallerInv, Early, Repairing
<1>8. TurnInv
  <2>1. 1 .. used = {}
    BY DEF Init
  <2> QED
    BY <1>6, <2>1 DEF TurnInv
<1>9. OwnerInv
  BY <1>6 DEF Init, OwnerInv, Replacing
<1> QED
  BY <1>3, <1>4, <1>5, <1>7, <1>8, <1>9 DEF IInv

\* A step that changes nothing.
LEMMA StutterHolds == ASSUME IInv, UNCHANGED vars PROVE IInv'
<1>1. /\ UNCHANGED <<posture, current, used, callerVars, overlap>>
      /\ sess' = sess /\ running' = running /\ started' = started
  BY DEF vars, sessionVars, procVars
<1>2. sess \in [Sessions -> SessionType] /\ started \in 0 .. MaxProcs
  BY DEF IInv, Shape
<1> QED
  BY <1>1, <1>2, WorldCalm

\* Every step keeps the invariant.
LEMMA StepHolds == ASSUME IInv, Next PROVE IInv'
<1>1. CASE \/ Verify \/ HeartbeatStalls
           \/ \E b \in Branches : LeaseToolResources(b) \/ ReleaseSharedToolResources(b)
           \/ \E p \in Procs : ProcessDies(p)
  BY <1>1, WorldHolds
<1>2. CASE Restore \/ Close \/ Shutdown
  BY <1>2, RestoreHolds, ClosedHolds
<1>3. ASSUME NEW c \in Callers,
             \/ Call(c, "execute") \/ Call(c, "prompt") \/ Call(c, "reopen")
             \/ LockBind(c) \/ BindProcess(c) \/ RegisterSession(c) \/ FinishBind(c)
      PROVE  IInv'
  BY <1>3, CallHolds, LockBindHolds, BindProcessHolds, RegisterHolds, FinishBindHolds
<1>4. ASSUME NEW c \in Callers,
             \/ Prompt(c) \/ AcquireExecuteTurn(c) \/ TakeTurn(c) \/ AbandonTurn(c)
             \/ ExecuteReturns(c) \/ ExecuteCrashes(c) \/ StallCrash(c) \/ Retry(c)
      PROVE  IInv'
  BY <1>4, NothingHeldHolds, AcquireHolds, TakeTurnHolds, ExecutedHolds, CrashesHolds,
     StallHolds
<1>5. ASSUME NEW c \in Callers,
             \/ RespawnKills(c) \/ RespawnStarts(c) \/ RespawnInstalls(c)
             \/ Reopen(c) \/ LockReopen(c)
      PROVE  IInv'
  BY <1>5, KillsHolds, StartsHolds, InstallsHolds, ReopenHolds, LockReopenHolds
<1> QED
  BY <1>1, <1>2, <1>3, <1>4, <1>5 DEF Next

\* The inductive invariant of a session, its callers and its processes.
THEOREM SessionInvariant == Spec => []IInv
<1>1. Init => IInv
  BY InitHolds
<1>2. IInv /\ [Next]_vars => IInv'
  BY StepHolds, StutterHolds
<1> QED
  BY <1>1, <1>2, PTL DEF Spec

\* The execute turn of a session is in its channel or with one caller, for any
\* callers, crashes, respawns and retries (acquireExecuteTurn, releaseExecuteTurn).
THEOREM TurnTheorem == Spec => []TurnConserved
<1>1. ASSUME IInv PROVE TurnConserved
  <2> SUFFICES ASSUME NEW s \in 1 .. used
               PROVE  Cardinality({c \in Callers : turn[c] /\ on[c] = s})
                        = IF sess[s].free THEN 0 ELSE 1
    BY DEF TurnConserved
  <2> DEFINE H == {c \in Callers : turn[c] /\ on[c] = s}
  <2>1. CASE sess[s].free
    <3>1. H = {}
      BY <1>1, <2>1 DEF IInv, CallerInv
    <3> QED
      BY <2>1, <3>1, FS_EmptySet
  <2>2. CASE ~sess[s].free
    <3>1. PICK c \in Callers : turn[c] /\ on[c] = s
      BY <1>1, <2>2 DEF IInv, TurnInv
    <3>2. H = {c}
      BY <1>1, <3>1 DEF IInv, TurnInv
    <3>3. Cardinality(H) = 1
      BY <3>2, FS_Singleton
    <3> QED
      BY <2>2, <3>3
  <2> QED
    BY <2>1, <2>2
<1>2. IInv => TurnConserved
  BY <1>1
<1> QED
  BY <1>2, SessionInvariant, PTL

\* A session without the concurrent capabilities executes one call at a time, the
\* callers that came in through the heartbeat check aside (execute).
THEOREM SerialTheorem == Spec => []SerialExecution
<1>1. ASSUME IInv PROVE SerialExecution
  <2> SUFFICES ASSUME NEW s \in 1 .. used, Gated(s)
               PROVE  Cardinality({c \in Executing(s) : ~stalled[c]}) <= 1
    BY DEF SerialExecution
  <2> DEFINE E == {c \in Executing(s) : ~stalled[c]}
  <2>1. \A c \in E : c \in Callers /\ turn[c]
    BY <1>1 DEF IInv, CallerInv, Executing
  <2>2. \A c, d \in E : c = d
    BY <1>1, <2>1 DEF IInv, TurnInv
  <2> HIDE DEF E
  <2>3. CASE E = {}
    <3>1. Cardinality(E) = 0
      BY <2>3, FS_EmptySet
    <3> QED
      BY <3>1 DEF E
  <2>4. CASE E # {}
    <3>1. PICK c \in E : TRUE
      BY <2>4
    <3>2. E = {c}
      BY <2>2, <3>1
    <3>3. Cardinality(E) = 1
      BY <3>2, FS_Singleton
    <3> QED
      BY <3>3 DEF E
  <2> QED
    BY <2>3, <2>4
<1>2. IInv => SerialExecution
  BY <1>1
<1> QED
  BY <1>2, SessionInvariant, PTL

\* Once every caller has returned the only process left is the handle of the
\* registered session, unless two respawns overlapped (bindVerifiedRecord, respawn,
\* ReopenCrashedSession, Close).
THEOREM OrphanTheorem == Spec => []NoOrphanProcess
<1>1. ASSUME IInv PROVE NoOrphanProcess
  BY <1>1, IdleFacts DEF NoOrphanProcess
<1>2. IInv => NoOrphanProcess
  BY <1>1
<1> QED
  BY <1>2, SessionInvariant, PTL

\* A re-open never kills an unmarked process that an open or another re-open put in
\* place, whatever on_crash the steps carry (ReopenCrashedSession).
THEOREM ReopenTheorem == Spec => ReopenSparesHealthy
<1> DEFINE A == \A c \in Callers :
                  op[c] = "reopen" /\ stage[c] = "crashed" /\ stage'[c] = "respawning"
                  => sess[on[c]].crashed \/ sess[on[c]].by = "execute"
<1>1. IInv => A
  BY DEF IInv, CallerInv
<1>2. IInv /\ [Next]_vars => [A]_vars
  BY <1>1
<1>3. ReopenSparesHealthy <=> [][A]_vars
  BY DEF ReopenSparesHealthy
<1> QED
  BY <1>2, <1>3, SessionInvariant, PTL DEF Spec
-----------------------------------------------------------------------------
(***************************************************************************)
(* ToolCalls, for any adapters, grants, limits and numbers of executes.    *)
(* The executes form a tree whose edges were allowed and whose inner nodes *)
(* have begun and do not end before their calls; a call is registered only *)
(* while the pause gate of its caller is open.                             *)
(***************************************************************************)

FrameType ==
  [adapter : Adapters \cup {NoFrame.adapter}, parent : 0 .. MaxFrames, above : SUBSET Frames,
   state : States, cancelled : BOOLEAN, fatal : BOOLEAN]

FrameShape ==
  /\ made \in 0 .. MaxFrames
  /\ frame \in [Frames -> FrameType]
  /\ holder \in [Adapters -> 0 .. MaxFrames]
  /\ pending \in [Adapters -> SUBSET Frames]
  /\ issued \in [Frames -> Nat] /\ answered \in [Frames -> Nat]
  /\ dropped \in [Frames -> Nat]
  /\ gate \in [Adapters -> BOOLEAN]
  /\ pausing \in [Adapters -> {"no", "drain", "grace", "paused"}]

\* The adapter has the request, and the execute is not over.
Begun == {"running", "returned", "failed"}

\* An execute that has begun, or has ended after it had.
Started(f) == frame[f].state \in Begun \cup {"done", "erred"}

\* The tree of executes: a nested one was allowed, and its caller is under
\* way as long as it is itself.
NodeInv(g) ==
  LET p == frame[g].parent IN
  /\ g > made => frame[g].state = "none"
  /\ frame[g].state = "none" => p = 0
  /\ frame[g].state # "none" => frame[g].adapter \in Adapters
  /\ frame[g].state = "dispatched" => p # 0
  /\ frame[g].state \in {"none", "dispatched", "queued"} => ~frame[g].fatal
  /\ p # 0 => /\ p < g /\ <<frame[p].adapter, frame[g].adapter>> \in Allowed
              /\ Started(p) /\ (Live(g) => frame[p].state \in Begun)

\* The turn of a session is with an execute of it that has begun.
HolderInv ==
  \A a \in Adapters : holder[a] # 0 =>
    frame[holder[a]].adapter = a /\ frame[holder[a]].state \in Begun

\* A call of the registry has been taken in and has not ended.
Registered(g) == Live(g) /\ frame[g].state # "dispatched"

\* A registered call is one of this session; once the drain window is
\* over all of them are cancelled, and the gate keeps others out.
PendingInv ==
  \A a \in Adapters :
    /\ pausing[a] # "no" => gate[a]
    /\ \A g \in pending[a] :
         /\ Registered(g) /\ frame[g].parent # 0 /\ Caller(g) = a
         /\ pausing[a] \in {"grace", "paused"} => frame[g].cancelled

\* A fatal error is with the caller as soon as the call has ended.
FatalInv ==
  \A g \in Frames :
    frame[g].fatal /\ frame[g].state \in Ended /\ frame[g].parent # 0
      /\ frame[frame[g].parent].state \in {"running", "returned", "done"}
      => frame[frame[g].parent].fatal

ToolInv ==
  /\ FrameShape /\ (\A g \in Frames : NodeInv(g))
  /\ HolderInv /\ PendingInv /\ FatalInv /\ AnsweredOnce

-----------------------------------------------------------------------------
(* The tree of executes.                                                   *)

LEMMA FrameFacts ==
  /\ Frames \subseteq Nat /\ IsFiniteSet(Frames) /\ 0 \notin Frames /\ MaxFrames \in Nat
  /\ \A f \in 0 .. MaxFrames : f # 0 => f \in Frames
<1>1. MaxFrames \in Nat
  BY LimitAssumption
<1> QED  BY <1>1, FS_Interval DEF Frames

\* The parts of the invariant, and what it says of a caller.
LEMMA ToolParts ==
  ASSUME ToolInv
  PROVE  /\ FrameShape /\ HolderInv /\ PendingInv /\ FatalInv /\ AnsweredOnce
         /\ \A g \in Frames : NodeInv(g)
         /\ \A g \in Frames :
              frame[g] \in FrameType /\ (frame[g].parent # 0 => frame[g].parent \in Frames)
  BY FrameFacts DEF ToolInv, FrameShape, FrameType

LEMMA ToolInitially == ASSUME ToolInit PROVE ToolInv
<1>1. NoFrame \in FrameType /\ NoFrame.state = "none" /\ NoFrame.parent = 0 /\ ~NoFrame.fatal
  BY FrameFacts DEF NoFrame, FrameType, States, Ended
<1>2. \A f \in Frames : frame[f] = NoFrame
  BY DEF ToolInit
<1>3. FrameShape
  <2>1. frame \in [Frames -> FrameType]
    BY <1>1 DEF ToolInit
  <2>2. 0 \in 0 .. MaxFrames
    BY FrameFacts
  <2> QED  BY <2>1, <2>2 DEF ToolInit, FrameShape
<1>4. \A g \in Frames : NodeInv(g)
  BY <1>1, <1>2 DEF NodeInv
<1>5. HolderInv /\ PendingInv
  BY DEF ToolInit, HolderInv, PendingInv
<1>6. FatalInv
  BY <1>1, <1>2 DEF FatalInv
<1>7. AnsweredOnce
  <2>1. \A f \in Frames : Children(f) = {}
    BY <1>1, <1>2 DEF Children, Live
  <2> QED  BY <2>1, FS_EmptySet DEF AnsweredOnce, ToolInit
<1> QED  BY <1>3, <1>4, <1>5, <1>6, <1>7 DEF ToolInv

LEMMA ChildrenFinite ==
  ASSUME NEW f PROVE IsFiniteSet(Children(f)) /\ Cardinality(Children(f)) \in Nat
<1>1. Children(f) \in SUBSET Frames
  BY DEF Children
<1> QED  BY <1>1, FrameFacts, FS_Subset, FS_CardinalityType

\* The frames are where they were, and contexts are only cancelled.
LEMMA ToolCalm ==
  ASSUME ToolInv, UNCHANGED <<made, holder, pending, issued, answered, dropped>>,
         frame' \in [Frames -> FrameType],
         \A g \in Frames : /\ frame'[g].adapter = frame[g].adapter
                           /\ frame'[g].parent = frame[g].parent
                           /\ frame'[g].state = frame[g].state
                           /\ frame'[g].fatal = frame[g].fatal,
         gate' \in [Adapters -> BOOLEAN],
         pausing' \in [Adapters -> {"no", "drain", "grace", "paused"}],
         \A a \in Adapters :
           /\ pausing'[a] # "no" => gate'[a]
           /\ \A g \in pending[a] : pausing'[a] \in {"grace", "paused"} => frame'[g].cancelled
  PROVE  ToolInv'
<1>1. /\ FrameShape /\ HolderInv /\ PendingInv /\ FatalInv /\ AnsweredOnce
      /\ \A g \in Frames : NodeInv(g)
      /\ \A g \in Frames :
           frame[g] \in FrameType /\ (frame[g].parent # 0 => frame[g].parent \in Frames)
  BY ToolParts
<1>2. \A g \in Frames : Live(g)' = Live(g) /\ Started(g)' = Started(g)
  BY DEF Live, Started
<1>3. \A f \in Frames : Children(f)' = Children(f)
  BY <1>2 DEF Children
<1>4. FrameShape'
  BY <1>1 DEF FrameShape
<1>5. \A g \in Frames : NodeInv(g)'
  <2> TAKE g \in Frames
  <2>1. NodeInv(g) /\ (frame[g].parent # 0 => frame[g].parent \in Frames)
    BY <1>1
  <2> QED  BY <1>2, <2>1 DEF NodeInv
<1>6. HolderInv'
  BY <1>1, FrameFacts DEF HolderInv, FrameShape
<1>7. PendingInv'
  <2> SUFFICES ASSUME NEW a \in Adapters, NEW g \in pending[a]
               PROVE  Registered(g)' /\ frame'[g].parent # 0 /\ Caller(g)' = a
    BY DEF PendingInv
  <2>1. g \in Frames /\ Registered(g) /\ frame[g].parent # 0 /\ Caller(g) = a
    BY <1>1 DEF PendingInv, FrameShape
  <2> QED  BY <1>1, <1>2, <2>1 DEF Caller, Registered
<1>8. FatalInv'
  BY <1>1 DEF FatalInv
<1>9. AnsweredOnce'
  BY <1>1, <1>3 DEF AnsweredOnce
<1> QED  BY <1>4, <1>5, <1>6, <1>7, <1>8, <1>9 DEF ToolInv

\* An execute goes on: it is registered, starts, or its adapter returns.
LEMMA ToolMoves ==
  ASSUME ToolInv, NEW f \in Frames, UNCHANGED <<made, issued, answered, dropped, gate, pausing>>,
         frame' \in [Frames -> FrameType],
         \A g \in Frames : g # f => frame'[g] = frame[g],
         frame'[f].adapter = frame[f].adapter, frame'[f].parent = frame[f].parent,
         frame'[f].cancelled = frame[f].cancelled,
         frame[f].state \in {"dispatched", "queued", "running"},
         frame'[f].state \in Begun \cup {"queued"},
         frame[f].state = "running" => frame'[f].state \in Begun,
         frame'[f].state = "queued" => ~frame'[f].fatal,
         frame[f].fatal => frame'[f].fatal,
         \/ holder' = holder
         \/ /\ frame'[f].state \in Begun
            /\ holder' = [holder EXCEPT ![frame[f].adapter] = f],
         \/ pending' = pending
         \/ /\ frame[f].parent # 0 /\ ~gate[Caller(f)]
            /\ pending' = [pending EXCEPT ![Caller(f)] = @ \cup {f}]
  PROVE  ToolInv'
<1>1. /\ FrameShape /\ HolderInv /\ PendingInv /\ FatalInv /\ AnsweredOnce
      /\ \A g \in Frames : NodeInv(g)
      /\ \A g \in Frames :
           frame[g] \in FrameType /\ (frame[g].parent # 0 => frame[g].parent \in Frames)
  BY ToolParts
<1>2. \A g \in Frames : Live(g)' = Live(g) /\ (Started(g) => Started(g)')
  BY DEF Live, Started, Ended, Begun
<1>3. \A g \in Frames : frame'[g].parent = frame[g].parent /\ frame'[g].adapter = frame[g].adapter
  OBVIOUS
<1>4. \A g \in Frames : Children(g)' = Children(g)
  BY <1>2, <1>3 DEF Children
<1>5. frame[f].adapter \in Adapters /\ f \in 0 .. MaxFrames
  <2>1. NodeInv(f) /\ frame[f].state # "none"
    BY <1>1
  <2>2. f \in 0 .. MaxFrames
    BY FrameFacts DEF Frames
  <2> QED  BY <2>1, <2>2 DEF NodeInv
<1>6. FrameShape'
  <2>1. holder' \in [Adapters -> 0 .. MaxFrames]
    BY <1>1, <1>5 DEF FrameShape
  <2>2. pending' \in [Adapters -> SUBSET Frames]
    BY <1>1 DEF FrameShape
  <2> QED  BY <1>1, <2>1, <2>2 DEF FrameShape
<1>7. \A g \in Frames : NodeInv(g)'
  <2> TAKE g \in Frames
  <2>1. NodeInv(g)
    BY <1>1
  <2>2. /\ frame[g].parent # 0 => frame[g].parent \in Frames
        /\ frame[g].state \in Begun => frame'[g].state \in Begun
    BY <1>1 DEF Begun
  <2>3. frame[g].parent # 0 => /\ frame[g].parent \in Frames
                               /\ Started(frame[g].parent)
                               /\ Live(g) => frame[frame[g].parent].state \in Begun
    BY <2>1, <2>2 DEF NodeInv
  <2>4. frame[g].parent # 0 => /\ Started(frame[g].parent)'
                               /\ Live(g)' => frame'[frame[g].parent].state \in Begun
    BY <1>2, <1>3, <2>3 DEF Begun, Started
  <2>5. CASE g = f
    BY <1>1, <1>2, <1>3, <2>1, <2>4, <2>5 DEF NodeInv, Begun
  <2>6. CASE g # f
    BY <1>1, <1>2, <1>3, <2>1, <2>4, <2>6 DEF NodeInv
  <2> QED  BY <2>5, <2>6
<1>8. HolderInv'
  <2> SUFFICES ASSUME NEW a \in Adapters, holder'[a] # 0
               PROVE  frame'[holder'[a]].adapter = a /\ frame'[holder'[a]].state \in Begun
    BY DEF HolderInv
  <2>1. CASE holder'[a] = f /\ holder'[a] # holder[a]
    BY <1>1, <1>5, <2>1 DEF FrameShape
  <2>2. CASE holder'[a] = holder[a]
    <3>1. holder[a] \in Frames
      BY <1>1, <2>2, FrameFacts DEF FrameShape
    <3> QED  BY <1>1, <1>3, <2>2, <3>1 DEF HolderInv, Begun
  <2> QED  BY <1>1, <1>5, <2>1, <2>2 DEF FrameShape
<1>9. PendingInv'
  <2> SUFFICES ASSUME NEW a \in Adapters, NEW g \in pending'[a]
               PROVE  /\ Registered(g)' /\ frame'[g].parent # 0 /\ Caller(g)' = a
                      /\ pausing[a] \in {"grace", "paused"} => frame'[g].cancelled
    BY <1>1 DEF PendingInv
  <2>1. CASE g \in pending[a]
    <3>1. /\ g \in Frames /\ Registered(g) /\ frame[g].parent # 0 /\ Caller(g) = a
          /\ pausing[a] \in {"grace", "paused"} => frame[g].cancelled
      BY <1>1, <2>1 DEF PendingInv, FrameShape
    <3>2. Caller(g)' = a
      BY <1>1, <1>3, <3>1 DEF Caller
    <3>3. frame'[g].cancelled = frame[g].cancelled
      BY <3>1
    <3> QED  BY <1>2, <1>3, <3>1, <3>2, <3>3 DEF Registered, Begun
  <2>2. CASE g \notin pending[a]
    <3>1. g = f /\ a = Caller(f) /\ frame[f].parent # 0 /\ ~gate[Caller(f)]
      BY <1>1, <2>2 DEF FrameShape
    <3>2. Caller(f)' = Caller(f)
      BY <1>1, <1>3, <3>1 DEF Caller
    <3>3. Live(f)
      BY DEF Live, Ended
    <3> QED  BY <1>1, <1>2, <1>3, <3>1, <3>2, <3>3 DEF PendingInv, Registered, Begun
  <2> QED  BY <2>1, <2>2
<1>10. FatalInv'
  <2> SUFFICES ASSUME NEW g \in Frames, frame'[g].fatal, frame'[g].state \in Ended,
                      frame'[g].parent # 0,
                      frame'[frame'[g].parent].state \in {"running", "returned", "done"}
               PROVE  frame'[frame'[g].parent].fatal
    BY DEF FatalInv
  <2>1. g # f /\ frame'[g] = frame[g] /\ frame[g].parent \in Frames
    BY <1>1, <1>3 DEF Ended, Begun
  <2>2. Started(frame[g].parent)
    BY <1>1, <2>1 DEF NodeInv
  <2>3. CASE frame[g].parent = f
    <3>1. frame[f].state = "running"
      BY <2>2, <2>3 DEF Started, Begun
    <3> QED  BY <1>1, <2>1, <2>3, <3>1 DEF FatalInv
  <2>4. CASE frame[g].parent # f
    BY <1>1, <2>1, <2>4 DEF FatalInv
  <2> QED  BY <2>3, <2>4
<1>11. AnsweredOnce'
  BY <1>1, <1>4 DEF AnsweredOnce
<1> QED  BY <1>6, <1>7, <1>8, <1>9, <1>10, <1>11 DEF ToolInv

\* An execute ends: its calls have, its turn and its registration are given
\* back, its caller is answered and learns of a fatal error.
LEMMA ToolEnds ==
  ASSUME ToolInv, NEW f \in Frames, Live(f), Children(f) = {},
         UNCHANGED <<made, issued, gate, pausing>>,
         NEW p, p = frame[f].parent,
         frame' \in [Frames -> FrameType],
         \A g \in Frames : /\ g # f /\ g # p => frame'[g] = frame[g]
                           /\ frame'[g].adapter = frame[g].adapter
                           /\ frame'[g].parent = frame[g].parent
                           /\ frame'[g].cancelled = frame[g].cancelled
                           /\ g # f => frame'[g].state = frame[g].state
                           /\ g # f /\ frame[g].fatal => frame'[g].fatal,
         frame'[f].state \in Ended,
         frame[f].state \in Begun => frame'[f].state \in {"done", "erred"},
         frame[f].state = "failed" => frame'[f].state = "erred",
         frame[f].state \in Begun /\ frame'[f].state = "done" /\ frame[f].fatal => frame'[f].fatal,
         p # 0 /\ frame'[f].fatal => frame'[p].fatal,
         holder' \in [Adapters -> 0 .. MaxFrames],
         \A a \in Adapters : holder'[a] # f /\ holder'[a] \in {0, holder[a]},
         pending' \in [Adapters -> SUBSET Frames],
         \A a \in Adapters : pending'[a] = pending[a] \ {f},
         p = 0 => UNCHANGED replyVars,
         p # 0 => Reply(p)
  PROVE  ToolInv'
<1>1. /\ FrameShape /\ HolderInv /\ PendingInv /\ FatalInv /\ AnsweredOnce
      /\ \A g \in Frames : NodeInv(g)
      /\ \A g \in Frames :
           frame[g] \in FrameType /\ (frame[g].parent # 0 => frame[g].parent \in Frames)
  BY ToolParts
<1>2. p # 0 => p \in Frames /\ p # f /\ p < f /\ frame[p].state \in Begun
  <2>1. NodeInv(f) /\ (p # 0 => p \in Frames)
    BY <1>1
  <2> QED  BY <2>1, FrameFacts DEF NodeInv
<1>3. /\ ~Live(f)' /\ \A g \in Frames : g # f => Live(g)' = Live(g)
      /\ \A g \in Frames : g # f => Started(g)' = Started(g)
  BY DEF Live, Started
<1>4. \A g \in Frames : frame[g].parent = f => ~Live(g)
  BY DEF Children
<1>5. FrameShape'
  <2>1. answered' \in [Frames -> Nat] /\ dropped' \in [Frames -> Nat]
    BY <1>1, <1>2 DEF FrameShape, Reply, replyVars
  <2> QED  BY <1>1, <2>1 DEF FrameShape
<1>6. \A g \in Frames : NodeInv(g)'
  <2> TAKE g \in Frames
  <2>1. NodeInv(g) /\ (frame[g].parent # 0 => frame[g].parent \in Frames)
    BY <1>1
  <2>2. frame[g].parent # 0 => Started(frame[g].parent)'
    <3> SUFFICES ASSUME frame[g].parent # 0 PROVE Started(frame[g].parent)'
      OBVIOUS
    <3>1. frame[g].parent \in Frames /\ Started(frame[g].parent)
      BY <2>1 DEF NodeInv
    <3>2. CASE frame[g].parent = f
      <4>1. frame[f].state \in Begun
        BY <3>1, <3>2 DEF Started, Live, Ended
      <4> QED  BY <3>2, <4>1 DEF Started
    <3>3. CASE frame[g].parent # f
      BY <1>3, <3>1, <3>3 DEF Started
    <3> QED  BY <3>2, <3>3
  <2>3. frame[g].parent # 0 /\ Live(g)' => frame'[frame[g].parent].state \in Begun
    <3> SUFFICES ASSUME frame[g].parent # 0, Live(g)'
                 PROVE  frame'[frame[g].parent].state \in Begun
      OBVIOUS
    <3>1. g # f /\ Live(g) /\ frame[g].parent # f
      BY <1>3, <1>4
    <3> QED  BY <2>1, <3>1 DEF NodeInv
  <2>4. CASE g = f
    <3>1. frame[f].state # "none" /\ frame'[f].state \notin {"none", "dispatched", "queued"}
      BY DEF Live, Ended
    <3> QED  BY <2>1, <2>2, <2>3, <2>4, <3>1 DEF NodeInv
  <2>5. CASE g # f /\ g # p
    BY <2>1, <2>2, <2>3, <2>5 DEF NodeInv
  <2>6. CASE g # f /\ g = p
    <3>1. g # 0 /\ frame[g].state \in Begun
      BY <1>2, <2>6, FrameFacts
    <3> QED  BY <2>1, <2>2, <2>3, <2>6, <3>1 DEF NodeInv, Begun
  <2> QED  BY <2>4, <2>5, <2>6
<1>7. HolderInv'
  <2> SUFFICES ASSUME NEW a \in Adapters, holder'[a] # 0
               PROVE  frame'[holder'[a]].adapter = a /\ frame'[holder'[a]].state \in Begun
    BY DEF HolderInv
  <2>1. holder'[a] = holder[a] /\ holder[a] \in Frames /\ holder[a] # f
    BY <1>1, FrameFacts DEF FrameShape
  <2> QED  BY <1>1, <2>1 DEF HolderInv
<1>8. PendingInv'
  <2> SUFFICES ASSUME NEW a \in Adapters, NEW g \in pending'[a]
               PROVE  /\ Registered(g)' /\ frame'[g].parent # 0 /\ Caller(g)' = a
                      /\ pausing[a] \in {"grace", "paused"} => frame'[g].cancelled
    BY <1>1 DEF PendingInv
  <2>1. /\ g \in Frames /\ g # f /\ Registered(g) /\ frame[g].parent # 0 /\ Caller(g) = a
        /\ pausing[a] \in {"grace", "paused"} => frame[g].cancelled
    BY <1>1 DEF PendingInv, FrameShape
  <2>2. Caller(g)' = a
    BY <1>1, <2>1 DEF Caller
  <2> QED  BY <1>3, <2>1, <2>2 DEF Registered
<1>9. FatalInv'
  <2> SUFFICES ASSUME NEW g \in Frames, frame'[g].fatal, frame'[g].state \in Ended,
                      frame'[g].parent # 0,
                      frame'[frame'[g].parent].state \in {"running", "returned", "done"}
               PROVE  frame'[frame'[g].parent].fatal
    BY DEF FatalInv
  <2>1. frame[g].parent \in Frames /\ frame'[g].parent = frame[g].parent /\ NodeInv(g)
    BY <1>1
  <2>2. CASE g = f
    BY <2>1, <2>2
  <2>3. CASE g # f
    <3>1. g # p
      BY <1>2, <2>3, FrameFacts DEF Begun, Ended
    <3>2. frame'[g] = frame[g]
      BY <2>3, <3>1
    <3>3. CASE frame[g].parent = f
      <4>1. Started(f)
        BY <2>1, <3>3 DEF NodeInv
      <4>2. frame[f].state \in Begun
        BY <4>1 DEF Started, Live, Ended
      <4>3. frame'[f].state = "done"
        BY <2>1, <3>3, <4>2
      <4>4. frame[f].state # "failed"
        BY <4>3
      <4> QED  BY <1>1, <2>1, <3>2, <3>3, <4>2, <4>3, <4>4 DEF FatalInv, Begun
    <3>4. CASE frame[g].parent # f
      BY <1>1, <2>1, <3>2, <3>4 DEF FatalInv
    <3> QED  BY <3>3, <3>4
  <2> QED  BY <2>2, <2>3
<1>10. AnsweredOnce'
  <2> SUFFICES ASSUME NEW g \in Frames
               PROVE  issued[g] = answered'[g] + dropped'[g] + Cardinality(Children(g)')
    BY DEF AnsweredOnce
  <2>1. /\ issued[g] = answered[g] + dropped[g] + Cardinality(Children(g))
        /\ issued[g] \in Nat /\ answered[g] \in Nat /\ dropped[g] \in Nat
    BY <1>1 DEF AnsweredOnce, FrameShape
  <2>2. IsFiniteSet(Children(g)) /\ Cardinality(Children(g)) \in Nat
    BY ChildrenFinite
  <2>3. CASE g = p
    <3>1. Children(g)' = Children(g) \ {f} /\ f \in Children(g)
      BY <1>3, <2>3 DEF Children
    <3>2. Cardinality(Children(g)') = Cardinality(Children(g)) - 1
      BY <2>2, <3>1, FS_RemoveElement
    <3>3. \/ answered'[g] = answered[g] + 1 /\ dropped'[g] = dropped[g]
          \/ dropped'[g] = dropped[g] + 1 /\ answered'[g] = answered[g]
      BY <1>1, <1>2, <2>3, FrameFacts DEF FrameShape, Reply
    <3> QED  BY <2>1, <2>2, <3>2, <3>3
  <2>4. CASE g # p
    <3>1. Children(g)' = Children(g)
      BY <1>3, <2>4 DEF Children
    <3>2. answered'[g] = answered[g] /\ dropped'[g] = dropped[g]
      BY <1>1, <1>2, <2>4 DEF FrameShape, Reply, replyVars
    <3> QED  BY <2>1, <3>1, <3>2
  <2> QED  BY <2>3, <2>4
<1> QED  BY <1>5, <1>6, <1>7, <1>8, <1>9, <1>10 DEF ToolInv

\* A new execute, of a step or called by one whose adapter runs.
LEMMA ToolBegins ==
  ASSUME ToolInv, made < MaxFrames, NEW a \in Adapters, NEW p, NEW n, n = made + 1,
         p = 0 \/ (/\ p \in Frames /\ frame[p].state = "running"
                   /\ <<frame[p].adapter, a>> \in Allowed),
         UNCHANGED <<holder, pending, answered, dropped, gate, pausing>>,
         made' = n, frame' = [frame EXCEPT ![n] = NewFrame(a, p)],
         p = 0 => issued' = issued,
         p # 0 => issued' = [issued EXCEPT ![p] = @ + 1]
  PROVE  ToolInv'
<1>1. /\ FrameShape /\ HolderInv /\ PendingInv /\ FatalInv /\ AnsweredOnce
      /\ \A g \in Frames : NodeInv(g)
      /\ \A g \in Frames :
           frame[g] \in FrameType /\ (frame[g].parent # 0 => frame[g].parent \in Frames)
  BY ToolParts
<1>2. n \in Frames /\ made \in Nat /\ n > made
  BY <1>1, FrameFacts DEF FrameShape, Frames
<1>3. frame[n].state = "none"
  <2>1. NodeInv(n)
    BY <1>1, <1>2
  <2> QED  BY <1>2, <2>1 DEF NodeInv
<1>4. p # 0 => p \in Frames /\ p # n /\ p < n
  <2> SUFFICES ASSUME p # 0 PROVE p \in Frames /\ p # n /\ p < n
    OBVIOUS
  <2>1. p \in Frames /\ frame[p].state = "running" /\ NodeInv(p)
    BY <1>1
  <2> QED  BY <1>2, <1>3, <2>1, FrameFacts DEF NodeInv
<1>5. /\ NewFrame(a, p) \in FrameType
      /\ NewFrame(a, p).adapter = a /\ NewFrame(a, p).parent = p /\ ~NewFrame(a, p).fatal
      /\ NewFrame(a, p).state = IF p = 0 THEN "queued" ELSE "dispatched"
  <2>1. p \in 0 .. MaxFrames /\ (p # 0 => frame[p] \in FrameType)
    BY <1>1, <1>4, FrameFacts DEF Frames
  <2>2. (IF p = 0 THEN {} ELSE frame[p].above \cup {p}) \in SUBSET Frames
    BY <1>4, <2>1 DEF FrameType
  <2>3. (p # 0 /\ frame[p].cancelled) \in BOOLEAN
    OBVIOUS
  <2> QED  BY <2>1, <2>2, <2>3 DEF NewFrame, FrameType, States, Ended
<1>6. /\ frame'[n] = NewFrame(a, p) /\ frame' \in [Frames -> FrameType]
      /\ \A g \in Frames : g # n => frame'[g] = frame[g]
  BY <1>1, <1>2, <1>5 DEF FrameShape
<1>7. \A g \in Frames : frame[g].parent # n
  <2> TAKE g \in Frames
  <2>1. NodeInv(g)
    BY <1>1
  <2>2. ~Started(n) /\ n # 0
    BY <1>2, <1>3 DEF Started, Begun
  <2> QED  BY <2>1, <2>2 DEF NodeInv
<1>8. /\ ~Live(n) /\ Live(n)'
      /\ \A g \in Frames : g # n => Live(g)' = Live(g) /\ Started(g)' = Started(g)
  BY <1>2, <1>3, <1>5, <1>6 DEF Live, Started, Ended
<1>9. FrameShape'
  <2>1. issued' \in [Frames -> Nat]
    BY <1>1, <1>4 DEF FrameShape
  <2>2. made' \in 0 .. MaxFrames
    BY <1>2, FrameFacts
  <2> QED  BY <1>1, <1>6, <2>1, <2>2 DEF FrameShape
<1>10. \A g \in Frames : NodeInv(g)'
  <2> TAKE g \in Frames
  <2>1. NodeInv(g) /\ (frame[g].parent # 0 => frame[g].parent \in Frames)
    BY <1>1
  <2>2. CASE g = n
    <3>1. /\ frame'[g].adapter = a /\ frame'[g].parent = p /\ ~frame'[g].fatal
          /\ frame'[g].state = IF p = 0 THEN "queued" ELSE "dispatched"
      BY <1>5, <1>6, <2>2
    <3>2. p # 0 => /\ frame'[p] = frame[p] /\ frame[p].state = "running"
                   /\ <<frame[p].adapter, a>> \in Allowed
      BY <1>4, <1>6
    <3>3. p # 0 => Started(p)' /\ frame'[p].state \in Begun
      BY <3>2 DEF Started, Begun
    <3> QED  BY <1>2, <1>4, <2>2, <3>1, <3>2, <3>3 DEF NodeInv
  <2>3. CASE g # n
    <3>1. frame'[g] = frame[g] /\ Live(g)' = Live(g)
      BY <1>6, <1>8, <2>3
    <3>2. frame[g].parent # 0 => /\ frame'[frame[g].parent] = frame[frame[g].parent]
                                 /\ Started(frame[g].parent)' = Started(frame[g].parent)
      BY <1>6, <1>7, <2>1, <3>1 DEF Started
    <3>3. g > made' => g > made
      BY <1>2, FrameFacts
    <3> QED  BY <2>1, <3>1, <3>2, <3>3 DEF NodeInv
  <2> QED  BY <2>2, <2>3
<1>11. HolderInv'
  <2> SUFFICES ASSUME NEW b \in Adapters, holder[b] # 0
               PROVE  frame'[holder[b]].adapter = b /\ frame'[holder[b]].state \in Begun
    BY DEF HolderInv
  <2>1. /\ holder[b] \in Frames /\ frame[holder[b]].adapter = b
        /\ frame[holder[b]].state \in Begun
    BY <1>1, FrameFacts DEF HolderInv, FrameShape
  <2>2. holder[b] # n
    BY <1>3, <2>1 DEF Begun
  <2> QED  BY <1>6, <2>1, <2>2
<1>12. PendingInv'
  <2> SUFFICES ASSUME NEW b \in Adapters, NEW g \in pending[b]
               PROVE  /\ Registered(g)' /\ frame'[g].parent # 0 /\ Caller(g)' = b
                      /\ pausing[b] \in {"grace", "paused"} => frame'[g].cancelled
    BY <1>1 DEF PendingInv
  <2>1. /\ g \in Frames /\ Registered(g) /\ frame[g].parent # 0 /\ Caller(g) = b
        /\ pausing[b] \in {"grace", "paused"} => frame[g].cancelled
    BY <1>1 DEF PendingInv, FrameShape
  <2>2. g # n /\ frame'[g] = frame[g]
    BY <1>6, <1>8, <2>1 DEF Registered
  <2>3. Caller(g)' = b
    BY <1>1, <1>6, <1>7, <2>1, <2>2 DEF Caller
  <2> QED  BY <1>8, <2>1, <2>2, <2>3 DEF Registered
<1>13. FatalInv'
  <2> SUFFICES ASSUME NEW g \in Frames, frame'[g].fatal, frame'[g].state \in Ended,
                      frame'[g].parent # 0,
                      frame'[frame'[g].parent].state \in {"running", "returned", "done"}
               PROVE  frame'[frame'[g].parent].fatal
    BY DEF FatalInv
  <2>1. g # n /\ frame'[g] = frame[g]
    BY <1>5, <1>6
  <2>2. frame[g].parent \in Frames /\ frame[g].parent # n
    BY <1>1, <1>7, <2>1
  <2> QED  BY <1>1, <1>6, <2>1, <2>2 DEF FatalInv
<1>14. AnsweredOnce'
  <2> SUFFICES ASSUME NEW g \in Frames
               PROVE  issued'[g] = answered[g] + dropped[g] + Cardinality(Children(g)')
    BY DEF AnsweredOnce
  <2>1. /\ issued[g] = answered[g] + dropped[g] + Cardinality(Children(g))
        /\ issued[g] \in Nat /\ answered[g] \in Nat /\ dropped[g] \in Nat
    BY <1>1 DEF AnsweredOnce, FrameShape
  <2>2. IsFiniteSet(Children(g)) /\ Cardinality(Children(g)) \in Nat
    BY ChildrenFinite
  <2>3. n \notin Children(g)
    BY <1>8 DEF Children
  <2>4. CASE g = p
    <3>1. Children(g)' = Children(g) \cup {n}
      BY <1>2, <1>5, <1>6, <1>8, <2>4 DEF Children
    <3>2. Cardinality(Children(g)') = Cardinality(Children(g)) + 1
      BY <2>2, <2>3, <3>1, FS_AddElement
    <3>3. issued'[g] = issued[g] + 1
      BY <1>1, <1>4, <2>4, FrameFacts DEF FrameShape
    <3> QED  BY <2>1, <2>2, <3>2, <3>3
  <2>5. CASE g # p
    <3>1. Children(g)' = Children(g)
      BY <1>5, <1>6, <1>8, <2>5 DEF Children
    <3>2. issued'[g] = issued[g]
      BY <1>1, <1>4, <2>5 DEF FrameShape
    <3> QED  BY <2>1, <3>1, <3>2
  <2> QED  BY <2>4, <2>5
<1> QED  BY <1>9, <1>10, <1>11, <1>12, <1>13, <1>14 DEF ToolInv

-----------------------------------------------------------------------------
(* The steps.                                                              *)

\* Enter changes the state of one execute.
LEMMA EnterFacts ==
  ASSUME ToolInv, NEW f \in Frames, NEW s \in States, Enter(f, s)
  PROVE  /\ frame' \in [Frames -> FrameType]
         /\ \A g \in Frames : g # f => frame'[g] = frame[g]
         /\ frame'[f].adapter = frame[f].adapter /\ frame'[f].parent = frame[f].parent
         /\ frame'[f].cancelled = frame[f].cancelled /\ frame'[f].fatal = frame[f].fatal
         /\ frame'[f].state = s
<1>1. frame \in [Frames -> FrameType] /\ frame[f] \in FrameType
  BY ToolParts DEF FrameShape
<1>2. frame' = [frame EXCEPT ![f] = [frame[f] EXCEPT !.state = s]]
  BY <1>1 DEF Enter, FrameType
<1>3. [frame[f] EXCEPT !.state = s] \in FrameType
  BY <1>1 DEF FrameType
<1> QED  BY <1>1, <1>2, <1>3 DEF FrameType

LEMMA BeginSteps ==
  ASSUME ToolInv, \/ \E a \in StepAdapters : Execute(a)
                  \/ \E f \in Frames, b \in Adapters : DispatchCall(f, b)
  PROVE  ToolInv'
<1>1. ASSUME NEW a \in StepAdapters, Execute(a) PROVE ToolInv'
  <2>1. a \in Adapters
    BY DomainAssumption
  <2>2. /\ made < MaxFrames /\ made' = made + 1
        /\ frame' = [frame EXCEPT ![made + 1] = NewFrame(a, 0)]
        /\ UNCHANGED <<holder, pending, answered, dropped, gate, pausing>> /\ issued' = issued
    BY <1>1 DEF Execute, replyVars
  <2> QED  BY <2>1, <2>2, ToolBegins
<1>2. ASSUME NEW f \in Frames, NEW b \in Adapters, DispatchCall(f, b) PROVE ToolInv'
  <2>1. /\ made < MaxFrames /\ made' = made + 1 /\ frame[f].state = "running"
        /\ GateOf(f, b) = "pass"
        /\ frame' = [frame EXCEPT ![made + 1] = NewFrame(b, f)]
        /\ UNCHANGED <<holder, pending, answered, dropped, gate, pausing>>
        /\ issued' = [issued EXCEPT ![f] = @ + 1]
    BY <1>2 DEF DispatchCall, replyVars
  <2>2. <<frame[f].adapter, b>> \in Allowed
    BY <2>1 DEF GateOf
  <2>3. f # 0
    BY FrameFacts
  <2> QED  BY <2>1, <2>2, <2>3, ToolBegins
<1> QED  BY <1>1, <1>2

LEMMA MoveSteps ==
  ASSUME ToolInv, NEW f \in Frames,
         \/ StartExecute(f) \/ CalleeAborts(f)
         \/ AdapterReturns(f, "returned") \/ AdapterReturns(f, "failed")
  PROVE  ToolInv'
<1>1. /\ frame \in [Frames -> FrameType] /\ frame[f] \in FrameType
      /\ NodeInv(f)
  BY ToolParts DEF FrameShape
<1>2. CASE StartExecute(f)
  <2>1. /\ frame[f].state = "queued" /\ Enter(f, "running")
        /\ UNCHANGED <<made, pending, issued, answered, dropped, gate, pausing>>
        /\ holder' = (IF frame[f].adapter \in Concurrent THEN holder
                      ELSE [holder EXCEPT ![frame[f].adapter] = f])
    BY <1>2 DEF StartExecute, replyVars
  <2>2. "running" \in States
    BY DEF States
  <2> QED  BY <2>1, <2>2, EnterFacts, ToolMoves DEF Begun
<1>3. ASSUME NEW how \in {"returned", "failed"}, AdapterReturns(f, how) PROVE ToolInv'
  <2>1. /\ frame[f].state = "running" /\ Enter(f, how)
        /\ UNCHANGED <<made, holder, pending, issued, answered, dropped, gate, pausing>>
    BY <1>3 DEF AdapterReturns, replyVars
  <2>2. how \in States /\ how \in Begun
    BY DEF States, Begun
  <2>3. /\ frame' \in [Frames -> FrameType]
        /\ \A g \in Frames : g # f => frame'[g] = frame[g]
        /\ frame'[f].adapter = frame[f].adapter /\ frame'[f].parent = frame[f].parent
        /\ frame'[f].cancelled = frame[f].cancelled /\ frame'[f].fatal = frame[f].fatal
        /\ frame'[f].state = how
    BY <2>1, <2>2, EnterFacts
  <2> QED  BY <2>1, <2>2, <2>3, ToolMoves
<1>4. CASE CalleeAborts(f)
  <2> DEFINE r == [frame[f] EXCEPT !.state = "returned", !.fatal = TRUE]
  <2>1. /\ frame[f].state = "running"
        /\ frame' = [frame EXCEPT ![f].state = "returned", ![f].fatal = TRUE]
        /\ UNCHANGED <<made, holder, pending, issued, answered, dropped, gate, pausing>>
    BY <1>4 DEF CalleeAborts, replyVars
  <2>2. /\ r \in FrameType /\ r.state = "returned" /\ r.fatal
        /\ r.adapter = frame[f].adapter /\ r.parent = frame[f].parent
        /\ r.cancelled = frame[f].cancelled
    BY <1>1 DEF FrameType, States
  <2>3. frame' = [frame EXCEPT ![f] = r]
    BY <1>1, <2>1 DEF FrameType
  <2> HIDE DEF r
  <2>4. frame' \in [Frames -> FrameType] /\ frame'[f] = r
        /\ \A g \in Frames : g # f => frame'[g] = frame[g]
    BY <1>1, <2>2, <2>3
  <2> QED  BY <2>1, <2>2, <2>4, ToolMoves DEF Begun
<1> QED  BY <1>2, <1>3, <1>4

\* Settle ends an execute that is queued or whose adapter call is over.
LEMMA SettleEnds ==
  ASSUME ToolInv, NEW f \in Frames, frame[f].state \in {"queued", "returned", "failed"},
         Children(f) = {}, Settle(f)
  PROVE  ToolInv'
<1> DEFINE p == frame[f].parent
           r == [frame[f] EXCEPT !.state = IF @ = "failed" THEN "erred" ELSE "done",
                                 !.fatal = Fatal(f)]
           q == [frame[p] EXCEPT !.fatal = @ \/ Fatal(f)]
<1>1. /\ FrameShape /\ PendingInv /\ NodeInv(f)
      /\ \A g \in Frames : frame[g] \in FrameType
      /\ p # 0 => p \in Frames /\ NodeInv(p)
  BY ToolParts
<1>2. p # 0 => p # f /\ p < f
  BY <1>1, FrameFacts DEF NodeInv
<1>3. /\ frame' = [g \in Frames |-> IF g = f THEN r ELSE IF g = p THEN q ELSE frame[g]]
      /\ holder' = [a \in Adapters |-> IF holder[a] = f THEN 0 ELSE holder[a]]
      /\ UNCHANGED <<made, issued, gate, pausing>>
      /\ p = 0 => UNCHANGED <<pending, answered, dropped>>
      /\ p # 0 => ClearPending(Caller(f), f) /\ Reply(p)
  BY DEF Settle, replyVars
<1>4. /\ r \in FrameType /\ r.adapter = frame[f].adapter /\ r.parent = frame[f].parent
      /\ r.cancelled = frame[f].cancelled /\ r.fatal = Fatal(f)
      /\ r.state = IF frame[f].state = "failed" THEN "erred" ELSE "done"
  <2>1. frame[f] \in FrameType /\ Fatal(f) \in BOOLEAN
    BY <1>1 DEF Fatal, FrameType
  <2> QED  BY <2>1 DEF FrameType, States, Ended
<1>5. p # 0 => /\ q \in FrameType /\ q.adapter = frame[p].adapter
               /\ q.parent = frame[p].parent /\ q.state = frame[p].state
               /\ q.cancelled = frame[p].cancelled /\ q.fatal = (frame[p].fatal \/ Fatal(f))
  <2> SUFFICES ASSUME p # 0
               PROVE  /\ q \in FrameType /\ q.adapter = frame[p].adapter
                      /\ q.parent = frame[p].parent /\ q.state = frame[p].state
                      /\ q.cancelled = frame[p].cancelled /\ q.fatal = (frame[p].fatal \/ Fatal(f))
    OBVIOUS
  <2>1. frame[p] \in FrameType /\ Fatal(f) \in BOOLEAN
    BY <1>1 DEF Fatal, FrameType
  <2> QED  BY <2>1 DEF FrameType
<1>6. \A g \in Frames : g = p => p # 0
  BY FrameFacts
<1> HIDE DEF q, r
<1>7. frame' \in [Frames -> FrameType]
  BY <1>1, <1>3, <1>4, <1>5, <1>6
<1>8. frame'[f] = r /\ (p # 0 => frame'[p] = q)
      /\ \A g \in Frames : g # f /\ g # p => frame'[g] = frame[g]
  BY <1>1, <1>2, <1>3
<1>9. \A g \in Frames : /\ g # f /\ g # p => frame'[g] = frame[g]
                        /\ frame'[g].adapter = frame[g].adapter
                        /\ frame'[g].parent = frame[g].parent
                        /\ frame'[g].cancelled = frame[g].cancelled
                        /\ g # f => frame'[g].state = frame[g].state
                        /\ g # f /\ frame[g].fatal => frame'[g].fatal
  <2> TAKE g \in Frames
  <2>1. CASE g = f
    BY <1>4, <1>8, <2>1
  <2>2. CASE g # f /\ g = p
    BY <1>5, <1>6, <1>8, <2>2
  <2>3. CASE g # f /\ g # p
    BY <1>8, <2>3
  <2> QED  BY <2>1, <2>2, <2>3
<1>10. /\ frame'[f].state \in Ended /\ Live(f)
       /\ frame[f].state \in Begun => frame'[f].state \in {"done", "erred"}
       /\ frame[f].state = "failed" => frame'[f].state = "erred"
       /\ frame[f].state \in Begun /\ frame'[f].state = "done" /\ frame[f].fatal
            => frame'[f].fatal
       /\ p # 0 /\ frame'[f].fatal => frame'[p].fatal
  BY <1>4, <1>5, <1>8 DEF Ended, Live, Fatal, Begun
<1>11. /\ holder' \in [Adapters -> 0 .. MaxFrames]
       /\ \A a \in Adapters : holder'[a] # f /\ holder'[a] \in {0, holder[a]}
  <2>1. holder \in [Adapters -> 0 .. MaxFrames] /\ 0 \in 0 .. MaxFrames /\ f # 0
    BY <1>1, FrameFacts DEF FrameShape
  <2> QED  BY <1>3, <2>1
<1>12. /\ pending' \in [Adapters -> SUBSET Frames]
       /\ \A a \in Adapters : pending'[a] = pending[a] \ {f}
  <2>1. pending \in [Adapters -> SUBSET Frames]
    BY <1>1 DEF FrameShape
  <2>2. \A a \in Adapters : f \in pending[a] => p # 0 /\ a = Caller(f)
    BY <1>1 DEF PendingInv
  <2>3. CASE p = 0
    BY <1>3, <2>1, <2>2, <2>3
  <2>4. CASE p # 0
    BY <1>3, <2>1, <2>2, <2>4 DEF ClearPending
  <2> QED  BY <2>3, <2>4
<1> QED  BY <1>3, <1>7, <1>9, <1>10, <1>11, <1>12, ToolEnds DEF replyVars

LEMMA EndSteps ==
  ASSUME ToolInv, NEW f \in Frames, FinishExecute(f) \/ AbandonQueued(f)
  PROVE  ToolInv'
<1>1. CASE FinishExecute(f)
  BY <1>1, SettleEnds DEF FinishExecute
<1>2. CASE AbandonQueued(f)
  <2>1. frame[f].state = "queued" /\ Settle(f)
    BY <1>2 DEF AbandonQueued
  <2>2. Children(f) = {}
    <3> SUFFICES ASSUME NEW g \in Frames, frame[g].parent = f PROVE FALSE
      BY DEF Children
    <3>1. NodeInv(g) /\ f # 0
      BY ToolParts, FrameFacts
    <3> QED  BY <2>1, <3>1 DEF NodeInv, Started, Begun
  <2> QED  BY <2>1, <2>2, SettleEnds
<1> QED  BY <1>1, <1>2

\* The registry takes a call or, when the gate is closed, refuses it.
LEMMA RegisterSteps ==
  ASSUME ToolInv, NEW f \in Frames, RegisterCall(f)
  PROVE  ToolInv'
<1> DEFINE p == frame[f].parent
<1>1. /\ FrameShape /\ PendingInv /\ HolderInv /\ NodeInv(f) /\ (p # 0 => p \in Frames)
  BY ToolParts
<1>2. frame[f].state = "dispatched" /\ UNCHANGED <<made, holder, issued, gate, pausing>>
  BY DEF RegisterCall, replyVars
<1>3. p # 0 /\ p \in Frames
  BY <1>1, <1>2 DEF NodeInv
<1>4. CASE ~gate[Caller(f)]
  <2>1. Enter(f, "queued") /\ RegisterPending(Caller(f), f) /\ UNCHANGED replyVars
    BY <1>4 DEF RegisterCall, replyVars
  <2>2. "queued" \in States
    BY DEF States
  <2>3. ~frame[f].fatal
    BY <1>1, <1>2 DEF NodeInv
  <2>4. pending' = [pending EXCEPT ![Caller(f)] = @ \cup {f}]
    BY <2>1 DEF RegisterPending
  <2>5. /\ frame' \in [Frames -> FrameType]
        /\ \A g \in Frames : g # f => frame'[g] = frame[g]
        /\ frame'[f].adapter = frame[f].adapter /\ frame'[f].parent = frame[f].parent
        /\ frame'[f].cancelled = frame[f].cancelled /\ frame'[f].fatal = frame[f].fatal
        /\ frame'[f].state = "queued"
    BY <2>1, <2>2, EnterFacts
  <2> QED  BY <1>2, <1>3, <1>4, <2>1, <2>3, <2>4, <2>5, ToolMoves DEF replyVars
<1>5. CASE gate[Caller(f)]
  <2>1. /\ Enter(f, "refused") /\ pending' = pending
        /\ Reply(p)
    BY <1>5 DEF RegisterCall, replyVars
  <2>2. "refused" \in States
    BY DEF States, Ended
  <2>3. /\ frame' \in [Frames -> FrameType]
        /\ \A g \in Frames : g # f => frame'[g] = frame[g]
        /\ frame'[f].adapter = frame[f].adapter /\ frame'[f].parent = frame[f].parent
        /\ frame'[f].cancelled = frame[f].cancelled /\ frame'[f].fatal = frame[f].fatal
        /\ frame'[f].state = "refused"
    BY <2>1, <2>2, EnterFacts
  <2>4. Live(f) /\ ~frame[f].fatal /\ frame[f].state \notin Begun
    BY <1>1, <1>2 DEF NodeInv, Live, Ended, Begun
  <2>5. Children(f) = {}
    <3> SUFFICES ASSUME NEW g \in Frames, frame[g].parent = f PROVE FALSE
      BY DEF Children
    <3>1. NodeInv(g) /\ f # 0
      BY ToolParts, FrameFacts
    <3> QED  BY <1>2, <3>1 DEF NodeInv, Started, Begun
  <2>6. /\ holder' \in [Adapters -> 0 .. MaxFrames]
        /\ \A a \in Adapters : holder'[a] # f /\ holder'[a] \in {0, holder[a]}
    <3>1. holder \in [Adapters -> 0 .. MaxFrames] /\ f # 0
      BY <1>1, FrameFacts DEF FrameShape
    <3> QED  BY <1>1, <1>2, <2>4, <3>1 DEF HolderInv
  <2>7. /\ pending' \in [Adapters -> SUBSET Frames]
        /\ \A a \in Adapters : pending'[a] = pending[a] \ {f}
    <3>1. \A a \in Adapters : f \notin pending[a]
      BY <1>1, <1>2 DEF PendingInv, Registered
    <3> QED  BY <1>1, <2>1, <3>1 DEF FrameShape
  <2>8. \A g \in Frames : /\ g # f /\ g # p => frame'[g] = frame[g]
                          /\ frame'[g].adapter = frame[g].adapter
                          /\ frame'[g].parent = frame[g].parent
                          /\ frame'[g].cancelled = frame[g].cancelled
                          /\ g # f => frame'[g].state = frame[g].state
                          /\ g # f /\ frame[g].fatal => frame'[g].fatal
    BY <2>3
  <2>9. /\ frame'[f].state \in Ended /\ ~frame'[f].fatal /\ frame[f].state # "failed"
    BY <1>2, <2>3, <2>4 DEF Ended
  <2>10. /\ UNCHANGED <<made, issued, gate, pausing>> /\ frame' \in [Frames -> FrameType]
         /\ p = 0 => UNCHANGED replyVars
         /\ p # 0 => Reply(p)
         /\ p # 0 /\ frame'[f].fatal => frame'[p].fatal
         /\ frame[f].state \in Begun => frame'[f].state \in {"done", "erred"}
         /\ frame[f].state = "failed" => frame'[f].state = "erred"
         /\ frame[f].state \in Begun /\ frame'[f].state = "done" /\ frame[f].fatal
              => frame'[f].fatal
    BY <1>2, <1>3, <2>1, <2>3, <2>4, <2>9
  <2> QED  BY <2>4, <2>5, <2>6, <2>7, <2>8, <2>9, <2>10, ToolEnds
<1> QED  BY <1>4, <1>5

\* The pause and the contexts: no execute moves.
LEMMA PauseSteps ==
  ASSUME ToolInv,
         \/ \E f \in Frames : CancelStep(f)
         \/ \E a \in Adapters : BeginPause(a) \/ CancelStragglers(a) \/ FinishPause(a) \/ Resume(a)
  PROVE  ToolInv'
<1>1. /\ FrameShape /\ PendingInv /\ \A g \in Frames : frame[g] \in FrameType
  BY ToolParts
<1>2. /\ frame \in [Frames -> FrameType] /\ gate \in [Adapters -> BOOLEAN]
      /\ pending \in [Adapters -> SUBSET Frames]
      /\ pausing \in [Adapters -> {"no", "drain", "grace", "paused"}]
  BY <1>1 DEF FrameShape
<1>3. ASSUME NEW C, frame' = [g \in Frames |-> IF g \in C THEN [frame[g] EXCEPT !.cancelled = TRUE]
                                               ELSE frame[g]]
      PROVE  /\ frame' \in [Frames -> FrameType]
             /\ \A g \in Frames : /\ frame'[g].adapter = frame[g].adapter
                                  /\ frame'[g].parent = frame[g].parent
                                  /\ frame'[g].state = frame[g].state
                                  /\ frame'[g].fatal = frame[g].fatal
                                  /\ frame[g].cancelled \/ g \in C => frame'[g].cancelled
  <2>1. \A g \in Frames : LET r == [frame[g] EXCEPT !.cancelled = TRUE] IN
          /\ r \in FrameType /\ r.adapter = frame[g].adapter /\ r.parent = frame[g].parent
          /\ r.state = frame[g].state /\ r.fatal = frame[g].fatal /\ r.cancelled
    <3> TAKE g \in Frames
    <3>1. frame[g] \in FrameType
      BY <1>1
    <3> QED  BY <3>1 DEF FrameType
  <2>2. \A g \in Frames : frame'[g] = IF g \in C THEN [frame[g] EXCEPT !.cancelled = TRUE] ELSE frame[g]
    BY <1>3
  <2>3. \A g \in Frames : frame'[g] \in FrameType
    BY <1>1, <2>1, <2>2
  <2>4. frame' \in [Frames -> FrameType]
    BY <1>3, <2>2, <2>3
  <2> QED  BY <2>1, <2>2, <2>4
<1>4. ASSUME NEW f \in Frames, CancelStep(f) PROVE ToolInv'
  <2>1. /\ frame' = [g \in Frames |-> IF g \in Below(f) THEN [frame[g] EXCEPT !.cancelled = TRUE]
                                      ELSE frame[g]]
        /\ UNCHANGED <<made, holder, pending, issued, answered, dropped>> /\ gate' = gate /\ pausing' = pausing
    BY <1>4 DEF CancelStep, replyVars
  <2>2. /\ frame' \in [Frames -> FrameType]
        /\ \A g \in Frames : /\ frame'[g].adapter = frame[g].adapter
                             /\ frame'[g].parent = frame[g].parent
                             /\ frame'[g].state = frame[g].state
                             /\ frame'[g].fatal = frame[g].fatal
                             /\ frame[g].cancelled => frame'[g].cancelled
    BY <1>3, <2>1
  <2>3. \A a \in Adapters :
          /\ pausing'[a] # "no" => gate'[a]
          /\ \A g \in pending[a] : pausing'[a] \in {"grace", "paused"} => frame'[g].cancelled
    BY <1>1, <1>2, <2>1, <2>2 DEF PendingInv
  <2> QED  BY <1>2, <2>1, <2>2, <2>3, ToolCalm
<1>5. ASSUME NEW a \in Adapters, CancelStragglers(a) PROVE ToolInv'
  <2> DEFINE C == {g \in Frames : \E s \in pending[a] : g \in Below(s)}
  <2>1. /\ pausing[a] = "drain" /\ pausing' = [pausing EXCEPT ![a] = "grace"] /\ gate' = gate
        /\ frame' = [g \in Frames |-> IF g \in C THEN [frame[g] EXCEPT !.cancelled = TRUE]
                                      ELSE frame[g]]
        /\ UNCHANGED <<made, holder, pending, issued, answered, dropped>>
    BY <1>5 DEF CancelStragglers, replyVars
  <2>2. \A g \in pending[a] : g \in C
    BY <1>1, <1>2 DEF PendingInv, Registered, Below
  <2> HIDE DEF C
  <2>3. /\ frame' \in [Frames -> FrameType]
        /\ \A g \in Frames : /\ frame'[g].adapter = frame[g].adapter
                             /\ frame'[g].parent = frame[g].parent
                             /\ frame'[g].state = frame[g].state
                             /\ frame'[g].fatal = frame[g].fatal
                             /\ frame[g].cancelled \/ g \in C => frame'[g].cancelled
    BY <1>3, <2>1
  <2>4. /\ pausing' \in [Adapters -> {"no", "drain", "grace", "paused"}]
        /\ \A b \in Adapters : b # a => pausing'[b] = pausing[b]
    BY <1>2, <2>1
  <2>5. \A b \in Adapters :
          /\ pausing'[b] # "no" => gate'[b]
          /\ \A g \in pending[b] : pausing'[b] \in {"grace", "paused"} => frame'[g].cancelled
    <3> TAKE b \in Adapters
    <3>1. CASE b = a
      BY <1>1, <1>2, <2>1, <2>2, <2>3, <3>1 DEF PendingInv
    <3>2. CASE b # a
      BY <1>1, <1>2, <2>1, <2>3, <2>4, <3>2 DEF PendingInv
    <3> QED  BY <3>1, <3>2
  <2> QED  BY <1>2, <2>1, <2>3, <2>4, <2>5, ToolCalm
<1>6. ASSUME NEW a \in Adapters, BeginPause(a) \/ FinishPause(a) \/ Resume(a) PROVE ToolInv'
  <2>1. UNCHANGED <<frame, made, holder, pending, issued, answered, dropped>>
    BY <1>6 DEF BeginPause, FinishPause, Resume, replyVars
  <2>2. \/ /\ gate' = [gate EXCEPT ![a] = TRUE] /\ pausing' = [pausing EXCEPT ![a] = "drain"]
        \/ /\ gate' = gate /\ pausing' = [pausing EXCEPT ![a] = "paused"] /\ pausing[a] = "grace"
        \/ /\ gate' = [gate EXCEPT ![a] = FALSE] /\ pausing' = [pausing EXCEPT ![a] = "no"]
    BY <1>6 DEF BeginPause, FinishPause, Resume, replyVars
  <2>3. /\ gate' \in [Adapters -> BOOLEAN]
        /\ pausing' \in [Adapters -> {"no", "drain", "grace", "paused"}]
        /\ \A b \in Adapters : b # a => pausing'[b] = pausing[b] /\ gate'[b] = gate[b]
    BY <1>2, <2>2
  <2>4. \A b \in Adapters :
          /\ pausing'[b] # "no" => gate'[b]
          /\ \A g \in pending[b] : pausing'[b] \in {"grace", "paused"} => frame'[g].cancelled
    <3> TAKE b \in Adapters
    <3>1. CASE b = a
      BY <1>1, <1>2, <2>1, <2>2, <3>1 DEF PendingInv
    <3>2. CASE b # a
      BY <1>1, <2>1, <2>3, <3>2 DEF PendingInv
    <3> QED  BY <3>1, <3>2
  <2> QED  BY <1>2, <2>1, <2>3, <2>4, ToolCalm
<1> QED  BY <1>4, <1>5, <1>6

\* Every reachable state of the tool calls satisfies the invariant.
THEOREM ToolInvariant == ToolSpec => []ToolInv
<1>1. ToolInit => ToolInv
  BY ToolInitially
<1>2. ToolInv /\ [ToolNext]_toolVars => ToolInv'
  <2> SUFFICES ASSUME ToolInv, [ToolNext]_toolVars PROVE ToolInv'
    OBVIOUS
  <2>1. CASE UNCHANGED toolVars
    <3>1. UNCHANGED <<frame, made, holder, pending, issued, answered, dropped, gate, pausing>>
      BY <2>1 DEF toolVars, replyVars
    <3>2. FrameShape /\ PendingInv
      BY ToolParts
    <3> QED  BY <3>1, <3>2, ToolCalm DEF FrameShape, PendingInv
  <2>2. CASE \E a \in StepAdapters : Execute(a)
    BY <2>2, BeginSteps
  <2>3. CASE \E f \in Frames, b \in Adapters : DispatchCall(f, b)
    BY <2>3, BeginSteps
  <2>4. ASSUME NEW f \in Frames, Progress(f) PROVE ToolInv'
    BY <2>4, MoveSteps, EndSteps, RegisterSteps DEF Progress
  <2>5. CASE \E f \in Frames : CancelStep(f)
    BY <2>5, PauseSteps
  <2>6. CASE \E a \in Pausable : BeginPause(a) \/ CancelStragglers(a) \/ FinishPause(a) \/ Resume(a)
    BY <2>6, PauseSteps, DomainAssumption
  <2> QED  BY <2>1, <2>2, <2>3, <2>4, <2>5, <2>6 DEF ToolNext
<1> QED  BY <1>1, <1>2, PTL DEF ToolSpec

\* Every dispatched call gets exactly one reply, queued for the caller or dropped
\* at a full queue (runNestedToolCall, the refusal in startNestedToolCall and
\* sendToolCallResultEvent): what has none yet is a nested execute under way.
THEOREM AnsweredTheorem == ToolSpec => []AnsweredOnce
<1>1. ToolInv => AnsweredOnce
  BY DEF ToolInv
<1> QED  BY <1>1, ToolInvariant, PTL

\* A paused session has no registered call that was not cancelled: the second
\* reading of the pause gate, under the registry's lock, lets none slip in.
THEOREM PausedTheorem == ToolSpec => []PausedIsDrained
<1>1. ToolInv => PausedIsDrained
  BY DEF ToolInv, PendingInv, PausedIsDrained
<1> QED  BY <1>1, ToolInvariant, PTL

\* A callee crash under abort_run reaches every caller whose own adapter call
\* succeeded (latchNestedFatal and the reading of it in finishExecute).
THEOREM FatalTheorem == ToolSpec => []FatalReachesCaller
<1>1. ToolInv => FatalReachesCaller
  BY DEF ToolInv, FatalInv, FatalReachesCaller
<1> QED  BY <1>1, ToolInvariant, PTL

\* When the grants and allow_tools order the adapters, so that a call always
\* goes to an adapter of lower rank, no executes wait for each other in a
\* circle, whatever the number of steps: the one of a circle that is on the
\* adapter of least rank would have to wait for one of still lower rank.
THEOREM CircleTheorem ==
  ASSUME NEW rank \in [Adapters -> Nat],
         \A a, b \in Adapters : <<a, b>> \in Allowed => rank[b] < rank[a]
  PROVE  ToolSpec => []NoCircularWait
<1>1. ASSUME ToolInv PROVE NoCircularWait
  <2> SUFFICES ASSUME NEW S \in SUBSET {f \in Frames : WaitsFor(f) # {}}, S # {},
                      \A f \in S : WaitsFor(f) \cap S # {}
               PROVE  FALSE
    BY DEF NoCircularWait
  <2>1. /\ FrameShape /\ HolderInv /\ \A g \in Frames : NodeInv(g)
        /\ \A g \in Frames : frame[g].parent # 0 => frame[g].parent \in Frames
    BY <1>1, ToolParts
  <2> DEFINE R(f) == rank[frame[f].adapter]
  <2>2. \A f \in S : f \in Frames /\ frame[f].state \in {"queued", "returned", "failed"}
    BY DEF WaitsFor
  <2>3. \A f \in S : frame[f].adapter \in Adapters /\ R(f) \in Nat
    BY <2>1, <2>2 DEF NodeInv
  <2>4. PICK m \in S : \A f \in S : R(m) <= R(f)
    <3> DEFINE T == {R(f) : f \in S}
    <3>1. T \subseteq Nat /\ T # {}
      BY <2>3
    <3>2. PICK t \in T : \A y \in T : ~(<<y, t>> \in OpToRel(<, Nat))
      BY <3>1, NatLessThanWellFounded, WFMin
    <3>3. PICK m \in S : t = R(m)
      OBVIOUS
    <3>4. \A f \in S : ~(R(f) < R(m))
      BY <3>1, <3>2, <3>3 DEF OpToRel
    <3>5. \A f \in S : R(m) <= R(f)
      <4> TAKE f \in S
      <4>1. R(f) \in Nat /\ R(m) \in Nat /\ ~(R(f) < R(m))
        BY <2>3, <3>4
      <4> HIDE DEF R
      <4> QED  BY <4>1
    <3> QED  BY <3>5
  <2>5. ASSUME NEW f \in S, frame[f].state \in {"returned", "failed"}
        PROVE  \E g \in S : R(g) < R(f)
    <3>1. PICK g \in S : g \in Children(f)
      BY <2>5 DEF WaitsFor
    <3>2. g \in Frames /\ frame[g].parent = f /\ NodeInv(g) /\ f # 0
      BY <2>1, <2>2, <3>1, FrameFacts DEF Children
    <3>3. <<frame[f].adapter, frame[g].adapter>> \in Allowed
      BY <3>2 DEF NodeInv
    <3> QED  BY <2>3, <3>3
  <2>6. CASE frame[m].state \in {"returned", "failed"}
    BY <2>3, <2>4, <2>5, <2>6
  <2>7. CASE frame[m].state = "queued"
    <3> DEFINE h == holder[frame[m].adapter]
    <3>1. h \in S /\ ~TurnFree(frame[m].adapter)
      BY <2>2, <2>7 DEF WaitsFor
    <3>2. h # 0 /\ frame[m].adapter \in Adapters
      BY <2>3, <3>1 DEF TurnFree
    <3>3. frame[h].adapter = frame[m].adapter /\ frame[h].state \in Begun
      BY <2>1, <3>2 DEF HolderInv
    <3>4. frame[h].state \in {"returned", "failed"}
      BY <2>2, <3>1, <3>3 DEF Begun
    <3>5. PICK g \in S : R(g) < R(h)
      BY <2>5, <3>1, <3>4
    <3> QED  BY <2>3, <2>4, <3>3, <3>5
  <2> QED  BY <2>2, <2>6, <2>7
<1> QED  BY <1>1, ToolInvariant, PTL
=============================================================================
