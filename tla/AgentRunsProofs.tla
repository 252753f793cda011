-------------------------- MODULE AgentRunsProofs --------------------------
(***************************************************************************)
(* Proofs about AgentRuns, for every set of runs, every length of a        *)
(* workflow and every number of processes.  The hand-off is safe because   *)
(* the run called active is the one whose goroutine has not released it    *)
(* (PlaceInv).  That a run which is over is not executed again rests on    *)
(* what the process remembers: a run that is queued or about to execute is *)
(* not over (OverInv), because a run that ends is active until it is       *)
(* completed and a duplicate assignment is declined meanwhile (QueueInv).  *)
(* What is interrupted can be resumed because the end of a run is among    *)
(* its undelivered events or known to the server before its state file     *)
(* goes, and no goroutine of a stopping agent adds one (EventInv, CutInv). *)
(***************************************************************************)
EXTENDS AgentRuns, SequenceTheorems, TLAPS

PCs == {"idle", "load", "compile", "run", "exec", "ran", "await", "drain",
        "close", "cleanup", "mark", "finish", "next", "claim"}

EventRec == [kind : {"started", "entered", "paused", "over"}, step : Nat]

WorkRec == [pc : PCs, at : Nat, res : {"none", "ok", "err", "paused"}, cred : Nat,
            again : BOOLEAN, cancel : BOOLEAN, token : BOOLEAN]

Queued == [run : Runs, cred : Nat \ {0}]

Shape ==
  /\ srv \in [Runs -> [status : {"none", "running", "paused", "over"}, step : Nat]]
  /\ state \in [Runs -> Nat]
  /\ life \in Nat \ {0} /\ stopping \in BOOLEAN /\ todo \subseteq Runs /\ inbox \in Seq(Runs)
  /\ active \in Runs \cup {None} /\ pending \in Seq(Queued)
  /\ work \in [Runs -> WorkRec] /\ tail \in [Runs -> Seq(EventRec)]
  /\ cutOff \in [Runs -> {"none", "step", "declared", "compile"}] /\ began \subseteq Runs

(* The active run is the one whose goroutine has not released its place.    *)
PlaceInv ==
  /\ OneAtATime
  /\ active # None => work[active].pc \notin Released
  /\ \A r \in Runs : work[r].pc \notin Released => work[r].cred # 0

InQueue(r) == \E i \in 1..Len(pending) : pending[i].run = r

(* A run is queued once, and neither while it is active nor when it is      *)
(* completed; before its loop starts a process works on no run.             *)
QueueInv ==
  /\ \A i, j \in 1..Len(pending) : pending[i].run = pending[j].run => i = j
  /\ \A r \in Runs : InQueue(r) => r # active /\ r \notin completed
  /\ \A r \in todo : main = "recover" /\ state[r] # 0 /\ ~InQueue(r) /\ r \notin completed
  /\ main \in {"down", "recover"} => \A r \in Runs : work[r].pc = "idle"
  /\ main = "down" => pending = <<>> /\ todo = {} /\ inbox = <<>> /\ completed = {}

(* The goroutine may still execute a step.                                  *)
Busy(r) == \/ work[r].pc \in {"load", "compile", "run", "exec", "await"}
           \/ work[r].pc = "ran" /\ work[r].res = "paused"

IsOver(r) == srv[r].status = "over"

(* What is undelivered: nothing of a goroutine that has no publisher, no    *)
(* end of a run that goes on, and the end of one that was successful unless *)
(* the server has it.                                                       *)
EventInv(r) ==
  /\ work[r].pc \in Released \cup {"load", "compile", "mark", "finish"} => tail[r] = <<>>
  /\ Busy(r) => ~EndsIn(tail[r])
  /\ work[r].pc \in {"ran", "drain"} /\ work[r].res = "ok" => IsOver(r) \/ EndsIn(tail[r])

(* Nothing that is over goes on or is queued, and an assignment of it will  *)
(* be declined.                                                             *)
OverInv(r) ==
  ~stopping =>
    /\ IsOver(r) => ~Busy(r) /\ ~InQueue(r)
    /\ IsOver(r) /\ (\E i \in 1..Len(inbox) : inbox[i] = r) => r = active \/ r \in completed
    /\ work[r].pc = "finish" => r \in completed

(* A goroutine that was broken off adds no end of its run.                  *)
CutInv(r) ==
  cutOff[r] = "step" =>
    /\ ~IsOver(r) /\ ~EndsIn(tail[r])
    /\ work[r].pc \notin {"run", "exec", "await"}
    /\ work[r].pc = "ran" => stopping

(* The state file of a run that was begun goes when it is over.             *)
FileInv(r) == r \in began \ excused /\ ~IsOver(r) => state[r] # 0

RunInv(r) == EventInv(r) /\ OverInv(r) /\ CutInv(r) /\ FileInv(r)

IInv == Shape /\ PlaceInv /\ QueueIsServed /\ QueueInv /\ \A r \in Runs : RunInv(r)

-----------------------------------------------------------------------------
(* What a step of a goroutine does to it.                                   *)
Moves(r, pc, res) ==
  /\ work' \in [Runs -> WorkRec]
  /\ work'[r].pc = pc /\ work'[r].res = res /\ work'[r].cred = work[r].cred
  /\ \A q \in Runs \ {r} : work'[q] = work[q]

(* Go, and an assignment to the position as well.                           *)
LEMMA GoMoves ==
    ASSUME work \in [Runs -> WorkRec], NEW r \in Runs, NEW p \in PCs, NEW n \in Nat,
           \/ Go(r, p)
           \/ work' = [work EXCEPT ![r].pc = p, ![r].at = n]
           \/ work' = [work EXCEPT ![r].pc = p, ![r].again = TRUE, ![r].token = FALSE]
    PROVE  Moves(r, p, work[r].res)
  <1>1. work[r] \in WorkRec
    OBVIOUS
  <1> DEFINE w == work'[r]
  <1>2. CASE Go(r, p)
    <2>1. w = [work[r] EXCEPT !.pc = p] /\ work' = [work EXCEPT ![r] = w]
      BY <1>2 DEF Go
    <2>2. w \in WorkRec /\ w.pc = p /\ w.res = work[r].res /\ w.cred = work[r].cred
      BY <1>1, <2>1 DEF WorkRec
    <2> QED BY <2>1, <2>2 DEF Moves
  <1>3. CASE work' = [work EXCEPT ![r].pc = p, ![r].at = n]
    <2>1. w = [work[r] EXCEPT !.pc = p, !.at = n] /\ work' = [work EXCEPT ![r] = w]
      BY <1>3
    <2>2. w \in WorkRec /\ w.pc = p /\ w.res = work[r].res /\ w.cred = work[r].cred
      BY <1>1, <2>1 DEF WorkRec
    <2> QED BY <2>1, <2>2 DEF Moves
  <1>4. CASE work' = [work EXCEPT ![r].pc = p, ![r].again = TRUE, ![r].token = FALSE]
    <2>1. /\ w = [work[r] EXCEPT !.pc = p, !.again = TRUE, !.token = FALSE]
          /\ work' = [work EXCEPT ![r] = w]
      BY <1>4
    <2>2. w \in WorkRec /\ w.pc = p /\ w.res = work[r].res /\ w.cred = work[r].cred
      BY <1>1, <2>1 DEF WorkRec
    <2> QED BY <2>1, <2>2 DEF Moves
  <1> QED BY <1>2, <1>3, <1>4

(* Ends.                                                                    *)
LEMMA EndsMoves ==
    ASSUME work \in [Runs -> WorkRec], NEW r \in Runs, NEW p \in PCs,
           NEW res \in {"none", "ok", "err", "paused"}, Ends(r, p, res)
    PROVE  Moves(r, p, res)
  <1> DEFINE w == work'[r]
  <1>1. work[r] \in WorkRec
    OBVIOUS
  <1>2. w = [work[r] EXCEPT !.pc = p, !.res = res] /\ work' = [work EXCEPT ![r] = w]
    BY DEF Ends
  <1>3. w \in WorkRec /\ w.pc = p /\ w.res = res /\ w.cred = work[r].cred
    BY <1>1, <1>2 DEF WorkRec
  <1> QED BY <1>2, <1>3 DEF Moves

(* A cancellation or a resume token leaves the goroutine where it is.       *)
LEMMA MarkMoves ==
    ASSUME work \in [Runs -> WorkRec], NEW r \in Runs, 
           \/ work' = [work EXCEPT ![r].cancel = TRUE]
           \/ work' = [work EXCEPT ![r].token = TRUE]
    PROVE  Moves(r, work[r].pc, work[r].res)
  <1> DEFINE w == work'[r]
  <1>1. work[r] \in WorkRec
    OBVIOUS
  <1>2. /\ w = [work[r] EXCEPT !.cancel = TRUE] \/ w = [work[r] EXCEPT !.token = TRUE]
        /\ work' = [work EXCEPT ![r] = w]
    OBVIOUS
  <1>3. w \in WorkRec /\ w.pc = work[r].pc /\ w.res = work[r].res /\ w.cred = work[r].cred
    BY <1>1, <1>2 DEF WorkRec
  <1> QED BY <1>2, <1>3 DEF Moves

(* Where a goroutine is when its engine has returned.                       *)
LEMMA ReturnedIsPC ==
    ASSUME NEW r \in Runs, NEW res
    PROVE  Returned(r, res) = IF ~work[r].again THEN "ran"
                              ELSE IF res = "paused" THEN "await" ELSE "drain"
  BY DEF Returned

(* The steps of a goroutine, one by one.                                    *)
LEMMA WorkerMoves ==
    ASSUME Shape, NEW r \in Runs
    PROVE  /\ LoadFails(r) => Moves(r, "mark", "err")
           /\ LoadDeclines(r) => Moves(r, "mark", "none")
           /\ LoadResumeState(r) => Moves(r, "compile", work[r].res)
           /\ CompileFails(r) => Moves(r, "drain", "err")
           /\ BeginRun(r) => Moves(r, "run", work[r].res)
           /\ EnterStep(r) => Moves(r, "exec", work[r].res)
           /\ StepDone(r) => Moves(r, "run", work[r].res)
           /\ Pause(r) => Moves(r, Returned(r, "paused"), "paused")
           /\ Complete(r) => Moves(r, Returned(r, "ok"), "ok")
           /\ EngineFails(r) => Moves(r, Returned(r, "err"), "err")
           /\ AfterRun(r) => IF stopping THEN Moves(r, "drain", "err")
                             ELSE Moves(r, IF work[r].res = "paused" THEN "await" ELSE "drain",
                                        work[r].res)
           /\ Resume(r) => Moves(r, "run", work[r].res)
           /\ AwaitAborted(r) => Moves(r, "drain", "err")
           /\ DrainAndCleanup(r) =>
                Moves(r, IF work[r].res = "ok" /\ ~stopping THEN "cleanup" ELSE "close", work[r].res)
           /\ ClosePublisher(r) => Moves(r, "mark", work[r].res)
           /\ MarkCompleted(r) => Moves(r, "finish", work[r].res)
           /\ FinishRun(r) => Moves(r, "next", work[r].res)
           /\ HandOff(r) => Moves(r, IF stopping THEN "idle" ELSE "claim", work[r].res)
           /\ HandleCancel(r) => Moves(r, work[r].pc, work[r].res)
           /\ HandleResume(r) => Moves(r, work[r].pc, work[r].res)
  <1> USE DEF PCs
  <1>1. work \in [Runs -> WorkRec] /\ work[r] \in WorkRec /\ work[r].at \in Nat /\ srv[r].step \in Nat
    BY DEF Shape, WorkRec
  <1>2. ASSUME NEW p \in PCs, Go(r, p) PROVE Moves(r, p, work[r].res)
    BY <1>1, <1>2, GoMoves
  <1>3. ASSUME NEW p \in PCs, NEW n \in Nat, work' = [work EXCEPT ![r].pc = p, ![r].at = n]
        PROVE  Moves(r, p, work[r].res)
    BY <1>1, <1>3, GoMoves
  <1>4. Resume(r) => Moves(r, "run", work[r].res)
    BY <1>1, GoMoves DEF Resume
  <1>5. HandleCancel(r) \/ HandleResume(r) => Moves(r, work[r].pc, work[r].res)
    BY <1>1, MarkMoves DEF HandleCancel, HandleResume
  <1>6. \A res : Returned(r, res) \in PCs
    BY ReturnedIsPC
  <1>7. /\ LoadFails(r) => Moves(r, "mark", "err")
        /\ LoadDeclines(r) => Moves(r, "mark", "none")
        /\ CompileFails(r) => Moves(r, "drain", "err")
        /\ AwaitAborted(r) => Moves(r, "drain", "err")
    BY <1>1, EndsMoves DEF LoadFails, LoadDeclines, CompileFails, AwaitAborted
  <1>8. /\ Pause(r) => Moves(r, Returned(r, "paused"), "paused")
        /\ Complete(r) => Moves(r, Returned(r, "ok"), "ok")
        /\ EngineFails(r) => Moves(r, Returned(r, "err"), "err")
    BY <1>1, <1>6, EndsMoves DEF Pause, Complete, EngineFails
  <1>9. /\ EnterStep(r) => Moves(r, "exec", work[r].res)
        /\ ClosePublisher(r) => Moves(r, "mark", work[r].res)
        /\ MarkCompleted(r) => Moves(r, "finish", work[r].res)
        /\ FinishRun(r) => Moves(r, "next", work[r].res)
    BY <1>2 DEF EnterStep, ClosePublisher, MarkCompleted, FinishRun
  <1>10. /\ DrainAndCleanup(r) =>
              Moves(r, IF work[r].res = "ok" /\ ~stopping THEN "cleanup" ELSE "close", work[r].res)
         /\ HandOff(r) => Moves(r, IF stopping THEN "idle" ELSE "claim", work[r].res)
    BY <1>2 DEF DrainAndCleanup, HandOff
  <1>11. AfterRun(r) => IF stopping THEN Moves(r, "drain", "err")
                        ELSE Moves(r, IF work[r].res = "paused" THEN "await" ELSE "drain",
                                   work[r].res)
    BY <1>1, <1>2, EndsMoves DEF AfterRun
  <1>12. LoadResumeState(r) => Moves(r, "compile", work[r].res)
    BY <1>1, <1>3 DEF LoadResumeState
  <1>13. BeginRun(r) => Moves(r, "run", work[r].res)
    <2>1. (IF work[r].at = 0 THEN 1 ELSE work[r].at) \in Nat
      BY <1>1
    <2>2. BeginRun(r) => work' = [work EXCEPT ![r].pc = "run",
                                    ![r].at = IF work[r].at = 0 THEN 1 ELSE work[r].at]
      BY <1>1 DEF BeginRun
    <2> QED BY <1>3, <2>1, <2>2
  <1>14. StepDone(r) => Moves(r, "run", work[r].res)
    <2>1. work[r].at + 1 \in Nat
      BY <1>1
    <2>2. StepDone(r) => work' = [work EXCEPT ![r].pc = "run", ![r].at = work[r].at + 1]
      BY <1>1 DEF StepDone
    <2> QED BY <1>3, <2>1, <2>2
  <1> QED
    BY <1>4, <1>5, <1>7, <1>8, <1>9, <1>10, <1>11, <1>12, <1>13, <1>14

(* A goroutine that its context breaks off.                                 *)
LEMMA BrokenOffMoves ==
    ASSUME Shape, NEW r \in Runs, BrokenOff(r)
    PROVE  \/ /\ work[r].pc = "exec" /\ Moves(r, Returned(r, "ok"), "ok") /\ Emit(r, <<Over>>)
              /\ cutOff' = [cutOff EXCEPT ![r] = IF work[r].cancel \/ srv[r].status = "over"
                                                 THEN "none" ELSE "declared"]
           \/ /\ Moves(r, Returned(r, "err"), "err") /\ Emit(r, FailureEvents)
              /\ cutOff' = [cutOff EXCEPT ![r] = IF work[r].cancel \/ srv[r].status = "over"
                                                 THEN "none" ELSE "step"]
  <1>1. work \in [Runs -> WorkRec]
    BY DEF Shape
  <1>2. PICK declared \in {FALSE, work[r].pc = "exec"} :
           LET res == IF declared THEN "ok" ELSE "err"
           IN /\ Emit(r, IF declared THEN <<Over>> ELSE FailureEvents)
              /\ Ends(r, Returned(r, res), res)
              /\ cutOff' = [cutOff EXCEPT ![r] = IF work[r].cancel \/ srv[r].status = "over" THEN "none"
                                                 ELSE IF declared THEN "declared" ELSE "step"]
    BY DEF BrokenOff
  <1>3. Returned(r, "ok") \in PCs /\ Returned(r, "err") \in PCs
    BY ReturnedIsPC DEF PCs
  <1>4. CASE declared
    BY <1>1, <1>2, <1>3, <1>4, EndsMoves
  <1>5. CASE ~declared
    BY <1>1, <1>2, <1>3, <1>5, EndsMoves
  <1> QED BY <1>4, <1>5


(* The end of a run among the events of two stretches, or of one.           *)
LEMMA EndsInAppend ==
    ASSUME NEW s \in Seq(EventRec), NEW t \in Seq(EventRec)
    PROVE  EndsIn(s \o t) <=> EndsIn(s) \/ EndsIn(t)
  <1> DEFINE u == s \o t
  <1>1. /\ u \in Seq(EventRec) /\ Len(u) = Len(s) + Len(t) /\ Len(s) \in Nat /\ Len(t) \in Nat
        /\ \A i \in 1 .. Len(s) : u[i] = s[i]
        /\ \A i \in 1 .. Len(t) : u[Len(s) + i] = t[i]
    OBVIOUS
  <1> HIDE DEF u
  <1>2. ASSUME EndsIn(u) PROVE EndsIn(s) \/ EndsIn(t)
    <2>1. PICK i \in 1 .. Len(u) : u[i].kind = "over"
      BY <1>2 DEF EndsIn
    <2>2. CASE i <= Len(s)
      BY <1>1, <2>1, <2>2 DEF EndsIn
    <2>3. CASE i > Len(s)
      <3>1. i - Len(s) \in 1 .. Len(t) /\ i = Len(s) + (i - Len(s))
        BY <1>1, <2>1, <2>3
      <3> QED BY <1>1, <2>1, <3>1 DEF EndsIn
    <2> QED BY <1>1, <2>1, <2>2, <2>3
  <1>3. ASSUME EndsIn(s) PROVE EndsIn(u)
    BY <1>1, <1>3 DEF EndsIn
  <1>4. ASSUME EndsIn(t) PROVE EndsIn(u)
    <2>1. PICK i \in 1 .. Len(t) : t[i].kind = "over"
      BY <1>4 DEF EndsIn
    <2>2. Len(s) + i \in 1 .. Len(u)
      BY <1>1, <2>1
    <2> QED BY <1>1, <2>1, <2>2 DEF EndsIn
  <1> QED BY <1>2, <1>3, <1>4 DEF u

(* The end of a run is the oldest event or a later one.                     *)
LEMMA EndsInHead ==
    ASSUME NEW s \in Seq(EventRec), s # <<>>
    PROVE  /\ Head(s) \in EventRec /\ Tail(s) \in Seq(EventRec)
           /\ EndsIn(s) <=> Head(s).kind = "over" \/ EndsIn(Tail(s))
  <1>1. /\ Head(s) \in EventRec /\ Tail(s) \in Seq(EventRec) /\ Len(s) \in Nat \ {0}
        /\ Head(s) = s[1] /\ Len(Tail(s)) = Len(s) - 1
        /\ \A i \in 1 .. Len(Tail(s)) : Tail(s)[i] = s[i + 1]
    OBVIOUS
  <1>2. ASSUME EndsIn(s) PROVE Head(s).kind = "over" \/ EndsIn(Tail(s))
    <2>1. PICK i \in 1 .. Len(s) : s[i].kind = "over"
      BY <1>2 DEF EndsIn
    <2>2. CASE i # 1
      <3>1. i - 1 \in 1 .. Len(Tail(s)) /\ (i - 1) + 1 = i
        BY <1>1, <2>1, <2>2
      <3> QED BY <1>1, <2>1, <3>1 DEF EndsIn
    <2> QED BY <1>1, <2>1, <2>2
  <1>3. ASSUME EndsIn(Tail(s)) PROVE EndsIn(s)
    <2>1. PICK i \in 1 .. Len(Tail(s)) : Tail(s)[i].kind = "over"
      BY <1>3 DEF EndsIn
    <2>2. i + 1 \in 1 .. Len(s)
      BY <1>1, <2>1
    <2> QED BY <1>1, <2>1, <2>2 DEF EndsIn
  <1>4. ASSUME Head(s).kind = "over" PROVE EndsIn(s)
    BY <1>1, <1>4 DEF EndsIn
  <1> QED BY <1>1, <1>2, <1>3, <1>4

(* What a goroutine emits.  A stopping agent keeps a failure to itself.     *)
LEMMA EventTypes ==
    /\ \A k \in {"started", "entered", "paused", "over"}, n \in Nat :
         /\ <<Event(k, n)>> \in Seq(EventRec)
         /\ EndsIn(<<Event(k, n)>>) <=> k = "over"
    /\ <<Over>> \in Seq(EventRec) /\ EndsIn(<<Over>>)
    /\ <<>> \in Seq(EventRec) /\ ~EndsIn(<<>>)
    /\ FailureEvents \in Seq(EventRec) /\ (EndsIn(FailureEvents) <=> ~stopping)
  <1>1. ASSUME NEW k \in {"started", "entered", "paused", "over"}, NEW n \in Nat
        PROVE  /\ <<Event(k, n)>> \in Seq(EventRec)
               /\ EndsIn(<<Event(k, n)>>) <=> k = "over"
    <2>1. Event(k, n) \in EventRec /\ Event(k, n).kind = k
      BY DEF Event, EventRec
    <2> DEFINE s == <<Event(k, n)>>
    <2>2. s \in Seq(EventRec) /\ Len(s) = 1 /\ s[1] = Event(k, n)
      BY <2>1
    <2> QED BY <2>1, <2>2 DEF EndsIn
  <1>2. <<Over>> \in Seq(EventRec) /\ EndsIn(<<Over>>)
    BY <1>1 DEF Over
  <1>3. <<>> \in Seq(EventRec) /\ ~EndsIn(<<>>)
    BY DEF EndsIn
  <1> QED BY <1>1, <1>2, <1>3 DEF FailureEvents

(* Emit lengthens what is undelivered of one run.                           *)
LEMMA EmitFacts ==
    ASSUME Shape, NEW r \in Runs, NEW evs \in Seq(EventRec), Emit(r, evs)
    PROVE  /\ tail' \in [Runs -> Seq(EventRec)]
           /\ \A q \in Runs \ {r} : tail'[q] = tail[q]
           /\ EndsIn(tail'[r]) <=> EndsIn(tail[r]) \/ EndsIn(evs)
  <1>1. tail \in [Runs -> Seq(EventRec)] /\ tail[r] \in Seq(EventRec)
    BY DEF Shape
  <1>2. tail' = [tail EXCEPT ![r] = tail[r] \o evs]
    BY DEF Emit
  <1>3. tail[r] \o evs \in Seq(EventRec)
    BY <1>1
  <1> QED BY <1>1, <1>2, <1>3, EndsInAppend

(* A claim starts the oldest queued run if none is active.                  *)
LEMMA ClaimFacts ==
    ASSUME Shape, NEW w \in [Runs -> WorkRec], ClaimNext(w)
    PROVE  \/ /\ active # None \/ pending = <<>>
              /\ work' = w /\ active' = active /\ pending' = pending
           \/ /\ active = None /\ pending # <<>>
              /\ active' = pending[1].run /\ active' \in Runs
              /\ pending' \in Seq(Queued) /\ Len(pending') = Len(pending) - 1
              /\ \A i \in 1 .. Len(pending') : i + 1 \in 1 .. Len(pending) /\ pending'[i] = pending[i + 1]
              /\ work' \in [Runs -> WorkRec]
              /\ work'[active'].pc = "load" /\ work'[active'].cred # 0
              /\ \A q \in Runs \ {active'} : work'[q] = w[q]
  <1>1. CASE ~(active = None /\ pending # <<>>)
    BY <1>1 DEF ClaimNext
  <1>2. CASE active = None /\ pending # <<>>
    <2>1. pending \in Seq(Queued) /\ Head(pending) = pending[1] /\ pending[1] \in Queued
      BY <1>2 DEF Shape
    <2>2. pending[1].run \in Runs /\ pending[1].cred \in Nat \ {0}
      BY <2>1 DEF Queued
    <2> DEFINE v == [Idle EXCEPT !.pc = "load", !.cred = pending[1].cred]
    <2>3. v \in WorkRec /\ v.pc = "load" /\ v.cred = pending[1].cred
      BY <2>2 DEF Idle, WorkRec, PCs
    <2>4. /\ active' = pending[1].run /\ pending' = Tail(pending)
          /\ work' = [w EXCEPT ![pending[1].run] = v]
      BY <1>2, <2>1 DEF ClaimNext
    <2> HIDE DEF v
    <2>5. /\ Tail(pending) \in Seq(Queued) /\ Len(Tail(pending)) = Len(pending) - 1
          /\ Len(pending) \in Nat \ {0}
          /\ \A i \in 1 .. Len(Tail(pending)) : Tail(pending)[i] = pending[i + 1]
      BY <1>2, <2>1
    <2>6. work' \in [Runs -> WorkRec] /\ work'[active'] = v
      BY <2>2, <2>3, <2>4
    <2>7. \A q \in Runs \ {active'} : work'[q] = w[q]
      BY <2>2, <2>4
    <2>8. \A i \in 1 .. Len(pending') : i + 1 \in 1 .. Len(pending) /\ pending'[i] = pending[i + 1]
      BY <2>4, <2>5
    <2>9. pending' \in Seq(Queued) /\ Len(pending') = Len(pending) - 1
      BY <2>4, <2>5
    <2>10. work'[active'].pc = "load" /\ work'[active'].cred # 0
      BY <2>2, <2>3, <2>6
    <2> QED BY <1>2, <2>2, <2>4, <2>6, <2>7, <2>8, <2>9, <2>10
  <1> QED BY <1>1, <1>2

(* The goroutine that claims is gone.                                       *)
LEMMA IdleFacts ==
    /\ Idle \in WorkRec /\ Idle.pc = "idle"
    /\ \A r \in Runs : work \in [Runs -> WorkRec] =>
         LET w == [work EXCEPT ![r] = Idle]
         IN  w \in [Runs -> WorkRec] /\ w[r].pc = "idle" /\ \A q \in Runs \ {r} : w[q] = work[q]
  <1>1. Idle \in WorkRec /\ Idle.pc = "idle"
    BY DEF Idle, WorkRec, PCs
  <1> QED BY <1>1

(* Fields of one run.                                                       *)
LEMMA WorkFields ==
    ASSUME Shape, NEW r \in Runs
    PROVE  work[r].at \in Nat /\ work[r].cred \in Nat /\ work[r].pc \in PCs
           /\ tail[r] \in Seq(EventRec) /\ srv[r].step \in Nat
  BY DEF Shape, WorkRec

(* What the server makes of an event is a status; it is over only if the    *)
(* event is.                                                                *)
LEMMA DeliverFacts ==
    ASSUME Shape, NEW r \in Runs, Deliver(r)
    PROVE  /\ srv' \in [Runs -> [status : {"none", "running", "paused", "over"}, step : Nat]]
           /\ \A q \in Runs \ {r} : srv'[q] = srv[q] /\ tail'[q] = tail[q]
           /\ tail' \in [Runs -> Seq(EventRec)]
           /\ tail[r] # <<>>
           /\ IsOver(r)' <=> IsOver(r) \/ Head(tail[r]).kind = "over"
           /\ EndsIn(tail[r]) <=> Head(tail[r]).kind = "over" \/ EndsIn(tail'[r])
  <1> DEFINE Status == [status : {"none", "running", "paused", "over"}, step : Nat]
             e == Head(tail[r])
             u == UpdateRunState(srv[r], e)
  <1>1. tail[r] \in Seq(EventRec) /\ tail[r] # <<>> /\ srv[r] \in Status
    BY DEF Deliver, Shape
  <1>2. e \in EventRec /\ Tail(tail[r]) \in Seq(EventRec)
    BY <1>1, EndsInHead
  <1>3. tail' = [tail EXCEPT ![r] = Tail(tail[r])]
    BY DEF Deliver
  <1>4. tail' \in [Runs -> Seq(EventRec)] /\ tail'[r] = Tail(tail[r])
        /\ \A q \in Runs \ {r} : tail'[q] = tail[q]
    BY <1>2, <1>3 DEF Shape
  <1>5. EndsIn(tail[r]) <=> e.kind = "over" \/ EndsIn(tail'[r])
    BY <1>1, <1>4, EndsInHead
  <1>6. ASSUME srv[r].status # "over"
        PROVE  u \in Status /\ (u.status = "over" <=> e.kind = "over")
    <2>1. srv[r].status \in {"none", "running", "paused"} /\ srv[r].step \in Nat /\ e.step \in Nat
      BY <1>1, <1>2, <1>6 DEF EventRec
    <2>2. CASE e.kind = "over"
      BY <2>2 DEF UpdateRunState
    <2>3. CASE e.kind = "started"
      <3>1. u = [srv[r] EXCEPT !.status = "running"]
        BY <2>3 DEF UpdateRunState
      <3> QED BY <1>1, <2>3, <3>1
    <2>4. CASE e.kind = "entered"
      <3>1. u = [status |-> IF srv[r].status = "none" THEN "running" ELSE srv[r].status, step |-> e.step]
        BY <2>4 DEF UpdateRunState
      <3> QED BY <2>1, <2>4, <3>1
    <2>5. CASE e.kind = "paused"
      <3>1. u = [status |-> "paused", step |-> e.step]
        BY <2>5 DEF UpdateRunState
      <3> QED BY <2>1, <2>5, <3>1
    <2>6. e.kind \in {"started", "entered", "paused", "over"}
      BY <1>2 DEF EventRec
    <2> QED BY <2>2, <2>3, <2>4, <2>5, <2>6
  <1>7. CASE IsOver(r)
    <2>1. srv' = srv
      BY <1>7 DEF Deliver, IsOver
    <2> QED BY <1>1, <1>4, <1>5, <1>7, <2>1 DEF IsOver, Shape
  <1>8. CASE ~IsOver(r)
    <2>1. srv' = [srv EXCEPT ![r] = u]
      BY <1>8 DEF Deliver, IsOver
    <2>2. srv \in [Runs -> Status]
      BY DEF Shape
    <2> HIDE DEF u, e
    <2>3. srv' \in [Runs -> Status] /\ srv'[r] = u /\ \A q \in Runs \ {r} : srv'[q] = srv[q]
      BY <1>6, <1>8, <2>1, <2>2 DEF IsOver
    <2> QED BY <1>1, <1>4, <1>5, <1>6, <1>8, <2>3 DEF IsOver, e
  <1> QED BY <1>7, <1>8


(* The types.                                                               *)
LEMMA ShapeNext == IInv /\ [Next]_vars => Shape'
  <1> SUFFICES ASSUME IInv, [Next]_vars PROVE Shape'
    OBVIOUS
  <1> USE DEF IInv
  <1>1. ASSUME HandleAssignment PROVE Shape'
    <2>1. Head(inbox) \in Runs /\ Tail(inbox) \in Seq(Runs)
      BY <1>1 DEF HandleAssignment, Shape
    <2>2. [run |-> Head(inbox), cred |-> life] \in Queued
      BY <2>1 DEF Queued, Shape
    <2>3. Append(pending, [run |-> Head(inbox), cred |-> life]) \in Seq(Queued)
      BY <2>2 DEF Shape
    <2> QED
      BY <1>1, <2>1, <2>3 DEF HandleAssignment, Enqueue, serverVars, diskVars, historyVars, Shape
  <1>2. ASSUME CheckIdle PROVE Shape'
    BY <1>2 DEF CheckIdle, MainTo, serverVars, diskVars, queueVars, historyVars, Shape
  <1>3. ASSUME StartNext PROVE Shape'
    BY <1>3 DEF StartNext, MainTo, serverVars, diskVars, queueVars, historyVars, Shape
  <1>4. ASSUME ClaimMain PROVE Shape'
    BY <1>4, ClaimFacts, IdleFacts DEF ClaimMain, serverVars, diskVars, historyVars, Shape
  <1>5. ASSUME Shutdown PROVE Shape'
    BY <1>5 DEF Shutdown, serverVars, diskVars, queueVars, historyVars, Shape
  <1>6. ASSUME RecoverEnds PROVE Shape'
    BY <1>6 DEF RecoverEnds, MainTo, serverVars, diskVars, queueVars, historyVars, Shape
  <1>7. ASSUME Stop PROVE Shape'
    BY <1>7 DEF Stop, serverVars, diskVars, queueVars, historyVars, Shape
  <1>8. ASSUME Exit PROVE Shape'
    <2>1. work' \in [Runs -> WorkRec] /\ tail' \in [Runs -> Seq(EventRec)]
      BY <1>8, IdleFacts DEF Exit, Gone
    <2>2. inbox' \in Seq(Runs) /\ pending' \in Seq(Queued) /\ todo' \subseteq Runs
          /\ active' = None /\ stopping' = FALSE
      BY <1>8 DEF Exit, Gone
    <2>3. UNCHANGED <<srv, state, life, cutOff, began>>
      BY <1>8 DEF Exit, Gone, serverVars, diskVars
    <2> QED BY <2>1, <2>2, <2>3 DEF Shape
  <1>9. ASSUME Crash PROVE Shape'
    <2>1. work' \in [Runs -> WorkRec] /\ tail' \in [Runs -> Seq(EventRec)]
      BY <1>9, IdleFacts DEF Crash, Gone
    <2>2. inbox' \in Seq(Runs) /\ pending' \in Seq(Queued) /\ todo' \subseteq Runs
          /\ active' = None /\ stopping' = FALSE
      BY <1>9 DEF Crash, Gone
    <2>3. UNCHANGED <<srv, state, life, cutOff, began>>
      BY <1>9 DEF Crash, Gone, serverVars, diskVars
    <2> QED BY <2>1, <2>2, <2>3 DEF Shape
  <1>10. ASSUME Restart PROVE Shape'
    BY <1>10 DEF Restart, serverVars, diskVars, queueVars, historyVars, Shape
  <1>11. ASSUME NEW r \in Runs, Assign(r) PROVE Shape'
    BY <1>11 DEF Assign, diskVars, queueVars, historyVars, Shape
  <1>12. ASSUME NEW r \in Runs, Deliver(r) PROVE Shape'
    BY <1>12, DeliverFacts DEF Deliver, diskVars, loopVars, queueVars, historyVars, Shape
  <1>13. ASSUME NEW r \in Runs, HandleCancel(r) PROVE Shape'
    BY <1>13, WorkerMoves
       DEF HandleCancel, Upset, serverVars, diskVars, loopVars, queueVars, Moves, Shape
  <1>14. ASSUME NEW r \in Runs, HandleResume(r) PROVE Shape'
    BY <1>14, WorkerMoves
       DEF HandleResume, serverVars, diskVars, loopVars, queueVars, historyVars, Moves, Shape
  <1>15. ASSUME NEW r \in Runs, RecoverRun(r) PROVE Shape'
    <2>1. [run |-> r, cred |-> state[r]] \in Queued
      BY <1>15 DEF RecoverRun, QueueInv, Queued, Shape
    <2>2. Append(pending, [run |-> r, cred |-> state[r]]) \in Seq(Queued)
      BY <2>1 DEF Shape
    <2> QED
      BY <1>15, <2>2 DEF RecoverRun, Enqueue, serverVars, diskVars, historyVars, Shape
  <1>16. ASSUME NEW r \in Runs, ClearRecoveredRun(r) PROVE Shape'
    BY <1>16 DEF ClearRecoveredRun, CanResume, serverVars, Shape
  <1>17. ASSUME NEW r \in Runs, RecoverFails(r) PROVE Shape'
    BY <1>17 DEF RecoverFails, Upset, serverVars, diskVars, queueVars, Shape
  <1>18. ASSUME NEW r \in Runs, LoadFails(r) PROVE Shape'
    BY <1>18, WorkerMoves
       DEF LoadFails, Upset, CtxDone, serverVars, diskVars, loopVars, queueVars, Moves, Shape
  <1>19. ASSUME NEW r \in Runs, LoadDeclines(r) PROVE Shape'
    BY <1>19, WorkerMoves DEF LoadDeclines, CanResume, CtxDone, serverVars, loopVars, Moves, Shape
  <1>20. ASSUME NEW r \in Runs, LoadResumeState(r) PROVE Shape'
    BY <1>20, WorkerMoves
       DEF LoadResumeState, CtxDone, CanResume, serverVars, diskVars, loopVars, queueVars,
           historyVars, Moves, Shape
  <1>21. ASSUME NEW r \in Runs, CompileFails(r) PROVE Shape'
    BY <1>21, WorkerMoves, EmitFacts, EventTypes
       DEF CompileFails, Upset, CtxDone, serverVars, diskVars, loopVars, queueVars, Moves, Shape
  <1>22. ASSUME NEW r \in Runs, BeginRun(r) PROVE Shape'
    <2>1. Moves(r, "run", work[r].res) /\ work[r].cred \in Nat
      BY <1>22, WorkerMoves, WorkFields
    <2>2. tail' \in [Runs -> Seq(EventRec)]
      BY <1>22, EmitFacts, EventTypes DEF BeginRun, Shape
    <2>3. state' \in [Runs -> Nat] /\ cutOff' \in [Runs -> {"none", "step", "declared", "compile"}]
      BY <1>22, <2>1 DEF BeginRun, Shape
    <2> QED BY <1>22, <2>1, <2>2, <2>3 DEF BeginRun, Moves, serverVars, loopVars, queueVars, Shape
  <1>23. ASSUME NEW r \in Runs, EnterStep(r) PROVE Shape'
    <2>1. work' \in [Runs -> WorkRec] /\ work[r].at \in Nat
      BY <1>23, WorkerMoves, WorkFields DEF Moves
    <2>2. Emit(r, <<Event("entered", work[r].at)>>)
      BY <1>23 DEF EnterStep
    <2>3. tail' \in [Runs -> Seq(EventRec)]
      BY <2>1, <2>2, EmitFacts, EventTypes
    <2> QED BY <1>23, <2>1, <2>3
               DEF EnterStep, serverVars, diskVars, loopVars, queueVars, historyVars, Shape
  <1>24. ASSUME NEW r \in Runs, StepDone(r) PROVE Shape'
    BY <1>24, WorkerMoves
       DEF StepDone, serverVars, diskVars, loopVars, queueVars, historyVars, Moves, Shape
  <1>25. ASSUME NEW r \in Runs, Pause(r) PROVE Shape'
    <2>1. work' \in [Runs -> WorkRec] /\ work[r].at \in Nat
      BY <1>25, WorkerMoves, WorkFields DEF Moves
    <2>2. Emit(r, <<Event("paused", work[r].at)>>)
      BY <1>25 DEF Pause
    <2>3. tail' \in [Runs -> Seq(EventRec)]
      BY <2>1, <2>2, EmitFacts, EventTypes
    <2> QED BY <1>25, <2>1, <2>3
               DEF Pause, serverVars, diskVars, loopVars, queueVars, historyVars, Shape
  <1>26. ASSUME NEW r \in Runs, Complete(r) PROVE Shape'
    BY <1>26, WorkerMoves, EmitFacts, EventTypes, ReturnedIsPC
       DEF Complete, serverVars, diskVars, loopVars, queueVars, historyVars, Moves, Shape
  <1>27. ASSUME NEW r \in Runs, EngineFails(r) PROVE Shape'
    BY <1>27, WorkerMoves, EmitFacts, EventTypes, ReturnedIsPC
       DEF EngineFails, Upset, serverVars, diskVars, loopVars, queueVars, Moves, Shape
  <1>28. ASSUME NEW r \in Runs, BrokenOff(r) PROVE Shape'
    BY <1>28, BrokenOffMoves, EmitFacts, EventTypes, ReturnedIsPC
       DEF BrokenOff, CtxDone, serverVars, diskVars, loopVars, queueVars, Moves, Shape
  <1>29. ASSUME NEW r \in Runs, AfterRun(r) PROVE Shape'
    BY <1>29, WorkerMoves, EmitFacts, EventTypes
       DEF AfterRun, serverVars, diskVars, loopVars, queueVars, historyVars, Moves, Shape
  <1>30. ASSUME NEW r \in Runs, Resume(r) PROVE Shape'
    BY <1>30, WorkerMoves
       DEF Resume, serverVars, diskVars, loopVars, queueVars, historyVars, Moves, Shape
  <1>31. ASSUME NEW r \in Runs, AwaitAborted(r) PROVE Shape'
    BY <1>31, WorkerMoves
       DEF AwaitAborted, CtxDone, serverVars, diskVars, loopVars, queueVars, historyVars, Moves,
           Shape
  <1>32. ASSUME NEW r \in Runs, DrainAndCleanup(r) PROVE Shape'
    <2>1. work' \in [Runs -> WorkRec]
      BY <1>32, WorkerMoves DEF Moves
    <2>2. state' \in [Runs -> Nat]
      BY <1>32 DEF DrainAndCleanup, Shape
    <2> QED BY <1>32, <2>1, <2>2 DEF DrainAndCleanup, serverVars, loopVars, queueVars, Shape
  <1>33. ASSUME NEW r \in Runs, ClosePublisher(r) PROVE Shape'
    <2>1. work' \in [Runs -> WorkRec] /\ <<>> \in Seq(EventRec)
      BY <1>33, WorkerMoves DEF Moves
    <2>2. tail' \in [Runs -> Seq(EventRec)]
      BY <1>33, <2>1 DEF ClosePublisher, Shape
    <2> QED BY <1>33, <2>1, <2>2
               DEF ClosePublisher, serverVars, loopVars, queueVars, historyVars, Shape
  <1>34. ASSUME NEW r \in Runs, MarkCompleted(r) PROVE Shape'
    BY <1>34, WorkerMoves
       DEF MarkCompleted, serverVars, diskVars, loopVars, historyVars, Moves, Shape
  <1>35. ASSUME NEW r \in Runs, FinishRun(r) PROVE Shape'
    BY <1>35, WorkerMoves DEF FinishRun, serverVars, diskVars, loopVars, historyVars, Moves, Shape
  <1>36. ASSUME NEW r \in Runs, HandOff(r) PROVE Shape'
    BY <1>36, WorkerMoves
       DEF HandOff, serverVars, diskVars, loopVars, queueVars, historyVars, Moves, Shape
  <1>37. ASSUME NEW r \in Runs, ClaimWorker(r) PROVE Shape'
    BY <1>37, ClaimFacts, IdleFacts
       DEF ClaimWorker, serverVars, diskVars, loopVars, historyVars, Shape
  <1>38. CASE UNCHANGED vars
    BY <1>38 DEF vars, serverVars, diskVars, loopVars, queueVars, historyVars, Shape
  <1> QED BY <1>1, <1>2, <1>3, <1>4, <1>5, <1>6, <1>7, <1>8, <1>9, <1>10, <1>11, <1>12, <1>13,
             <1>14, <1>15, <1>16, <1>17, <1>18, <1>19, <1>20, <1>21, <1>22, <1>23, <1>24, <1>25,
             <1>26, <1>27, <1>28, <1>29, <1>30, <1>31, <1>32, <1>33, <1>34, <1>35, <1>36, <1>37,
             <1>38
             DEF Next, Main, Worker


(* A step of a goroutine that keeps the place of the active run touches     *)
(* nothing of another run.                                                  *)
Inside(r) ==
  /\ work[r].pc \notin Released /\ work'[r].pc \notin Released
  /\ Moves(r, work'[r].pc, work'[r].res)
  /\ UNCHANGED <<srv, active, pending, main, stopping, todo, inbox>>
  /\ completed \subseteq completed' /\ completed' \subseteq completed \cup {r}
  /\ \A q \in Runs \ {r} : /\ tail'[q] = tail[q] /\ cutOff'[q] = cutOff[q] /\ state'[q] = state[q]
                           /\ q \in began' \ excused' => q \in began \ excused

(* All steps of a goroutine but the last three are of that kind.            *)
LEMMA WorkerInside ==
    ASSUME Shape, NEW r \in Runs,
           \/ LoadFails(r) \/ LoadDeclines(r) \/ LoadResumeState(r) \/ CompileFails(r)
           \/ BeginRun(r) \/ EnterStep(r) \/ StepDone(r) \/ Pause(r)
           \/ Complete(r) \/ EngineFails(r) \/ BrokenOff(r) \/ AfterRun(r)
           \/ Resume(r) \/ AwaitAborted(r) \/ DrainAndCleanup(r) \/ ClosePublisher(r)
           \/ MarkCompleted(r)
    PROVE  Inside(r)
  <1>1. CASE LoadFails(r)
    <2>1. Moves(r, "mark", "err")
      BY <1>1, WorkerMoves
    <2> QED BY <1>1, <2>1
               DEF LoadFails, Upset, serverVars, diskVars, loopVars, queueVars, Inside, Moves,
                   Released, Shape
  <1>2. CASE LoadDeclines(r)
    <2>1. Moves(r, "mark", "none")
      BY <1>2, WorkerMoves
    <2> QED BY <1>2, <2>1 DEF LoadDeclines, serverVars, loopVars, Inside, Moves, Released, Shape
  <1>3. CASE LoadResumeState(r)
    <2>1. Moves(r, "compile", work[r].res)
      BY <1>3, WorkerMoves
    <2> QED BY <1>3, <2>1
               DEF LoadResumeState, serverVars, diskVars, loopVars, queueVars, historyVars,
                   Inside, Moves, Released, Shape
  <1>4. CASE CompileFails(r)
    <2>1. Moves(r, "drain", "err")
      BY <1>4, WorkerMoves
    <2>3. \A q \in Runs \ {r} : tail'[q] = tail[q]
      BY <1>4 DEF CompileFails, Emit, Shape
    <2> QED BY <1>4, <2>1, <2>3
               DEF CompileFails, Upset, serverVars, diskVars, loopVars, queueVars, Inside, Moves,
                   Released, Shape
  <1>5. CASE BeginRun(r)
    <2>1. Moves(r, "run", work[r].res)
      BY <1>5, WorkerMoves
    <2>3. \A q \in Runs \ {r} : tail'[q] = tail[q]
      BY <1>5 DEF BeginRun, Emit, Shape
    <2> QED BY <1>5, <2>1, <2>3
               DEF BeginRun, Upset, serverVars, loopVars, queueVars, Inside, Moves, Released,
                   Shape
  <1>6. CASE EnterStep(r)
    <2>1. Moves(r, "exec", work[r].res)
      BY <1>6, WorkerMoves
    <2>3. \A q \in Runs \ {r} : tail'[q] = tail[q]
      BY <1>6 DEF EnterStep, Emit, Shape
    <2> QED BY <1>6, <2>1, <2>3
               DEF EnterStep, serverVars, loopVars, queueVars, historyVars, Inside, Moves,
                   Released, Shape
  <1>7. CASE StepDone(r)
    <2>1. Moves(r, "run", work[r].res)
      BY <1>7, WorkerMoves
    <2> QED BY <1>7, <2>1
               DEF StepDone, serverVars, diskVars, loopVars, queueVars, historyVars, Inside,
                   Moves, Released, Shape
  <1>8. CASE Pause(r)
    <2>1. Moves(r, Returned(r, "paused"), "paused")
      BY <1>8, WorkerMoves
    <2>3. \A q \in Runs \ {r} : tail'[q] = tail[q]
      BY <1>8 DEF Pause, Emit, Shape
    <2> QED BY <1>8, <2>1, ReturnedIsPC, <2>3
               DEF Pause, Upset, serverVars, diskVars, loopVars, queueVars, Inside, Moves,
                   Released, Shape
  <1>9. CASE Complete(r)
    <2>1. Moves(r, Returned(r, "ok"), "ok")
      BY <1>9, WorkerMoves
    <2>3. \A q \in Runs \ {r} : tail'[q] = tail[q]
      BY <1>9 DEF Complete, Emit, Shape
    <2> QED BY <1>9, <2>1, ReturnedIsPC, <2>3
               DEF Complete, serverVars, diskVars, loopVars, queueVars, historyVars, Inside,
                   Moves, Released, Shape
  <1>10. CASE EngineFails(r)
    <2>1. Moves(r, Returned(r, "err"), "err")
      BY <1>10, WorkerMoves
    <2>3. \A q \in Runs \ {r} : tail'[q] = tail[q]
      BY <1>10 DEF EngineFails, Emit, Shape
    <2> QED BY <1>10, <2>1, ReturnedIsPC, <2>3
               DEF EngineFails, Upset, serverVars, diskVars, loopVars, queueVars, Inside, Moves,
                   Released, Shape
  <1>11. CASE BrokenOff(r)
    <2>1. \E res \in {"ok", "err"}, evs \in Seq(EventRec) : Moves(r, Returned(r, res), res) /\ Emit(r, evs)
      BY <1>11, BrokenOffMoves, EventTypes
    <2>2. \A q \in Runs \ {r} : cutOff'[q] = cutOff[q]
      BY <1>11, BrokenOffMoves DEF Shape
    <2>3. \A q \in Runs \ {r} : tail'[q] = tail[q]
      BY <1>11 DEF BrokenOff, Emit, Shape
    <2>4. /\ work[r].pc \in {"run", "exec"} /\ Moves(r, work'[r].pc, work'[r].res)
          /\ work'[r].pc \in {"ran", "await", "drain"}
      BY <1>11, <2>1, ReturnedIsPC DEF BrokenOff, Moves
    <2>5. UNCHANGED <<srv, active, pending, main, stopping, todo, inbox, completed, state, began, excused>>
      BY <1>11 DEF BrokenOff, serverVars, diskVars, loopVars, queueVars
    <2> QED BY <2>2, <2>3, <2>4, <2>5 DEF Inside, Released
  <1>12. CASE AfterRun(r)
    <2>1. \E p \in {"await", "drain"}, res \in {"err", work[r].res} : Moves(r, p, res)
      BY <1>12, WorkerMoves
    <2>3. \A q \in Runs \ {r} : tail'[q] = tail[q]
      BY <1>12 DEF AfterRun, Emit, Shape
    <2> QED BY <1>12, <2>1, <2>3
               DEF AfterRun, serverVars, diskVars, loopVars, queueVars, historyVars, Inside,
                   Moves, Released, Shape
  <1>13. CASE Resume(r)
    <2>1. Moves(r, "run", work[r].res)
      BY <1>13, WorkerMoves
    <2> QED BY <1>13, <2>1
               DEF Resume, serverVars, diskVars, loopVars, queueVars, historyVars, Inside, Moves,
                   Released, Shape
  <1>14. CASE AwaitAborted(r)
    <2>1. Moves(r, "drain", "err")
      BY <1>14, WorkerMoves
    <2> QED BY <1>14, <2>1
               DEF AwaitAborted, serverVars, diskVars, loopVars, queueVars, historyVars, Inside,
                   Moves, Released, Shape
  <1>15. CASE DrainAndCleanup(r)
    <2>1. Moves(r, IF work[r].res = "ok" /\ ~stopping THEN "cleanup" ELSE "close", work[r].res)
      BY <1>15, WorkerMoves
    <2> QED BY <1>15, <2>1
               DEF DrainAndCleanup, serverVars, loopVars, queueVars, Inside, Moves, Released,
                   Shape
  <1>16. CASE ClosePublisher(r)
    <2>1. Moves(r, "mark", work[r].res)
      BY <1>16, WorkerMoves
    <2> QED BY <1>16, <2>1
               DEF ClosePublisher, serverVars, loopVars, queueVars, historyVars, Inside, Moves,
                   Released, Shape
  <1>17. CASE MarkCompleted(r)
    <2>1. Moves(r, "finish", work[r].res)
      BY <1>17, WorkerMoves
    <2> QED BY <1>17, <2>1
               DEF MarkCompleted, serverVars, diskVars, loopVars, historyVars, Inside, Moves,
                   Released, Shape
  <1> QED BY <1>1, <1>2, <1>3, <1>4, <1>5, <1>6, <1>7, <1>8, <1>9, <1>10, <1>11, <1>12, <1>13,
             <1>14, <1>15, <1>16, <1>17


(* The two ways to claim, by the loop or by the goroutine of the run that   *)
(* ended, which is then gone.                                               *)
Left(q) == work'[q] = work[q] \/ (work[q].pc = "claim" /\ work'[q].pc = "idle")

Claims == /\ ClaimMain \/ \E r \in Runs : ClaimWorker(r)
          /\ main' = main \/ (main' = "loop" /\ main = "claim")
          /\ UNCHANGED <<srv, state, stopping, todo, inbox, completed, tail, cutOff, began, excused>>

(* What neither way to claim touches.                                       *)
LEMMA ClaimIsClaims ==
    ASSUME ClaimMain \/ \E r \in Runs : ClaimWorker(r)
    PROVE  Claims
  <1>1. CASE ClaimMain
    BY <1>1 DEF Claims, ClaimMain, serverVars, diskVars, historyVars
  <1>2. ASSUME NEW r \in Runs, ClaimWorker(r) PROVE Claims
    <2>1. UNCHANGED <<main, srv, state, stopping, todo, inbox, completed, tail, cutOff, began, excused>>
      BY <1>2 DEF ClaimWorker, serverVars, diskVars, loopVars, historyVars
    <2> QED BY <1>2, <2>1 DEF Claims
  <1> QED BY <1>1, <1>2

(* A claim that finds the place taken or the queue empty changes nothing.   *)
LEMMA ClaimEffect ==
    ASSUME Shape, Claims
    PROVE  \/ /\ active # None \/ pending = <<>>
              /\ active' = active /\ pending' = pending
              /\ \A q \in Runs : Left(q)
           \/ /\ active = None /\ pending # <<>>
              /\ active' = pending[1].run /\ active' \in Runs
              /\ pending' \in Seq(Queued) /\ Len(pending') = Len(pending) - 1
              /\ \A i \in 1 .. Len(pending') : i + 1 \in 1 .. Len(pending) /\ pending'[i] = pending[i + 1]
              /\ work'[active'].pc = "load" /\ work'[active'].cred # 0
              /\ \A q \in Runs \ {active'} : Left(q)
  <1>1. \E w \in [Runs -> WorkRec] :
          ClaimNext(w) /\ \A q \in Runs : w[q] = work[q] \/ (work[q].pc = "claim" /\ w[q].pc = "idle")
    <2>1. CASE ClaimMain
      BY <2>1 DEF ClaimMain, Shape
    <2>2. ASSUME NEW r \in Runs, ClaimWorker(r)
          PROVE  \E w \in [Runs -> WorkRec] :
                   ClaimNext(w) /\ \A q \in Runs : w[q] = work[q] \/ (work[q].pc = "claim" /\ w[q].pc = "idle")
      <3> DEFINE v == [work EXCEPT ![r] = Idle]
      <3>1. v \in [Runs -> WorkRec] /\ v[r].pc = "idle" /\ \A q \in Runs \ {r} : v[q] = work[q]
        BY IdleFacts DEF Shape
      <3>2. ClaimNext(v) /\ work[r].pc = "claim"
        BY <2>2 DEF ClaimWorker
      <3> HIDE DEF v
      <3>3. \A q \in Runs : v[q] = work[q] \/ (work[q].pc = "claim" /\ v[q].pc = "idle")
        BY <3>1, <3>2
      <3> QED BY <3>1, <3>2, <3>3
    <2> QED BY <2>1, <2>2 DEF Claims
  <1>2. PICK w \in [Runs -> WorkRec] :
          ClaimNext(w) /\ \A q \in Runs : w[q] = work[q] \/ (work[q].pc = "claim" /\ w[q].pc = "idle")
    BY <1>1
  <1> QED BY <1>2, ClaimFacts DEF Left

(* Where the queue is afterwards.                                           *)
LEMMA ClaimQueue ==
    ASSUME IInv, Claims
    PROVE  /\ \A q \in Runs : InQueue(q)' => InQueue(q)
           /\ active' # active => InQueue(active') /\ active' \in Runs
           /\ \A q \in Runs : InQueue(q)' => q # active'
           /\ \A i, j \in 1..Len(pending') : pending'[i].run = pending'[j].run => i = j
           /\ pending = <<>> => pending' = <<>>
  <1> USE DEF IInv
  <1>1. CASE pending' = pending /\ active' = active
    BY <1>1 DEF QueueInv, InQueue
  <1>2. CASE /\ active = None /\ pending # <<>>
             /\ active' = pending[1].run /\ active' \in Runs
             /\ Len(pending') = Len(pending) - 1
             /\ \A i \in 1 .. Len(pending') : i + 1 \in 1 .. Len(pending) /\ pending'[i] = pending[i + 1]
    <2>1. Len(pending) \in Nat \ {0} /\ 1 \in 1 .. Len(pending)
      BY <1>2 DEF Shape
    <2>2. \A q \in Runs : InQueue(q)' => InQueue(q)
      BY <1>2 DEF InQueue
    <2>3. InQueue(active')
      BY <1>2, <2>1 DEF InQueue
    <2>4. \A i, j \in 1..Len(pending') : pending'[i].run = pending'[j].run => i = j
      <3> SUFFICES ASSUME NEW i \in 1..Len(pending'), NEW j \in 1..Len(pending'),
                          pending'[i].run = pending'[j].run
                   PROVE  i = j
        OBVIOUS
      <3>1. i + 1 = j + 1
        BY <1>2 DEF QueueInv
      <3> QED BY <3>1, <1>2, <2>1
    <2>5. ASSUME NEW i \in 1..Len(pending'), pending'[i].run = active' PROVE FALSE
      <3>1. i + 1 = 1
        BY <1>2, <2>1, <2>5 DEF QueueInv
      <3> QED BY <1>2, <2>1, <3>1
    <2>6. \A q \in Runs : InQueue(q)' => q # active'
      BY <2>5 DEF InQueue
    <2> QED BY <1>2, <2>2, <2>3, <2>4, <2>6
  <1> QED BY <1>1, <1>2, ClaimEffect

(* A run joins the queue.                                                   *)
LEMMA EnqueueFacts ==
    ASSUME Shape, NEW r \in Runs, NEW c \in Nat, Enqueue(r, c)
    PROVE  /\ \A q \in Runs : InQueue(q)' <=> InQueue(q) \/ q = r
           /\ (\A i, j \in 1..Len(pending) : pending[i].run = pending[j].run => i = j) /\ ~InQueue(r)
              => \A i, j \in 1..Len(pending') : pending'[i].run = pending'[j].run => i = j
           /\ pending' # <<>>
  <1> DEFINE x == [run |-> r, cred |-> c]
  <1>1. pending' = Append(pending, x) /\ pending \in Seq(Queued) /\ x.run = r
    BY DEF Enqueue, Shape
  <1>2. /\ Len(pending') = Len(pending) + 1 /\ Len(pending) \in Nat
        /\ \A i \in 1 .. Len(pending) : pending'[i] = pending[i]
        /\ pending'[Len(pending) + 1] = x /\ pending' # <<>>
    BY <1>1
  <1>3. ASSUME NEW q \in Runs PROVE InQueue(q)' <=> InQueue(q) \/ q = r
    <2>1. ASSUME InQueue(q)' PROVE InQueue(q) \/ q = r
      BY <1>1, <1>2, <2>1 DEF InQueue
    <2>2. ASSUME InQueue(q) \/ q = r PROVE InQueue(q)'
      <3>1. CASE InQueue(q)
        BY <1>2, <3>1 DEF InQueue
      <3>2. CASE q = r
        <4>1. Len(pending) + 1 \in 1 .. Len(pending') /\ pending'[Len(pending) + 1].run = q
          BY <1>1, <1>2, <3>2
        <4> QED BY <4>1 DEF InQueue
      <3> QED BY <2>2, <3>1, <3>2
    <2> QED BY <2>1, <2>2
  <1>4. ASSUME \A i, j \in 1..Len(pending) : pending[i].run = pending[j].run => i = j, ~InQueue(r),
               NEW i \in 1..Len(pending'), NEW j \in 1..Len(pending'), pending'[i].run = pending'[j].run
        PROVE  i = j
    <2>1. \A k \in 1..Len(pending) : pending[k].run # r
      BY <1>4 DEF InQueue
    <2> QED BY <1>1, <1>2, <1>4, <2>1
  <1> QED BY <1>2, <1>3, <1>4


(* The active run.                                                          *)
LEMMA PlaceNext ==
    ASSUME IInv, [Next]_vars
    PROVE  PlaceInv'
  <1> USE DEF IInv
  <1>1. ASSUME HandleAssignment PROVE PlaceInv'
    BY <1>1, AgentAssumption
       DEF HandleAssignment, IsKnown, Enqueue, serverVars, diskVars, historyVars, PlaceInv,
           OneAtATime, Released, Shape
  <1>2. ASSUME CheckIdle PROVE PlaceInv'
    BY <1>2, AgentAssumption
       DEF CheckIdle, MainTo, serverVars, diskVars, queueVars, historyVars, PlaceInv, OneAtATime,
           Released, Shape
  <1>3. ASSUME StartNext PROVE PlaceInv'
    BY <1>3, AgentAssumption
       DEF StartNext, MainTo, serverVars, diskVars, queueVars, historyVars, PlaceInv, OneAtATime,
           Released, Shape
  <1>4. ASSUME ClaimMain PROVE PlaceInv'
    <2>1. Claims
      BY <1>4, ClaimIsClaims
    <2>2. CASE active' = active /\ \A q \in Runs : Left(q)
      BY <2>2, AgentAssumption DEF Left, PlaceInv, OneAtATime, Released, Shape
    <2>3. CASE /\ active = None /\ active' \in Runs
               /\ work'[active'].pc = "load" /\ work'[active'].cred # 0
               /\ \A q \in Runs \ {active'} : Left(q)
      BY <2>3, AgentAssumption DEF Left, PlaceInv, OneAtATime, Released
    <2> QED BY <2>1, <2>2, <2>3, ClaimEffect
  <1>5. ASSUME Shutdown PROVE PlaceInv'
    BY <1>5, AgentAssumption
       DEF Shutdown, serverVars, diskVars, queueVars, historyVars, PlaceInv, OneAtATime, Released,
           Shape
  <1>6. ASSUME RecoverEnds PROVE PlaceInv'
    BY <1>6, AgentAssumption
       DEF RecoverEnds, MainTo, serverVars, diskVars, queueVars, historyVars, PlaceInv,
           OneAtATime, Released, Shape
  <1>7. ASSUME Stop PROVE PlaceInv'
    BY <1>7, AgentAssumption
       DEF Stop, serverVars, diskVars, queueVars, historyVars, PlaceInv, OneAtATime, Released,
           Shape
  <1>8. ASSUME Exit PROVE PlaceInv'
    BY <1>8, AgentAssumption, IdleFacts
       DEF Exit, Gone, serverVars, diskVars, PlaceInv, OneAtATime, Released, Shape
  <1>9. ASSUME Crash PROVE PlaceInv'
    BY <1>9, AgentAssumption, IdleFacts
       DEF Crash, Gone, serverVars, diskVars, PlaceInv, OneAtATime, Released, Shape
  <1>10. ASSUME Restart PROVE PlaceInv'
    BY <1>10, AgentAssumption
       DEF Restart, serverVars, diskVars, queueVars, historyVars, PlaceInv, OneAtATime, Released,
           Shape
  <1>11. ASSUME NEW r \in Runs, Assign(r) PROVE PlaceInv'
    BY <1>11, AgentAssumption
       DEF Assign, diskVars, queueVars, historyVars, PlaceInv, OneAtATime, Released, Shape
  <1>12. ASSUME NEW r \in Runs, Deliver(r) PROVE PlaceInv'
    BY <1>12, AgentAssumption
       DEF Deliver, diskVars, loopVars, queueVars, historyVars, PlaceInv, OneAtATime, Released,
           Shape
  <1>13. ASSUME NEW r \in Runs, HandleCancel(r) PROVE PlaceInv'
    <2>1. Moves(r, work[r].pc, work[r].res)
      BY <1>13, WorkerMoves
    <2> QED BY <1>13, AgentAssumption, <2>1
               DEF HandleCancel, Upset, serverVars, diskVars, loopVars, queueVars, PlaceInv,
                   OneAtATime, Released, Shape, Moves
  <1>14. ASSUME NEW r \in Runs, HandleResume(r) PROVE PlaceInv'
    <2>1. Moves(r, work[r].pc, work[r].res)
      BY <1>14, WorkerMoves
    <2> QED BY <1>14, AgentAssumption, <2>1
               DEF HandleResume, serverVars, diskVars, loopVars, queueVars, historyVars, PlaceInv,
                   OneAtATime, Released, Shape, Moves
  <1>15. ASSUME NEW r \in Runs, RecoverRun(r) PROVE PlaceInv'
    BY <1>15, AgentAssumption
       DEF RecoverRun, Enqueue, serverVars, diskVars, historyVars, PlaceInv, OneAtATime, Released,
           Shape
  <1>16. ASSUME NEW r \in Runs, ClearRecoveredRun(r) PROVE PlaceInv'
    BY <1>16, AgentAssumption
       DEF ClearRecoveredRun, serverVars, PlaceInv, OneAtATime, Released, Shape
  <1>17. ASSUME NEW r \in Runs, RecoverFails(r) PROVE PlaceInv'
    BY <1>17, AgentAssumption
       DEF RecoverFails, Upset, serverVars, diskVars, queueVars, PlaceInv, OneAtATime, Released,
           Shape
  <1>18. ASSUME NEW r \in Runs, FinishRun(r) PROVE PlaceInv'
    <2>1. Moves(r, "next", work[r].res)
      BY <1>18, WorkerMoves
    <2> QED BY <1>18, AgentAssumption, <2>1
               DEF FinishRun, serverVars, diskVars, loopVars, historyVars, PlaceInv, OneAtATime,
                   Released, Shape, Moves
  <1>19. ASSUME NEW r \in Runs, HandOff(r) PROVE PlaceInv'
    <2>1. Moves(r, IF stopping THEN "idle" ELSE "claim", work[r].res)
      BY <1>19, WorkerMoves
    <2> QED BY <1>19, AgentAssumption, <2>1
               DEF HandOff, serverVars, diskVars, loopVars, queueVars, historyVars, PlaceInv,
                   OneAtATime, Released, Shape, Moves
  <1>20. ASSUME NEW r \in Runs, ClaimWorker(r) PROVE PlaceInv'
    <2>1. Claims
      BY <1>20, ClaimIsClaims
    <2>2. CASE active' = active /\ \A q \in Runs : Left(q)
      BY <2>2, AgentAssumption DEF Left, PlaceInv, OneAtATime, Released, Shape
    <2>3. CASE /\ active = None /\ active' \in Runs
               /\ work'[active'].pc = "load" /\ work'[active'].cred # 0
               /\ \A q \in Runs \ {active'} : Left(q)
      BY <2>3, AgentAssumption DEF Left, PlaceInv, OneAtATime, Released
    <2> QED BY <2>1, <2>2, <2>3, ClaimEffect
  <1>21. ASSUME NEW r \in Runs, Inside(r) PROVE PlaceInv'
    <2>1. /\ active' = active /\ active = r /\ work'[r].pc \notin Released /\ work'[r].cred = work[r].cred
          /\ work[r].cred # 0 /\ \A q \in Runs \ {r} : work'[q] = work[q]
      BY <1>21 DEF Inside, Moves, PlaceInv, OneAtATime
    <2> QED BY <2>1 DEF PlaceInv, OneAtATime
  <1>22. CASE UNCHANGED vars
    BY <1>22
       DEF vars, serverVars, diskVars, loopVars, queueVars, historyVars, PlaceInv, OneAtATime,
           Released, Shape
  <1> QED
    BY <1>1, <1>2, <1>3, <1>4, <1>5, <1>6, <1>7, <1>8, <1>9, <1>10, <1>11, <1>12, <1>13, <1>14,
       <1>15, <1>16, <1>17, <1>18, <1>19, <1>20, <1>21, <1>22, WorkerInside
       DEF Next, Main, Worker

(* The queue has somebody to claim from it.                                 *)
LEMMA ServedNext ==
    ASSUME IInv, [Next]_vars
    PROVE  QueueIsServed'
  <1> USE DEF IInv
  <1>1. ASSUME HandleAssignment PROVE QueueIsServed'
    BY <1>1, AgentAssumption
       DEF HandleAssignment, IsKnown, Enqueue, serverVars, diskVars, historyVars, QueueIsServed,
           PlaceInv, OneAtATime, Released, Shape
  <1>2. ASSUME CheckIdle PROVE QueueIsServed'
    BY <1>2, AgentAssumption
       DEF CheckIdle, MainTo, serverVars, diskVars, queueVars, historyVars, QueueIsServed,
           PlaceInv, OneAtATime, Released, Shape
  <1>3. ASSUME StartNext PROVE QueueIsServed'
    BY <1>3, AgentAssumption
       DEF StartNext, MainTo, serverVars, diskVars, queueVars, historyVars, QueueIsServed,
           PlaceInv, OneAtATime, Released, Shape
  <1>4. ASSUME ClaimMain PROVE QueueIsServed'
    <2>1. Claims
      BY <1>4, ClaimIsClaims
    <2> QED BY <2>1, ClaimEffect, AgentAssumption DEF Claims, Left, QueueIsServed, Shape
  <1>5. ASSUME Shutdown PROVE QueueIsServed'
    BY <1>5, AgentAssumption
       DEF Shutdown, serverVars, diskVars, queueVars, historyVars, QueueIsServed, PlaceInv,
           OneAtATime, Released, Shape
  <1>6. ASSUME RecoverEnds PROVE QueueIsServed'
    BY <1>6, AgentAssumption
       DEF RecoverEnds, MainTo, serverVars, diskVars, queueVars, historyVars, QueueIsServed,
           PlaceInv, OneAtATime, Released, Shape
  <1>7. ASSUME Stop PROVE QueueIsServed'
    BY <1>7, AgentAssumption
       DEF Stop, serverVars, diskVars, queueVars, historyVars, QueueIsServed, PlaceInv,
           OneAtATime, Released, Shape
  <1>8. ASSUME Exit PROVE QueueIsServed'
    BY <1>8, AgentAssumption, IdleFacts
       DEF Exit, Gone, serverVars, diskVars, QueueIsServed, PlaceInv, OneAtATime, Released, Shape
  <1>9. ASSUME Crash PROVE QueueIsServed'
    BY <1>9, AgentAssumption, IdleFacts
       DEF Crash, Gone, serverVars, diskVars, QueueIsServed, PlaceInv, OneAtATime, Released, Shape
  <1>10. ASSUME Restart PROVE QueueIsServed'
    BY <1>10, AgentAssumption
       DEF Restart, serverVars, diskVars, queueVars, historyVars, QueueIsServed, PlaceInv,
           OneAtATime, Released, Shape
  <1>11. ASSUME NEW r \in Runs, Assign(r) PROVE QueueIsServed'
    BY <1>11, AgentAssumption
       DEF Assign, diskVars, queueVars, historyVars, QueueIsServed, PlaceInv, OneAtATime,
           Released, Shape
  <1>12. ASSUME NEW r \in Runs, Deliver(r) PROVE QueueIsServed'
    BY <1>12, AgentAssumption
       DEF Deliver, diskVars, loopVars, queueVars, historyVars, QueueIsServed, PlaceInv,
           OneAtATime, Released, Shape
  <1>13. ASSUME NEW r \in Runs, HandleCancel(r) PROVE QueueIsServed'
    <2>1. Moves(r, work[r].pc, work[r].res)
      BY <1>13, WorkerMoves
    <2> QED BY <1>13, AgentAssumption, <2>1
               DEF HandleCancel, Upset, serverVars, diskVars, loopVars, queueVars, QueueIsServed,
                   PlaceInv, OneAtATime, Released, Shape, Moves
  <1>14. ASSUME NEW r \in Runs, HandleResume(r) PROVE QueueIsServed'
    <2>1. Moves(r, work[r].pc, work[r].res)
      BY <1>14, WorkerMoves
    <2> QED BY <1>14, AgentAssumption, <2>1
               DEF HandleResume, serverVars, diskVars, loopVars, queueVars, historyVars,
                   QueueIsServed, PlaceInv, OneAtATime, Released, Shape, Moves
  <1>15. ASSUME NEW r \in Runs, RecoverRun(r) PROVE QueueIsServed'
    BY <1>15, AgentAssumption
       DEF RecoverRun, Enqueue, serverVars, diskVars, historyVars, QueueIsServed, PlaceInv,
           OneAtATime, Released, Shape
  <1>16. ASSUME NEW r \in Runs, ClearRecoveredRun(r) PROVE QueueIsServed'
    BY <1>16, AgentAssumption
       DEF ClearRecoveredRun, serverVars, QueueIsServed, PlaceInv, OneAtATime, Released, Shape
  <1>17. ASSUME NEW r \in Runs, RecoverFails(r) PROVE QueueIsServed'
    BY <1>17, AgentAssumption
       DEF RecoverFails, Upset, serverVars, diskVars, queueVars, QueueIsServed, PlaceInv,
           OneAtATime, Released, Shape
  <1>18. ASSUME NEW r \in Runs, FinishRun(r) PROVE QueueIsServed'
    <2>1. Moves(r, "next", work[r].res)
      BY <1>18, WorkerMoves
    <2> QED BY <1>18, AgentAssumption, <2>1
               DEF FinishRun, serverVars, diskVars, loopVars, historyVars, QueueIsServed,
                   PlaceInv, OneAtATime, Released, Shape, Moves
  <1>19. ASSUME NEW r \in Runs, HandOff(r) PROVE QueueIsServed'
    <2>1. Moves(r, IF stopping THEN "idle" ELSE "claim", work[r].res)
      BY <1>19, WorkerMoves
    <2> QED BY <1>19, AgentAssumption, <2>1
               DEF HandOff, serverVars, diskVars, loopVars, queueVars, historyVars, QueueIsServed,
                   PlaceInv, OneAtATime, Released, Shape, Moves
  <1>20. ASSUME NEW r \in Runs, ClaimWorker(r) PROVE QueueIsServed'
    <2>1. Claims
      BY <1>20, ClaimIsClaims
    <2> QED BY <2>1, ClaimEffect, AgentAssumption DEF Claims, Left, QueueIsServed, Shape
  <1>21. ASSUME NEW r \in Runs, Inside(r) PROVE QueueIsServed'
    BY <1>21, AgentAssumption
       DEF Inside, Moves, QueueIsServed, PlaceInv, OneAtATime, Released, Shape
  <1>22. CASE UNCHANGED vars
    BY <1>22
       DEF vars, serverVars, diskVars, loopVars, queueVars, historyVars, QueueIsServed, PlaceInv,
           OneAtATime, Released, Shape
  <1> QED
    BY <1>1, <1>2, <1>3, <1>4, <1>5, <1>6, <1>7, <1>8, <1>9, <1>10, <1>11, <1>12, <1>13, <1>14,
       <1>15, <1>16, <1>17, <1>18, <1>19, <1>20, <1>21, <1>22, WorkerInside
       DEF Next, Main, Worker

(* The queue.                                                               *)
LEMMA QueueNext ==
    ASSUME IInv, [Next]_vars
    PROVE  QueueInv'
  <1> USE DEF IInv
  <1>1. ASSUME HandleAssignment PROVE QueueInv'
    <2>1. CASE IsKnown(Head(inbox))
      BY <1>1, <2>1 DEF HandleAssignment, serverVars, diskVars, QueueInv, InQueue
    <2>2. CASE ~IsKnown(Head(inbox))
      <3>1. Head(inbox) \in Runs /\ life \in Nat /\ Enqueue(Head(inbox), life) /\ main' = "check"
        BY <1>1, <2>2 DEF HandleAssignment, Shape
      <3>2. Head(inbox) # active /\ Head(inbox) \notin completed /\ ~InQueue(Head(inbox))
        BY <2>2 DEF IsKnown, InQueue
      <3>3. /\ UNCHANGED <<active, completed, todo, work, state>> /\ main = "loop"
            /\ \A q \in Runs : InQueue(q)' <=> InQueue(q) \/ q = Head(inbox)
        BY <1>1, <3>1, EnqueueFacts DEF HandleAssignment, diskVars
      <3>4. \A i, j \in 1..Len(pending') : pending'[i].run = pending'[j].run => i = j
        BY <3>1, <3>2, EnqueueFacts DEF QueueInv
      <3> QED BY <3>1, <3>2, <3>3, <3>4 DEF QueueInv
    <2> QED BY <2>1, <2>2
  <1>2. ASSUME CheckIdle PROVE QueueInv'
    BY <1>2, AgentAssumption
       DEF CheckIdle, MainTo, serverVars, diskVars, queueVars, historyVars, QueueInv, InQueue,
           PlaceInv, OneAtATime, Released, Shape
  <1>3. ASSUME StartNext PROVE QueueInv'
    BY <1>3, AgentAssumption
       DEF StartNext, MainTo, serverVars, diskVars, queueVars, historyVars, QueueInv, InQueue,
           PlaceInv, OneAtATime, Released, Shape
  <1>4. ASSUME ClaimMain PROVE QueueInv'
    <2>1. Claims
      BY <1>4, ClaimIsClaims
    <2>2. main' \in {"down", "recover"} => main' = main /\ \A q \in Runs : work[q].pc = "idle"
      BY <2>1 DEF Claims, QueueInv
    <2>3. ~ClaimMain => \E q \in Runs : work[q].pc = "claim"
      BY <1>4 DEF ClaimWorker
    <2>4. main' \notin {"down", "recover"}
      BY <2>1, <2>2, <2>3 DEF ClaimMain
    <2>5. \A q \in Runs : InQueue(q)' => q # active'
      BY <2>1, ClaimQueue
    <2>6. \A q \in todo' : main' = "recover"
      BY <2>1, <2>3 DEF Claims, QueueInv, ClaimMain, Shape
    <2> QED BY <2>1, <2>4, <2>5, <2>6, ClaimQueue DEF Claims, QueueInv
  <1>5. ASSUME Shutdown PROVE QueueInv'
    BY <1>5, AgentAssumption
       DEF Shutdown, serverVars, diskVars, queueVars, historyVars, QueueInv, InQueue, PlaceInv,
           OneAtATime, Released, Shape
  <1>6. ASSUME RecoverEnds PROVE QueueInv'
    BY <1>6, AgentAssumption
       DEF RecoverEnds, MainTo, serverVars, diskVars, queueVars, historyVars, QueueInv, InQueue,
           PlaceInv, OneAtATime, Released, Shape
  <1>7. ASSUME Stop PROVE QueueInv'
    BY <1>7, AgentAssumption
       DEF Stop, serverVars, diskVars, queueVars, historyVars, QueueInv, InQueue, PlaceInv,
           OneAtATime, Released, Shape
  <1>8. ASSUME Exit PROVE QueueInv'
    BY <1>8, AgentAssumption, IdleFacts
       DEF Exit, Gone, serverVars, diskVars, QueueInv, InQueue, PlaceInv, OneAtATime, Released,
           Shape
  <1>9. ASSUME Crash PROVE QueueInv'
    BY <1>9, AgentAssumption, IdleFacts
       DEF Crash, Gone, serverVars, diskVars, QueueInv, InQueue, PlaceInv, OneAtATime, Released,
           Shape
  <1>10. ASSUME Restart PROVE QueueInv'
    BY <1>10, AgentAssumption
       DEF Restart, serverVars, diskVars, queueVars, historyVars, QueueInv, InQueue, PlaceInv,
           OneAtATime, Released, Shape
  <1>11. ASSUME NEW r \in Runs, Assign(r) PROVE QueueInv'
    BY <1>11, AgentAssumption
       DEF Assign, diskVars, queueVars, historyVars, QueueInv, InQueue, PlaceInv, OneAtATime,
           Released, Shape
  <1>12. ASSUME NEW r \in Runs, Deliver(r) PROVE QueueInv'
    BY <1>12, AgentAssumption
       DEF Deliver, diskVars, loopVars, queueVars, historyVars, QueueInv, InQueue, PlaceInv,
           OneAtATime, Released, Shape
  <1>13. ASSUME NEW r \in Runs, HandleCancel(r) PROVE QueueInv'
    <2>1. Moves(r, work[r].pc, work[r].res)
      BY <1>13, WorkerMoves
    <2> QED BY <1>13, AgentAssumption, <2>1
               DEF HandleCancel, Upset, serverVars, diskVars, loopVars, queueVars, QueueInv,
                   InQueue, PlaceInv, OneAtATime, Released, Shape, Moves
  <1>14. ASSUME NEW r \in Runs, HandleResume(r) PROVE QueueInv'
    <2>1. Moves(r, work[r].pc, work[r].res)
      BY <1>14, WorkerMoves
    <2> QED BY <1>14, AgentAssumption, <2>1
               DEF HandleResume, serverVars, diskVars, loopVars, queueVars, historyVars, QueueInv,
                   InQueue, PlaceInv, OneAtATime, Released, Shape, Moves
  <1>15. ASSUME NEW r \in Runs, RecoverRun(r) PROVE QueueInv'
    <2>1. r \in todo /\ Enqueue(r, state[r]) /\ main = "recover" /\ main' = "recover" /\ state[r] \in Nat
      BY <1>15 DEF RecoverRun, Shape
    <2>2. /\ UNCHANGED <<active, completed, work, state>> /\ todo' = todo \ {r}
          /\ \A q \in Runs : InQueue(q)' <=> InQueue(q) \/ q = r
      BY <1>15, <2>1, EnqueueFacts DEF RecoverRun, diskVars
    <2>3. \A i, j \in 1..Len(pending') : pending'[i].run = pending'[j].run => i = j
      BY <2>1, EnqueueFacts DEF QueueInv
    <2>4. r \notin completed /\ r # active /\ todo \subseteq Runs
      BY <2>1, AgentAssumption DEF QueueInv, PlaceInv, Released, Shape
    <2> QED BY <2>1, <2>2, <2>3, <2>4 DEF QueueInv
  <1>16. ASSUME NEW r \in Runs, ClearRecoveredRun(r) PROVE QueueInv'
    BY <1>16, AgentAssumption
       DEF ClearRecoveredRun, serverVars, QueueInv, InQueue, PlaceInv, OneAtATime, Released, Shape
  <1>17. ASSUME NEW r \in Runs, RecoverFails(r) PROVE QueueInv'
    BY <1>17, AgentAssumption
       DEF RecoverFails, Upset, serverVars, diskVars, queueVars, QueueInv, InQueue, PlaceInv,
           OneAtATime, Released, Shape
  <1>18. ASSUME NEW r \in Runs, FinishRun(r) PROVE QueueInv'
    <2>1. Moves(r, "next", work[r].res)
      BY <1>18, WorkerMoves
    <2> QED BY <1>18, AgentAssumption, <2>1
               DEF FinishRun, serverVars, diskVars, loopVars, historyVars, QueueInv, InQueue,
                   PlaceInv, OneAtATime, Released, Shape, Moves
  <1>19. ASSUME NEW r \in Runs, HandOff(r) PROVE QueueInv'
    <2>1. Moves(r, IF stopping THEN "idle" ELSE "claim", work[r].res)
      BY <1>19, WorkerMoves
    <2> QED BY <1>19, AgentAssumption, <2>1
               DEF HandOff, serverVars, diskVars, loopVars, queueVars, historyVars, QueueInv,
                   InQueue, PlaceInv, OneAtATime, Released, Shape, Moves
  <1>20. ASSUME NEW r \in Runs, ClaimWorker(r) PROVE QueueInv'
    <2>1. Claims
      BY <1>20, ClaimIsClaims
    <2>2. main' \in {"down", "recover"} => main' = main /\ \A q \in Runs : work[q].pc = "idle"
      BY <2>1 DEF Claims, QueueInv
    <2>3. ~ClaimMain => \E q \in Runs : work[q].pc = "claim"
      BY <1>20 DEF ClaimWorker
    <2>4. main' \notin {"down", "recover"}
      BY <2>1, <2>2, <2>3 DEF ClaimMain
    <2>5. \A q \in Runs : InQueue(q)' => q # active'
      BY <2>1, ClaimQueue
    <2>6. \A q \in todo' : main' = "recover"
      BY <2>1, <2>3 DEF Claims, QueueInv, ClaimMain, Shape
    <2> QED BY <2>1, <2>4, <2>5, <2>6, ClaimQueue DEF Claims, QueueInv
  <1>21. ASSUME NEW r \in Runs, Inside(r) PROVE QueueInv'
    <2>1. /\ UNCHANGED <<active, pending, main, todo, inbox>> /\ active = r /\ main \notin {"down", "recover"}
          /\ completed' \subseteq completed \cup {r}
      BY <1>21 DEF Inside, PlaceInv, OneAtATime, QueueInv, Released
    <2>2. \A q \in Runs : InQueue(q)' <=> InQueue(q)
      BY <2>1 DEF InQueue
    <2> QED BY <2>1, <2>2 DEF QueueInv
  <1>22. CASE UNCHANGED vars
    BY <1>22
       DEF vars, serverVars, diskVars, loopVars, queueVars, historyVars, QueueInv, InQueue,
           PlaceInv, OneAtATime, Released, Shape
  <1> QED
    BY <1>1, <1>2, <1>3, <1>4, <1>5, <1>6, <1>7, <1>8, <1>9, <1>10, <1>11, <1>12, <1>13, <1>14,
       <1>15, <1>16, <1>17, <1>18, <1>19, <1>20, <1>21, <1>22, WorkerInside
       DEF Next, Main, Worker


(* The goroutine's own run, step by step.                                   *)
LEMMA WorkerRun ==
    ASSUME IInv, NEW r \in Runs, Inside(r),
           \/ LoadFails(r) \/ LoadDeclines(r) \/ LoadResumeState(r) \/ CompileFails(r)
           \/ BeginRun(r) \/ EnterStep(r) \/ StepDone(r) \/ Pause(r)
           \/ Complete(r) \/ EngineFails(r) \/ BrokenOff(r) \/ AfterRun(r)
           \/ Resume(r) \/ AwaitAborted(r) \/ DrainAndCleanup(r) \/ ClosePublisher(r)
           \/ MarkCompleted(r)
    PROVE  RunInv(r)'
  <1> USE DEF IInv
  <1>0. /\ UNCHANGED <<srv, active, pending, stopping, inbox>> /\ completed \subseteq completed'
        /\ active = r /\ RunInv(r) /\ IsOver(r)' = IsOver(r) /\ ~InQueue(r)'
        /\ work[r].cred # 0
    BY DEF Inside, PlaceInv, OneAtATime, QueueInv, InQueue, IsOver
  <1>1. CASE LoadFails(r)
    <2>1. Moves(r, "mark", "err")
      BY <1>1, WorkerMoves
    <2> QED BY <1>0, <1>1, <2>1
               DEF LoadFails, serverVars, diskVars, loopVars, queueVars, Moves, RunInv, EventInv,
                   OverInv, CutInv, FileInv, Busy, Released, Shape
  <1>2. CASE LoadDeclines(r)
    <2>1. Moves(r, "mark", "none")
      BY <1>2, WorkerMoves
    <2> QED BY <1>0, <1>2, <2>1
               DEF LoadDeclines, serverVars, loopVars, IsOver, Moves, RunInv, EventInv, OverInv,
                   CutInv, FileInv, Busy, Released, Shape
  <1>3. CASE LoadResumeState(r)
    <2>1. Moves(r, "compile", work[r].res)
      BY <1>3, WorkerMoves
    <2> QED BY <1>0, <1>3, <2>1
               DEF LoadResumeState, serverVars, diskVars, loopVars, queueVars, historyVars, Moves,
                   RunInv, EventInv, OverInv, CutInv, FileInv, Busy, Released, Shape
  <1>4. CASE CompileFails(r)
    <2>1. Moves(r, "drain", "err")
      BY <1>4, WorkerMoves
    <2>2. EndsIn(tail'[r]) <=> EndsIn(tail[r]) \/ EndsIn(<<Over>>)
      BY <1>4, EmitFacts, EventTypes DEF CompileFails
    <2> QED BY <1>0, <1>4, <2>1, EventTypes, <2>2
               DEF CompileFails, serverVars, diskVars, loopVars, queueVars, Moves, RunInv,
                   EventInv, OverInv, CutInv, FileInv, Busy, Released, Shape
  <1>5. CASE BeginRun(r)
    <2>1. Moves(r, "run", work[r].res)
      BY <1>5, WorkerMoves
    <2>2. EndsIn(tail'[r]) <=> EndsIn(tail[r])
      BY <1>5, EmitFacts, EventTypes DEF BeginRun
    <2> QED BY <1>0, <1>5, <2>1, <2>2
               DEF BeginRun, serverVars, loopVars, queueVars, Moves, RunInv, EventInv, OverInv,
                   CutInv, FileInv, Busy, Released, Shape
  <1>6. CASE EnterStep(r)
    <2>1. Moves(r, "exec", work[r].res)
      BY <1>6, WorkerMoves
    <2>2. EndsIn(tail'[r]) <=> EndsIn(tail[r])
      <3>1. Emit(r, <<Event("entered", work[r].at)>>) /\ work[r].at \in Nat
        BY <1>6, WorkFields DEF EnterStep
      <3> QED BY <3>1, EmitFacts, EventTypes
    <2> QED BY <1>0, <1>6, <2>1, <2>2
               DEF EnterStep, serverVars, loopVars, queueVars, historyVars, Moves, RunInv,
                   EventInv, OverInv, CutInv, FileInv, Busy, Released, Shape
  <1>7. CASE StepDone(r)
    <2>1. Moves(r, "run", work[r].res)
      BY <1>7, WorkerMoves
    <2> QED BY <1>0, <1>7, <2>1
               DEF StepDone, serverVars, diskVars, loopVars, queueVars, historyVars, Moves,
                   RunInv, EventInv, OverInv, CutInv, FileInv, Busy, Released, Shape
  <1>8. CASE Pause(r)
    <2>1. Moves(r, Returned(r, "paused"), "paused")
      BY <1>8, WorkerMoves
    <2>2. EndsIn(tail'[r]) <=> EndsIn(tail[r])
      <3>1. Emit(r, <<Event("paused", work[r].at)>>) /\ work[r].at \in Nat
        BY <1>8, WorkFields DEF Pause
      <3> QED BY <3>1, EmitFacts, EventTypes
    <2> QED BY <1>0, <1>8, <2>1, ReturnedIsPC, <2>2
               DEF Pause, serverVars, diskVars, loopVars, queueVars, Moves, RunInv, EventInv,
                   OverInv, CutInv, FileInv, Busy, Released, Shape
  <1>9. CASE Complete(r)
    <2>1. Moves(r, Returned(r, "ok"), "ok")
      BY <1>9, WorkerMoves
    <2>2. EndsIn(tail'[r])
      BY <1>9, EmitFacts, EventTypes DEF Complete
    <2> QED BY <1>0, <1>9, <2>1, ReturnedIsPC, <2>2
               DEF Complete, serverVars, diskVars, loopVars, queueVars, historyVars, Moves,
                   RunInv, EventInv, OverInv, CutInv, FileInv, Busy, Released, Shape
  <1>10. CASE EngineFails(r)
    <2>1. Moves(r, Returned(r, "err"), "err")
      BY <1>10, WorkerMoves
    <2>2. EndsIn(tail'[r]) <=> EndsIn(tail[r]) \/ EndsIn(FailureEvents)
      BY <1>10, EmitFacts, EventTypes DEF EngineFails
    <2> QED BY <1>0, <1>10, <2>1, ReturnedIsPC, EventTypes, <2>2
               DEF EngineFails, serverVars, diskVars, loopVars, queueVars, Moves, RunInv,
                   EventInv, OverInv, CutInv, FileInv, Busy, Released, Shape
  <1>11. CASE BrokenOff(r)
    <2>1. /\ work[r].pc \in {"run", "exec"} /\ work'[r].pc \in {"ran", "drain"}
          /\ UNCHANGED <<state, began, excused>>
          /\ work'[r].res = "ok" => EndsIn(tail'[r]) /\ cutOff'[r] # "step"
          /\ work'[r].res # "ok" /\ stopping => (EndsIn(tail'[r]) => EndsIn(tail[r]))
          /\ cutOff'[r] = "step" => stopping /\ ~IsOver(r) /\ work'[r].res = "err"
          /\ work'[r].res \in {"ok", "err"}
      <3>1. Returned(r, "ok") \in {"ran", "drain"} /\ Returned(r, "err") \in {"ran", "drain"}
        BY ReturnedIsPC
      <3>2. work[r].pc \in {"run", "exec"} /\ UNCHANGED <<state, began, excused>> /\ (stopping \/ work[r].cancel)
        BY <1>11 DEF BrokenOff, CtxDone, diskVars
      <3>3. CASE /\ Moves(r, Returned(r, "ok"), "ok") /\ Emit(r, <<Over>>)
                 /\ cutOff' = [cutOff EXCEPT ![r] = IF work[r].cancel \/ srv[r].status = "over"
                                                 THEN "none" ELSE "declared"]
        BY <3>1, <3>2, <3>3, EmitFacts, EventTypes DEF Moves, Shape
      <3>4. CASE /\ Moves(r, Returned(r, "err"), "err") /\ Emit(r, FailureEvents)
                 /\ cutOff' = [cutOff EXCEPT ![r] = IF work[r].cancel \/ srv[r].status = "over"
                                                 THEN "none" ELSE "step"]
        BY <3>1, <3>2, <3>4, EmitFacts, EventTypes DEF Moves, Shape, IsOver
      <3> QED BY <1>11, <3>3, <3>4, BrokenOffMoves
    <2> QED BY <1>0, <2>1 DEF RunInv, EventInv, OverInv, CutInv, FileInv, Busy, Released
  <1>12. CASE AfterRun(r)
    <2>1. IF stopping THEN Moves(r, "drain", "err")
          ELSE Moves(r, IF work[r].res = "paused" THEN "await" ELSE "drain", work[r].res)
      BY <1>12, WorkerMoves
    <2>2. /\ EndsIn(tail'[r]) => EndsIn(tail[r]) \/ (~stopping /\ work[r].res = "err")
          /\ EndsIn(tail[r]) => EndsIn(tail'[r])
      BY <1>12, EmitFacts, EventTypes DEF AfterRun
    <2> QED BY <1>0, <1>12, <2>1, <2>2
               DEF AfterRun, serverVars, diskVars, loopVars, queueVars, historyVars, Moves,
                   RunInv, EventInv, OverInv, CutInv, FileInv, Busy, Released, Shape
  <1>13. CASE Resume(r)
    <2>1. Moves(r, "run", work[r].res)
      BY <1>13, WorkerMoves
    <2> QED BY <1>0, <1>13, <2>1
               DEF Resume, serverVars, diskVars, loopVars, queueVars, historyVars, Moves, RunInv,
                   EventInv, OverInv, CutInv, FileInv, Busy, Released, Shape
  <1>14. CASE AwaitAborted(r)
    <2>1. Moves(r, "drain", "err")
      BY <1>14, WorkerMoves
    <2> QED BY <1>0, <1>14, <2>1
               DEF AwaitAborted, serverVars, diskVars, loopVars, queueVars, historyVars, Moves,
                   RunInv, EventInv, OverInv, CutInv, FileInv, Busy, Released, Shape
  <1>15. CASE DrainAndCleanup(r)
    <2>1. Moves(r, IF work[r].res = "ok" /\ ~stopping THEN "cleanup" ELSE "close", work[r].res)
      BY <1>15, WorkerMoves
    <2> QED BY <1>0, <1>15, <2>1, EventTypes
               DEF DrainAndCleanup, serverVars, loopVars, queueVars, Moves, RunInv, EventInv,
                   OverInv, CutInv, FileInv, Busy, Released, Shape
  <1>16. CASE ClosePublisher(r)
    <2>1. Moves(r, "mark", work[r].res)
      BY <1>16, WorkerMoves
    <2> QED BY <1>0, <1>16, <2>1, EventTypes
               DEF ClosePublisher, serverVars, loopVars, queueVars, historyVars, Moves, RunInv,
                   EventInv, OverInv, CutInv, FileInv, Busy, Released, Shape
  <1>17. CASE MarkCompleted(r)
    <2>1. Moves(r, "finish", work[r].res)
      BY <1>17, WorkerMoves
    <2> QED BY <1>0, <1>17, <2>1
               DEF MarkCompleted, serverVars, diskVars, loopVars, historyVars, Moves, RunInv,
                   EventInv, OverInv, CutInv, FileInv, Busy, Released, Shape
  <1> QED BY <1>1, <1>2, <1>3, <1>4, <1>5, <1>6, <1>7, <1>8, <1>9, <1>10, <1>11, <1>12, <1>13,
             <1>14, <1>15, <1>16, <1>17


(* Each run.                                                                *)
LEMMA RunNext ==
    ASSUME IInv, [Next]_vars, NEW q \in Runs
    PROVE  RunInv(q)'
  <1> USE DEF IInv
  <1>1. ASSUME HandleAssignment PROVE RunInv(q)'
    <2>1. /\ UNCHANGED <<srv, state, stopping, active, completed, work, tail, cutOff, began, excused>>
          /\ inbox # <<>> /\ inbox' = Tail(inbox) /\ RunInv(q)
      BY <1>1 DEF HandleAssignment, serverVars, diskVars, historyVars
    <2>2. inbox[1] = Head(inbox) /\ inbox[1] \in Runs /\ Len(inbox) \in Nat \ {0}
          /\ \A i \in 1 .. Len(inbox') : i + 1 \in 1 .. Len(inbox) /\ inbox'[i] = inbox[i + 1]
      BY <2>1 DEF Shape
    <2>3. (\E i \in 1..Len(inbox') : inbox'[i] = q) => \E i \in 1..Len(inbox) : inbox[i] = q
      BY <2>2
    <2>4. ASSUME InQueue(q)', ~InQueue(q), ~stopping PROVE ~IsOver(q)
      <3>1. ~IsKnown(Head(inbox)) /\ Enqueue(Head(inbox), life) /\ life \in Nat
        BY <1>1, <2>4 DEF HandleAssignment, InQueue, Shape
      <3>2. q = inbox[1]
        BY <2>2, <2>4, <3>1, EnqueueFacts
      <3>3. q # active /\ q \notin completed
        BY <2>2, <3>1, <3>2 DEF IsKnown
      <3>4. \E i \in 1..Len(inbox) : inbox[i] = q
        BY <2>2, <3>2
      <3> QED BY <2>1, <2>4, <3>3, <3>4 DEF RunInv, OverInv
    <2> QED BY <2>1, <2>3, <2>4 DEF RunInv, EventInv, OverInv, CutInv, FileInv, Busy, IsOver
  <1>2. ASSUME CheckIdle PROVE RunInv(q)'
    BY <1>2
       DEF CheckIdle, MainTo, serverVars, diskVars, queueVars, historyVars, RunInv, EventInv,
           OverInv, CutInv, FileInv, Busy, Released, IsOver, InQueue
  <1>3. ASSUME StartNext PROVE RunInv(q)'
    BY <1>3
       DEF StartNext, MainTo, serverVars, diskVars, queueVars, historyVars, RunInv, EventInv,
           OverInv, CutInv, FileInv, Busy, Released, IsOver, InQueue
  <1>4. ASSUME ClaimMain PROVE RunInv(q)'
    <2>1. Claims /\ RunInv(q)
      BY <1>4, ClaimIsClaims
    <2>2. /\ UNCHANGED <<srv, state, stopping, inbox, completed, tail, cutOff, began, excused>>
          /\ InQueue(q)' => InQueue(q)
          /\ IsOver(q)' = IsOver(q)
      BY <2>1, ClaimQueue DEF Claims, IsOver
    <2>3. CASE Left(q) /\ active' = active
      BY <2>1, <2>2, <2>3 DEF Left, RunInv, EventInv, OverInv, CutInv, FileInv, Busy, Released
    <2>4. CASE Left(q) /\ active = None
      BY <2>1, <2>2, <2>4, AgentAssumption
         DEF Left, RunInv, EventInv, OverInv, CutInv, FileInv, Busy, Released
    <2>5. CASE q = active' /\ active = None /\ work'[q].pc = "load"
      <3>1. InQueue(q) /\ work[q].pc \in Released
        BY <2>1, <2>5, ClaimQueue, AgentAssumption DEF PlaceInv, OneAtATime
      <3> QED BY <2>1, <2>2, <2>5, <3>1, EventTypes
                 DEF RunInv, EventInv, OverInv, CutInv, FileInv, Busy, Released
    <2> QED BY <2>1, <2>3, <2>4, <2>5, ClaimEffect
  <1>5. ASSUME Shutdown PROVE RunInv(q)'
    BY <1>5
       DEF Shutdown, serverVars, diskVars, queueVars, historyVars, RunInv, EventInv, OverInv,
           CutInv, FileInv, Busy, Released, IsOver, InQueue
  <1>6. ASSUME RecoverEnds PROVE RunInv(q)'
    BY <1>6
       DEF RecoverEnds, MainTo, serverVars, diskVars, queueVars, historyVars, RunInv, EventInv,
           OverInv, CutInv, FileInv, Busy, Released, IsOver, InQueue
  <1>7. ASSUME Stop PROVE RunInv(q)'
    BY <1>7
       DEF Stop, serverVars, diskVars, queueVars, historyVars, RunInv, EventInv, OverInv, CutInv,
           FileInv, Busy, Released, IsOver, InQueue
  <1>8. ASSUME Exit PROVE RunInv(q)'
    <2>1. /\ UNCHANGED <<srv, state, cutOff, began, excused>> /\ RunInv(q)
          /\ inbox' = <<>> /\ pending' = <<>> /\ work'[q] = Idle /\ tail'[q] = <<>>
      BY <1>8 DEF Exit, Gone, serverVars, diskVars
    <2>2. ~InQueue(q)' /\ ~\E i \in 1..Len(inbox') : inbox'[i] = q
      BY <2>1 DEF InQueue
    <2> QED BY <2>1, <2>2, IdleFacts, EventTypes
            DEF RunInv, EventInv, OverInv, CutInv, FileInv, Busy, IsOver, Released
  <1>9. ASSUME Crash PROVE RunInv(q)'
    <2>1. /\ UNCHANGED <<srv, state, cutOff, began, excused>> /\ RunInv(q)
          /\ inbox' = <<>> /\ pending' = <<>> /\ work'[q] = Idle /\ tail'[q] = <<>>
      BY <1>9 DEF Crash, Gone, serverVars, diskVars
    <2>2. ~InQueue(q)' /\ ~\E i \in 1..Len(inbox') : inbox'[i] = q
      BY <2>1 DEF InQueue
    <2> QED BY <2>1, <2>2, IdleFacts, EventTypes
            DEF RunInv, EventInv, OverInv, CutInv, FileInv, Busy, IsOver, Released
  <1>10. ASSUME Restart PROVE RunInv(q)'
    BY <1>10
       DEF Restart, serverVars, diskVars, queueVars, historyVars, RunInv, EventInv, OverInv,
           CutInv, FileInv, Busy, Released, IsOver, InQueue
  <1>11. ASSUME NEW r \in Runs, Assign(r) PROVE RunInv(q)'
    <2>1. /\ UNCHANGED <<srv, state, stopping, active, pending, completed, work, tail, cutOff, began, excused>>
          /\ inbox' = Append(inbox, r) /\ ~IsOver(r) /\ RunInv(q)
      BY <1>11 DEF Assign, diskVars, queueVars, historyVars, IsOver
    <2>2. IsOver(q) /\ (\E i \in 1..Len(inbox') : inbox'[i] = q) => \E i \in 1..Len(inbox) : inbox[i] = q
      <3>1. /\ Len(inbox') = Len(inbox) + 1 /\ Len(inbox) \in Nat /\ inbox'[Len(inbox) + 1] = r
            /\ \A i \in 1..Len(inbox) : inbox'[i] = inbox[i]
        BY <2>1 DEF Shape
      <3> QED BY <2>1, <3>1
    <2> QED BY <2>1, <2>2 DEF RunInv, EventInv, OverInv, CutInv, FileInv, Busy, IsOver, InQueue
  <1>12. ASSUME NEW r \in Runs, Deliver(r) PROVE RunInv(q)'
    <2>1. UNCHANGED <<state, stopping, inbox, active, pending, completed, work, cutOff, began, excused>>
      BY <1>12 DEF Deliver, diskVars, loopVars, queueVars, historyVars
    <2>2. RunInv(q) /\ InQueue(q)' = InQueue(q) /\ work'[q] = work[q]
      BY <2>1 DEF InQueue
    <2>3. CASE q # r
      <3>1. srv'[q] = srv[q] /\ tail'[q] = tail[q]
        BY <1>12, <2>3, DeliverFacts
      <3> QED BY <2>1, <2>2, <3>1 DEF RunInv, EventInv, OverInv, CutInv, FileInv, Busy, IsOver
    <2>4. CASE q = r
      <3>1. /\ tail[q] # <<>>
            /\ IsOver(q)' <=> IsOver(q) \/ Head(tail[q]).kind = "over"
            /\ EndsIn(tail[q]) <=> Head(tail[q]).kind = "over" \/ EndsIn(tail'[q])
        BY <1>12, <2>4, DeliverFacts
      <3>2. work[q].pc \notin Released \cup {"load", "compile", "mark", "finish"}
        BY <2>2, <3>1 DEF RunInv, EventInv
      <3>3. active = q /\ ~InQueue(q)
        BY <3>2 DEF PlaceInv, OneAtATime, QueueInv
      <3> QED BY <2>1, <2>2, <3>1, <3>2, <3>3 DEF RunInv, EventInv, OverInv, CutInv, FileInv, Busy
    <2> QED BY <2>3, <2>4
  <1>13. ASSUME NEW r \in Runs, HandleCancel(r) PROVE RunInv(q)'
    <2>1. Moves(r, work[r].pc, work[r].res)
      BY <1>13, WorkerMoves
    <2> QED BY <1>13, <2>1
               DEF HandleCancel, Upset, serverVars, diskVars, loopVars, queueVars, RunInv,
                   EventInv, OverInv, CutInv, FileInv, Busy, Released, IsOver, InQueue, Moves
  <1>14. ASSUME NEW r \in Runs, HandleResume(r) PROVE RunInv(q)'
    <2>1. Moves(r, work[r].pc, work[r].res)
      BY <1>14, WorkerMoves
    <2> QED BY <1>14, <2>1
               DEF HandleResume, serverVars, diskVars, loopVars, queueVars, historyVars, RunInv,
                   EventInv, OverInv, CutInv, FileInv, Busy, Released, IsOver, InQueue, Moves
  <1>15. ASSUME NEW r \in Runs, RecoverRun(r) PROVE RunInv(q)'
    <2>1. /\ UNCHANGED <<srv, state, stopping, inbox, active, completed, work, tail, cutOff, began, excused>>
          /\ Enqueue(r, state[r]) /\ state[r] \in Nat /\ ~IsOver(r) /\ RunInv(q)
      BY <1>15 DEF RecoverRun, CanResume, IsOver, serverVars, diskVars, historyVars, Shape
    <2>2. InQueue(q)' <=> InQueue(q) \/ q = r
      BY <2>1, EnqueueFacts
    <2> QED BY <2>1, <2>2 DEF RunInv, EventInv, OverInv, CutInv, FileInv, Busy, IsOver
  <1>16. ASSUME NEW r \in Runs, ClearRecoveredRun(r) PROVE RunInv(q)'
    <2>1. /\ UNCHANGED <<srv, stopping, inbox, active, pending, work, tail, cutOff, began>>
          /\ completed \subseteq completed' /\ RunInv(q) /\ excused \subseteq excused'
          /\ q # r => state'[q] = state[q]
          /\ q = r => IsOver(q) \/ q \in excused'
      BY <1>16 DEF ClearRecoveredRun, serverVars, IsOver, Shape
    <2> QED BY <2>1 DEF RunInv, EventInv, OverInv, CutInv, FileInv, Busy, IsOver, InQueue
  <1>17. ASSUME NEW r \in Runs, RecoverFails(r) PROVE RunInv(q)'
    BY <1>17
       DEF RecoverFails, Upset, serverVars, diskVars, queueVars, RunInv, EventInv, OverInv,
           CutInv, FileInv, Busy, Released, IsOver, InQueue
  <1>18. ASSUME NEW r \in Runs, FinishRun(r) PROVE RunInv(q)'
    <2>1. /\ UNCHANGED <<srv, state, stopping, inbox, pending, completed, tail, cutOff, began, excused>>
          /\ work[r].pc = "finish" /\ Moves(r, "next", work[r].res) /\ RunInv(q)
      BY <1>18, WorkerMoves DEF FinishRun, serverVars, diskVars, loopVars, historyVars
    <2>2. active = r
      BY <2>1 DEF PlaceInv, OneAtATime, Released
    <2>3. CASE q = r
      BY <2>1, <2>3
         DEF Moves, RunInv, EventInv, OverInv, CutInv, FileInv, Busy, Released, IsOver, InQueue
    <2>4. CASE q # r
      <3>1. work'[q] = work[q]
        BY <2>1, <2>4 DEF Moves
      <3> QED BY <2>1, <2>2, <2>4, <3>1
              DEF RunInv, EventInv, OverInv, CutInv, FileInv, Busy, IsOver, InQueue
    <2> QED BY <2>3, <2>4
  <1>19. ASSUME NEW r \in Runs, HandOff(r) PROVE RunInv(q)'
    <2>1. Moves(r, IF stopping THEN "idle" ELSE "claim", work[r].res)
      BY <1>19, WorkerMoves
    <2> QED BY <1>19, <2>1
               DEF HandOff, serverVars, diskVars, loopVars, queueVars, historyVars, RunInv,
                   EventInv, OverInv, CutInv, FileInv, Busy, Released, IsOver, InQueue, Moves
  <1>20. ASSUME NEW r \in Runs, ClaimWorker(r) PROVE RunInv(q)'
    <2>1. Claims /\ RunInv(q)
      BY <1>20, ClaimIsClaims
    <2>2. /\ UNCHANGED <<srv, state, stopping, inbox, completed, tail, cutOff, began, excused>>
          /\ InQueue(q)' => InQueue(q)
          /\ IsOver(q)' = IsOver(q)
      BY <2>1, ClaimQueue DEF Claims, IsOver
    <2>3. CASE Left(q) /\ active' = active
      BY <2>1, <2>2, <2>3 DEF Left, RunInv, EventInv, OverInv, CutInv, FileInv, Busy, Released
    <2>4. CASE Left(q) /\ active = None
      BY <2>1, <2>2, <2>4, AgentAssumption
         DEF Left, RunInv, EventInv, OverInv, CutInv, FileInv, Busy, Released
    <2>5. CASE q = active' /\ active = None /\ work'[q].pc = "load"
      <3>1. InQueue(q) /\ work[q].pc \in Released
        BY <2>1, <2>5, ClaimQueue, AgentAssumption DEF PlaceInv, OneAtATime
      <3> QED BY <2>1, <2>2, <2>5, <3>1, EventTypes
                 DEF RunInv, EventInv, OverInv, CutInv, FileInv, Busy, Released
    <2> QED BY <2>1, <2>3, <2>4, <2>5, ClaimEffect
  <1>21. ASSUME NEW r \in Runs, Inside(r), Worker(r), ~FinishRun(r), ~HandOff(r), ~ClaimWorker(r) PROVE RunInv(q)'
    <2>1. CASE q = r
      BY <1>21, <2>1, WorkerRun DEF Worker
    <2>2. CASE q # r
      <3>1. work'[q] = work[q] /\ RunInv(q)
        BY <1>21, <2>2 DEF Inside, Moves
      <3> QED BY <1>21, <2>2, <3>1
                 DEF Inside, RunInv, EventInv, OverInv, CutInv, FileInv, Busy, Released, IsOver,
                     InQueue
    <2> QED BY <2>1, <2>2
  <1>22. CASE UNCHANGED vars
    BY <1>22
       DEF vars, serverVars, diskVars, loopVars, queueVars, historyVars, RunInv, EventInv,
           OverInv, CutInv, FileInv, Busy, Released, IsOver, InQueue
  <1>23. ASSUME NEW r \in Runs, Worker(r) PROVE RunInv(q)'
    BY <1>23, <1>18, <1>19, <1>20, <1>21, WorkerInside DEF Worker
  <1> QED
    BY <1>23, <1>1, <1>2, <1>3, <1>4, <1>5, <1>6, <1>7, <1>8, <1>9, <1>10, <1>11, <1>12, <1>13,
       <1>14, <1>15, <1>16, <1>17, <1>18, <1>19, <1>20, <1>21, <1>22, WorkerInside
       DEF Next, Main, Worker


(* Only EnterStep makes a goroutine execute a step.                         *)
LEMMA ExecIsEntered ==
    ASSUME IInv, Next, NEW q \in Runs, work[q].pc = "run", work'[q].pc = "exec"
    PROVE  EnterStep(q)
  <1> USE DEF IInv
  <1>1. ASSUME NEW r \in Runs, Inside(r), Worker(r), ~FinishRun(r), ~HandOff(r), ~ClaimWorker(r)
        PROVE  EnterStep(q)
    <2>1. q = r
      BY <1>1 DEF Inside, Moves
    <2>2. EnterStep(r) \/ BrokenOff(r) \/ Pause(r) \/ Complete(r) \/ EngineFails(r)
      <3>1. work[r].pc = "run" /\ work'[r].pc = "exec"
        BY <2>1
      <3>2. ~CompileFails(r) /\ ~LoadFails(r) /\ ~LoadDeclines(r) /\ ~LoadResumeState(r) /\ ~BeginRun(r)
        BY <3>1 DEF CompileFails, LoadFails, LoadDeclines, LoadResumeState, BeginRun
      <3>3. ~StepDone(r) /\ ~AfterRun(r) /\ ~Resume(r) /\ ~AwaitAborted(r) /\ ~DrainAndCleanup(r)
            /\ ~ClosePublisher(r) /\ ~MarkCompleted(r)
        BY <3>1
           DEF StepDone, AfterRun, Resume, AwaitAborted, DrainAndCleanup, ClosePublisher,
               MarkCompleted
      <3> QED BY <1>1, <3>2, <3>3 DEF Worker
    <2>3. \A res : Returned(r, res) # "exec"
      BY ReturnedIsPC
    <2>4. ~BrokenOff(r) /\ ~Pause(r) /\ ~Complete(r) /\ ~EngineFails(r)
      BY <2>1, <2>3, WorkerMoves, BrokenOffMoves DEF Moves
    <2> QED BY <2>1, <2>2, <2>4
  <1>2. ASSUME NEW r \in Runs, FinishRun(r) \/ HandOff(r) \/ HandleCancel(r) \/ HandleResume(r) PROVE FALSE
    <2>1. CASE FinishRun(r) \/ HandOff(r)
      <3>1. work'[r].pc # "exec" /\ \A p \in Runs \ {r} : work'[p] = work[p]
        BY <2>1, WorkerMoves DEF Moves
      <3> QED BY <3>1
    <2>2. CASE HandleCancel(r) \/ HandleResume(r)
      <3>1. work'[r].pc = work[r].pc /\ \A p \in Runs \ {r} : work'[p] = work[p]
        BY <2>2, WorkerMoves DEF Moves
      <3> QED BY <3>1
    <2> QED BY <1>2, <2>1, <2>2
  <1>3. ASSUME ClaimMain \/ \E r \in Runs : ClaimWorker(r) PROVE FALSE
    BY <1>3, ClaimIsClaims, ClaimEffect DEF Left
  <1>4. ASSUME Exit \/ Crash PROVE FALSE
    BY <1>4, IdleFacts DEF Exit, Crash, Gone
  <1>5. ASSUME work' = work PROVE FALSE
    BY <1>5
  <1>6. \/ HandleAssignment \/ CheckIdle \/ StartNext \/ Shutdown \/ RecoverEnds \/ Stop \/ Restart
        \/ \E r \in Runs : Assign(r) \/ Deliver(r) \/ RecoverRun(r) \/ ClearRecoveredRun(r) \/ RecoverFails(r)
        => work' = work
    BY DEF HandleAssignment, CheckIdle, StartNext, Shutdown, RecoverEnds, Stop, Restart, MainTo,
           Assign, Deliver, RecoverRun, ClearRecoveredRun, RecoverFails
  <1>7. ASSUME NEW r \in Runs, Worker(r) PROVE EnterStep(q)
    BY <1>1, <1>2, <1>3, <1>7, WorkerInside DEF Worker
  <1> QED BY <1>2, <1>3, <1>4, <1>5, <1>6, <1>7 DEF Next, Main

-----------------------------------------------------------------------------
(* The invariant holds at first and is kept by every step.                  *)
LEMMA InitIInv == Init => IInv
  <1> SUFFICES ASSUME Init PROVE IInv
    OBVIOUS
  <1>1. \A r \in Runs : work[r] = Idle /\ tail[r] = <<>> /\ srv[r].status = "none" /\ cutOff[r] = "none"
    BY DEF Init
  <1>2. Idle \in WorkRec /\ Idle.pc = "idle"
    BY IdleFacts
  <1>3. Shape
    <2>1. work \in [Runs -> WorkRec] /\ tail \in [Runs -> Seq(EventRec)]
      BY <1>2 DEF Init
    <2>2. srv \in [Runs -> [status : {"none", "running", "paused", "over"}, step : Nat]]
      BY DEF Init
    <2>3. inbox \in Seq(Runs) /\ pending \in Seq(Queued)
      BY DEF Init
    <2>4. state \in [Runs -> Nat] /\ cutOff \in [Runs -> {"none", "step", "declared", "compile"}]
      BY DEF Init
    <2>5. began = {} /\ todo = {} /\ active = None /\ life = 1 /\ stopping = FALSE
      BY DEF Init
    <2>6. life \in Nat \ {0}
      BY <2>5
    <2>7. stopping \in BOOLEAN /\ began \subseteq Runs /\ todo \subseteq Runs /\ active \in Runs \cup {None}
      BY <2>5
    <2> QED BY <2>1, <2>2, <2>3, <2>4, <2>6, <2>7 DEF Shape
  <1>4. PlaceInv /\ QueueIsServed
    BY <1>1, <1>2 DEF Init, PlaceInv, OneAtATime, Released, QueueIsServed
  <1>5. QueueInv
    BY <1>1, <1>2 DEF Init, QueueInv, InQueue
  <1>6. \A r \in Runs : RunInv(r)
    BY <1>1, <1>2
       DEF Init, RunInv, EventInv, OverInv, CutInv, FileInv, Busy, Released, IsOver, InQueue,
           EndsIn
  <1> QED BY <1>3, <1>4, <1>5, <1>6 DEF IInv

(* Every action keeps the parts of the invariant, one lemma per part.       *)
LEMMA NextIInv == IInv /\ [Next]_vars => IInv'
  <1> SUFFICES ASSUME IInv, [Next]_vars PROVE IInv'
    OBVIOUS
  <1>1. \A q \in Runs : RunInv(q)'
    BY RunNext
  <1> QED BY <1>1, ShapeNext, PlaceNext, ServedNext, QueueNext DEF IInv

(* The inductive invariant of the agent.                                    *)
THEOREM AgentInvariant == Spec => []IInv
  BY InitIInv, NextIInv, PTL DEF Spec

(* Whoever wins the race for the next assignment, the loop or the goroutine *)
(* of the run that ended (claimNext, startNext), the agent executes one run *)
(* at a time and a queued run has somebody who will claim it.               *)
THEOREM HandOffTheorem == Spec => []HandOffIsSafe
  <1>1. IInv => HandOffIsSafe
    BY DEF IInv, PlaceInv, HandOffIsSafe
  <1> QED BY <1>1, AgentInvariant, PTL

(* A run that was begun and is not over has its state file, and stopping    *)
(* the agent is not the end of a run whose step it breaks off               *)
(* (shutdownSuppressingSink, runAndDrain, drainAndCleanup).                 *)
THEOREM ResumableTheorem == Spec => []InterruptedIsResumable
  <1>1. IInv => InterruptedIsResumable
    <2> SUFFICES ASSUME IInv PROVE BegunHasState /\ StopIsNotAnEnd
      BY DEF InterruptedIsResumable
    <2>1. BegunHasState
      BY DEF IInv, Shape, RunInv, FileInv, IsOver, BegunHasState
    <2>2. StopIsNotAnEnd
      BY DEF IInv, RunInv, CutInv, IsOver, StopIsNotAnEnd
    <2> QED BY <2>1, <2>2
  <1> QED BY <1>1, AgentInvariant, PTL

(* No process executes a step of a run that the server has recorded the end *)
(* of (handleAssignment, markCompleted, recoverAgentRuns).                  *)
THEOREM OverTheorem == Spec => OverIsNotRunAgain
  <1>1. IInv /\ [Next]_vars =>
          [\A r \in Runs : work[r].pc = "run" /\ work'[r].pc = "exec" => srv[r].status # "over"]_vars
    <2> SUFFICES ASSUME IInv, Next, NEW r \in Runs, work[r].pc = "run", work'[r].pc = "exec"
                 PROVE  srv[r].status # "over"
      OBVIOUS
    <2>1. ~stopping
      BY ExecIsEntered DEF EnterStep, CtxDone
    <2> QED BY <2>1 DEF IInv, RunInv, OverInv, Busy, IsOver
  <1> QED BY <1>1, AgentInvariant, PTL DEF Spec, OverIsNotRunAgain


=============================================================================
