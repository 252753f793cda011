------------------------- MODULE PauseControlProofs -------------------------
(***************************************************************************)
(* Proofs about PauseControl, for every graph, every set of PauseRun calls *)
(* and every bound.  The three safety properties are not inductive: a      *)
(* decision is fresh when it is applied because the mailbox was empty when *)
(* the pause became visible, a waiter is woken because it can only have    *)
(* started to wait while the loop was live, and the checkpoint is that of  *)
(* the paused node because a call woken by an earlier pause carries a      *)
(* smaller pause number.  The conjuncts of IInv say these things.          *)
(***************************************************************************)
EXTENDS PauseControl, TLAPS

(* Where the pause tracker holds a node, it is the node the loop stopped at,*)
(* and its checkpoint, unless writing it failed, is on disk from the step   *)
(* after that on.                                                           *)
TrackerInv ==
    /\ pausedNode # None => pausedNode = current
    /\ pc \in LoopPC \cup {"start", "newpause", "record", "rebuild"} => pausedNode = None
    /\ pc \in {"persist", "ack", "await", "clear"} => pausedNode # None
    /\ pausedNode # None /\ pc \in {"ack", "exit", "drain", "await", "clear"} =>
          unsaved \/ ckpt = pausedNode

(* Everything in the decision mailbox was accepted in the current pause     *)
(* cycle, for the node the run is, or was last, paused at.                  *)
MailboxInv ==
    /\ pc = "record" => payloadReq = None
    /\ payloadReq # None => payloadReq.cycle = cycle
    /\ payloadReq # None /\ pausedNode # None => payloadReq.node = pausedNode

(* The decision in hand is the one for the node the next engine starts at.  *)
PayloadInv ==
    /\ pc = "await" => payload = None
    /\ pc \in {"clear", "rebuild", "start", "top", "eval"} /\ payload # None =>
          payload.node = current /\ payload.cycle = cycle

(* Calls wait only while the loop they wait on can still close the channel. *)
WaiterInv ==
    /\ current # Missing /\ live => pc \in LoopPC
    /\ current # Missing => \A c \in Calls :
          call[c].phase = "waiting" => pc \in LoopPC \cup PausePC \cup {"exit"}

(* Only a call woken in this pause carries this pause's number.             *)
WakeInv ==
    \A c \in Calls : call[c].at <= cycle /\ (pc = "persist" => call[c].at < cycle)

IInv == TypeOK /\ TrackerInv /\ MailboxInv /\ PayloadInv /\ WaiterInv /\ WakeInv

-----------------------------------------------------------------------------
(* Closing the channel leaves the calls well-typed and nobody waiting.      *)
LEMMA CloseChannelWakes ==
    ASSUME TypeOK, NEW l \in BOOLEAN, CloseChannel(l)
    PROVE  /\ latch' \in BOOLEAN
           /\ call' \in [Calls -> CallState]
           /\ \A c \in Calls : call'[c].phase # "waiting"
           /\ \A c \in Calls : call'[c].at = call[c].at \/ call'[c].at = cycle
  <1>1. latch' = FALSE /\ call' = [c \in Calls |-> Woken(c, l)]
    BY DEF CloseChannel
  <1>2. ASSUME NEW c \in Calls
        PROVE  /\ Woken(c, l) \in CallState
               /\ Woken(c, l).phase # "waiting"
               /\ Woken(c, l).at = call[c].at \/ Woken(c, l).at = cycle
    <2>1. call[c] \in CallState /\ cycle \in Nat
      BY DEF TypeOK
    <2>2. CASE call[c].phase = "waiting"
      BY <2>1, <2>2 DEF Woken, CallState, Phases, Answers
    <2>3. CASE call[c].phase # "waiting"
      BY <2>1, <2>3 DEF Woken
    <2> QED BY <2>2, <2>3
  <1> QED BY <1>1, <1>2

(* One field of one call changes: the shape of every step of PauseRun.      *)
LEMMA CallPhaseTyped ==
    ASSUME TypeOK, NEW c \in Calls, NEW p \in Phases,
           GoTo(c, p)
    PROVE  /\ call' \in [Calls -> CallState]
           /\ \A x \in Calls : call'[x].at = call[x].at
           /\ call'[c].phase = p
           /\ \A x \in Calls : x # c => call'[x].phase = call[x].phase
  <1>1. call \in [Calls -> CallState]
    BY DEF TypeOK
  <1>2. call[c] \in CallState /\ [call[c] EXCEPT !.phase = p] \in CallState
    BY <1>1 DEF CallState
  <1> QED BY <1>1, <1>2 DEF CallState, GoTo

(* SetEngine turns every engine pointer a call has read into an old one.    *)
LEMMA StaleCallsTyped ==
    ASSUME TypeOK, call' = [c \in Calls |-> [call[c] EXCEPT !.fresh = FALSE]]
    PROVE  /\ call' \in [Calls -> CallState]
           /\ \A x \in Calls : call'[x].at = call[x].at /\ call'[x].phase = call[x].phase
  <1>1. call \in [Calls -> CallState]
    BY DEF TypeOK
  <1> QED BY <1>1 DEF CallState

-----------------------------------------------------------------------------
(* Type correctness.                                                        *)
LEMMA TypeInit == Init => TypeOK
  <1> SUFFICES ASSUME Init PROVE TypeOK
    OBVIOUS
  <1>1. call \in [Calls -> CallState]
    BY DEF Init, CallState, Phases
  <1> QED
    BY <1>1, PauseControlAssumption DEF Init, TypeOK, PCs, Nodes

(* Every step preserves the types.                                          *)
LEMMA TypeNext == TypeOK /\ [Next]_vars => TypeOK'
  <1> SUFFICES ASSUME TypeOK, [Next]_vars PROVE TypeOK'
    OBVIOUS
  <1>a. ASSUME CloseChannel(TRUE) \/ CloseChannel(outcome = "paused")
        PROVE  latch' \in BOOLEAN /\ call' \in [Calls -> CallState]
    BY <1>a, CloseChannelWakes
  <1>b. ASSUME NEW c \in Calls, NEW p \in Phases, GoTo(c, p)
        PROVE  call' \in [Calls -> CallState]
    BY <1>b, CallPhaseTyped
  <1>c. ASSUME call' = [c \in Calls |-> [call[c] EXCEPT !.fresh = FALSE]]
        PROVE  call' \in [Calls -> CallState]
    BY <1>c, StaleCallsTyped
  <1> USE DEF TypeOK, PCs, LoopPC, PausePC, DrainPC, engineVars, busVars, diskVars
  <1>1. CASE StartLoop BY <1>1 DEF StartLoop
  <1>2. CASE InitFails BY <1>2 DEF InitFails
  <1>3. CASE Top BY <1>3 DEF Top
  <1>4. CASE EvalStep
    <2>1. current' \in Nodes
      BY <1>4, PauseControlAssumption DEF EvalStep, Nodes
    <2> QED BY <1>4, <2>1 DEF EvalStep, Nodes
  <1>5. CASE EvalDecided
    <2>1. payload.dec \in Decisions
      BY <1>5 DEF EvalDecided, Decision
    <2>2. current' \in Nodes
      BY <1>5, <2>1, PauseControlAssumption DEF EvalDecided
    <2> QED BY <1>5, <2>2 DEF EvalDecided
  <1>6. CASE EvalPauses BY <1>6 DEF EvalPauses
  <1>7. CASE EvalCompletes BY <1>7 DEF EvalCompletes
  <1>8. CASE EvalFails
    <2>1. unsaved' \in BOOLEAN /\ resumeReq' \in BOOLEAN /\ stopped' \in BOOLEAN
      BY <1>8 DEF EvalFails
    <2>2. live' \in BOOLEAN /\ latch' \in BOOLEAN
      BY <1>8 DEF EvalFails
    <2> QED BY <1>8, <2>1, <2>2 DEF EvalFails, Nodes
  <1>9. CASE LandBoundary BY <1>9 DEF LandBoundary
  <1>10. CASE DrainPendingResumes
    <2>1. unsaved' \in BOOLEAN /\ resumeReq' \in BOOLEAN /\ stopped' \in BOOLEAN
      BY <1>10 DEF DrainPendingResumes
    <2>2. live' \in BOOLEAN /\ latch' \in BOOLEAN
      BY <1>10 DEF DrainPendingResumes
    <2> QED BY <1>10, <2>1, <2>2 DEF DrainPendingResumes
  <1>11. CASE RecordPause BY <1>11 DEF RecordPause
  <1>12. CASE PersistPause
    <2>1. unsaved' \in BOOLEAN /\ resumeReq' \in BOOLEAN /\ stopped' \in BOOLEAN
      BY <1>12 DEF PersistPause
    <2>2. live' \in BOOLEAN /\ latch' \in BOOLEAN
      BY <1>12 DEF PersistPause
    <2> QED BY <1>12, <2>1, <2>2 DEF PersistPause
  <1>13. CASE AckPauseRequested
    BY <1>13, <1>a DEF AckPauseRequested
  <1>14. CASE ClearPauseRequest
    BY <1>14, <1>a DEF ClearPauseRequest
  <1>15. CASE DrainCheck BY <1>15 DEF DrainCheck
  <1>16. CASE AwaitBoundaryRelease
    <2>1. resumeReq' \in BOOLEAN /\ pc' = "clear"
      BY <1>16 DEF AwaitBoundaryRelease
    <2> QED BY <1>16, <2>1 DEF AwaitBoundaryRelease
  <1>17. CASE AwaitDecision BY <1>17 DEF AwaitDecision
  <1>18. CASE ResumerDecides BY <1>18 DEF ResumerDecides, Decision
  <1>19. CASE AwaitAborted BY <1>19 DEF AwaitAborted
  <1>20. CASE ClearPaused BY <1>20 DEF ClearPaused
  <1>21. CASE SetEngine
    <2>1. unsaved' \in BOOLEAN /\ resumeReq' \in BOOLEAN /\ stopped' \in BOOLEAN
      BY <1>21 DEF SetEngine
    <2>2. live' \in BOOLEAN /\ latch' \in BOOLEAN
      BY <1>21 DEF SetEngine
    <2> QED BY <1>21, <2>1, <2>2, <1>c DEF SetEngine
  <1>22. CASE \E c \in Calls : PauseRun(c)
    <2>1. PICK c \in Calls : PauseRun(c)
      BY <1>22
    <2>2. CASE PauseRead(c)
      <3>1. call \in [Calls -> CallState] /\ call[c] \in CallState
        OBVIOUS
      <3>2. call' \in [Calls -> CallState]
        BY <2>2, <3>1 DEF PauseRead, CallState, Phases
      <3> QED BY <2>2, <3>2 DEF PauseRead
    <2>3. CASE PauseCheck(c)
      BY <2>3, <1>b DEF PauseCheck, Phases, Answers
    <2>4. CASE RequestPause(c)
      <3>1. latch' \in BOOLEAN
        BY <2>4 DEF RequestPause
      <3>2. call' \in [Calls -> CallState]
        BY <2>4, <1>b DEF RequestPause, Phases, Answers
      <3> QED BY <2>4, <3>1, <3>2 DEF RequestPause
    <2>5. CASE PauseAnswer(c)
      BY <2>5, <1>b DEF PauseAnswer, Phases, Answers
    <2>6. CASE PauseTimeout(c)
      BY <2>6, <1>b DEF PauseTimeout, Phases, Answers
    <2> QED BY <2>1, <2>2, <2>3, <2>4, <2>5, <2>6 DEF PauseRun
  <1>23. CASE ResumeRun BY <1>23 DEF ResumeRun
  <1>24. CASE \E d \in Decisions : ResolveResume(d)
    BY <1>24 DEF ResolveResume, Decision
  <1>25. CASE Stop BY <1>25 DEF Stop
  <1>26. CASE Finished \/ UNCHANGED vars
    BY <1>26 DEF Finished, vars
  <1> QED
    BY <1>1, <1>2, <1>3, <1>4, <1>5, <1>6, <1>7, <1>8, <1>9, <1>10, <1>11, <1>12,
       <1>13, <1>14, <1>15, <1>16, <1>17, <1>18, <1>19, <1>20, <1>21, <1>22, <1>23,
       <1>24, <1>25, <1>26 DEF Next, RunGoroutine

(* Every reachable state of the pause protocol is well-typed.               *)
THEOREM TypeCorrect == Spec => []TypeOK
  BY TypeInit, TypeNext, PTL DEF Spec

-----------------------------------------------------------------------------
(* The inductive invariant.                                                 *)
LEMMA IInvInit == Init => IInv
  <1> SUFFICES ASSUME Init PROVE IInv
    OBVIOUS
  <1>1. TypeOK
    BY TypeInit
  <1> QED
    BY <1>1 DEF Init, IInv, TrackerInv, MailboxInv, PayloadInv, WaiterInv, WakeInv, LoopPC, PausePC

(* The tracker changes when a pause is recorded and when it is released;    *)
(* the checkpoint when a step starts and when a pause is persisted.         *)
LEMMA TrackerNext == IInv /\ [Next]_vars => TrackerInv'
  <1> SUFFICES ASSUME IInv, [Next]_vars PROVE TrackerInv'
    OBVIOUS
  <1>0. TypeOK /\ TrackerInv
    BY DEF IInv
  <1> USE <1>0, PauseControlAssumption DEF TypeOK, TrackerInv, LoopPC, engineVars, busVars, diskVars
  <1>1. CASE StartLoop \/ InitFails \/ Top
    BY <1>1 DEF StartLoop, InitFails, Top
  <1>2. CASE EvalStep \/ EvalDecided \/ EvalPauses \/ EvalCompletes \/ EvalFails
    BY <1>2 DEF EvalStep, EvalDecided, EvalPauses, EvalCompletes, EvalFails
  <1>3. CASE LandBoundary \/ DrainPendingResumes
    BY <1>3 DEF LandBoundary, DrainPendingResumes
  <1>4. CASE RecordPause
    <2>1. pausedNode' = current /\ current # None
      BY <1>4 DEF RecordPause
    <2> QED BY <1>4, <2>1 DEF RecordPause
  <1>5. CASE PersistPause
    BY <1>5 DEF PersistPause
  <1>6. CASE AckPauseRequested \/ ClearPauseRequest
    BY <1>6 DEF AckPauseRequested, ClearPauseRequest
  <1>7. CASE DrainCheck \/ AwaitBoundaryRelease \/ AwaitDecision \/ ResumerDecides \/ AwaitAborted
    BY <1>7 DEF DrainCheck, AwaitBoundaryRelease, AwaitDecision, ResumerDecides, AwaitAborted
  <1>8. CASE ClearPaused \/ SetEngine
    BY <1>8 DEF ClearPaused, SetEngine
  <1>9. CASE (\E c \in Calls : PauseRun(c)) \/ ResumeRun \/ (\E d \in Decisions : ResolveResume(d))
             \/ Stop \/ Finished \/ UNCHANGED vars
    <2>1. UNCHANGED <<pc, current, pausedNode, ckpt, unsaved>>
      BY <1>9 DEF PauseRun, PauseRead, PauseCheck, RequestPause, PauseAnswer, PauseTimeout,
                  ResumeRun, ResolveResume, Stop, Finished, vars
    <2> QED BY <2>1
  <1> QED
    BY <1>1, <1>2, <1>3, <1>4, <1>5, <1>6, <1>7, <1>8, <1>9 DEF Next, RunGoroutine

(* The mailbox is empty when the pause number grows, and what is parked     *)
(* afterwards carries the new number.                                       *)
LEMMA MailboxNext == IInv /\ [Next]_vars => MailboxInv'
  <1> SUFFICES ASSUME IInv, [Next]_vars PROVE MailboxInv'
    OBVIOUS
  <1>0. TypeOK /\ TrackerInv /\ MailboxInv
    BY DEF IInv
  <1> USE <1>0 DEF MailboxInv, engineVars, busVars
  <1>1. CASE StartLoop \/ InitFails \/ Top
    BY <1>1 DEF StartLoop, InitFails, Top
  <1>2. CASE EvalStep \/ EvalDecided \/ EvalPauses \/ EvalCompletes \/ EvalFails
    BY <1>2 DEF EvalStep, EvalDecided, EvalPauses, EvalCompletes, EvalFails
  <1>3. CASE LandBoundary \/ DrainPendingResumes
    BY <1>3 DEF LandBoundary, DrainPendingResumes
  <1>4. CASE RecordPause
    BY <1>4 DEF RecordPause
  <1>5. CASE PersistPause \/ AckPauseRequested \/ ClearPauseRequest
    BY <1>5 DEF PersistPause, AckPauseRequested, ClearPauseRequest
  <1>6. CASE DrainCheck \/ AwaitBoundaryRelease \/ AwaitDecision \/ ResumerDecides \/ AwaitAborted
    BY <1>6 DEF DrainCheck, AwaitBoundaryRelease, AwaitDecision, ResumerDecides, AwaitAborted
  <1>7. CASE ClearPaused \/ SetEngine
    BY <1>7 DEF ClearPaused, SetEngine
  <1>8. CASE (\E c \in Calls : PauseRun(c)) \/ ResumeRun \/ Stop \/ Finished \/ UNCHANGED vars
    <2>1. UNCHANGED <<pc, pausedNode, payloadReq, cycle>>
      BY <1>8 DEF PauseRun, PauseRead, PauseCheck, RequestPause, PauseAnswer, PauseTimeout,
                  ResumeRun, Stop, Finished, vars
    <2> QED BY <2>1
  <1>9. CASE \E d \in Decisions : ResolveResume(d)
    <2>1. PICK d \in Decisions : ResolveResume(d)
      BY <1>9
    <2>2. pc # "record"
      BY <2>1, PauseControlAssumption DEF ResolveResume, TrackerInv, Nodes
    <2> QED BY <2>1, <2>2 DEF ResolveResume
  <1> QED
    BY <1>1, <1>2, <1>3, <1>4, <1>5, <1>6, <1>7, <1>8, <1>9 DEF Next, RunGoroutine

(* The decision in hand comes out of the mailbox while the run is paused at *)
(* its gate, and the gate is the first node the next engine evaluates.      *)
LEMMA PayloadNext == IInv /\ [Next]_vars => PayloadInv'
  <1> SUFFICES ASSUME IInv, [Next]_vars PROVE PayloadInv'
    OBVIOUS
  <1>0. TypeOK /\ TrackerInv /\ MailboxInv /\ PayloadInv
    BY DEF IInv
  <1> USE <1>0 DEF PayloadInv, engineVars, busVars
  <1>1. CASE StartLoop \/ InitFails \/ Top
    BY <1>1 DEF StartLoop, InitFails, Top
  <1>2. CASE EvalStep
    <2>1. payload = None
      BY <1>2, PauseControlAssumption DEF EvalStep, TypeOK, Decision
    <2> QED BY <1>2, <2>1 DEF EvalStep
  <1>3. CASE EvalDecided \/ EvalPauses \/ EvalCompletes \/ EvalFails
    BY <1>3 DEF EvalDecided, EvalPauses, EvalCompletes, EvalFails
  <1>4. CASE LandBoundary \/ DrainPendingResumes \/ RecordPause \/ PersistPause
    BY <1>4 DEF LandBoundary, DrainPendingResumes, RecordPause, PersistPause
  <1>5. CASE AckPauseRequested \/ ClearPauseRequest
    BY <1>5 DEF AckPauseRequested, ClearPauseRequest
  <1>6. CASE DrainCheck \/ AwaitBoundaryRelease \/ AwaitAborted
    BY <1>6 DEF DrainCheck, AwaitBoundaryRelease, AwaitAborted
  <1>7. CASE AwaitDecision
    BY <1>7, PauseControlAssumption DEF AwaitDecision, MailboxInv, TrackerInv, Nodes
  <1>8. CASE ResumerDecides
    BY <1>8, PauseControlAssumption DEF ResumerDecides, TrackerInv, Nodes
  <1>9. CASE ClearPaused \/ SetEngine
    BY <1>9 DEF ClearPaused, SetEngine
  <1>10. CASE (\E c \in Calls : PauseRun(c)) \/ ResumeRun \/ (\E d \in Decisions : ResolveResume(d))
              \/ Stop \/ Finished \/ UNCHANGED vars
    <2>1. UNCHANGED <<pc, current, payload, cycle>>
      BY <1>10 DEF PauseRun, PauseRead, PauseCheck, RequestPause, PauseAnswer, PauseTimeout,
                   ResumeRun, ResolveResume, Stop, Finished, vars
    <2> QED BY <2>1
  <1> QED
    BY <1>1, <1>2, <1>3, <1>4, <1>5, <1>6, <1>7, <1>8, <1>9, <1>10 DEF Next, RunGoroutine

(* A call starts to wait only at a live loop, and leaving the loop wakes it.*)
LEMMA WaiterNext == IInv /\ [Next]_vars => WaiterInv'
  <1> SUFFICES ASSUME IInv, [Next]_vars PROVE WaiterInv'
    OBVIOUS
  <1>0. TypeOK /\ WaiterInv
    BY DEF IInv
  <1>a. ASSUME CloseChannel(TRUE) \/ CloseChannel(outcome = "paused")
        PROVE  \A c \in Calls : call'[c].phase # "waiting"
    BY <1>0, <1>a, CloseChannelWakes
  <1>b. current' # Missing => current # Missing
    BY <1>0, PauseControlAssumption
       DEF TypeOK, Next, RunGoroutine, StartLoop, InitFails, Top, EvalStep, EvalDecided,
           EvalPauses, EvalCompletes, EvalFails, LandBoundary, DrainPendingResumes,
           RecordPause, PersistPause, AckPauseRequested, ClearPauseRequest, DrainCheck,
           AwaitBoundaryRelease, AwaitDecision, ResumerDecides, AwaitAborted, ClearPaused,
           SetEngine, PauseRun, PauseRead, PauseCheck, RequestPause, PauseAnswer,
           PauseTimeout, ResumeRun, ResolveResume, Stop, Finished, vars, engineVars,
           busVars, Nodes
  <1>c. SUFFICES ASSUME current' # Missing, current # Missing
                 PROVE  /\ live' => pc' \in LoopPC
                        /\ \A c \in Calls : call'[c].phase = "waiting" =>
                              pc' \in LoopPC \cup PausePC \cup {"exit"}
    BY <1>b DEF WaiterInv
  <1> USE <1>0 DEF WaiterInv, LoopPC, PausePC, engineVars, busVars
  <1>1. CASE StartLoop \/ InitFails \/ Top
    BY <1>1, <1>c DEF StartLoop, InitFails, Top
  <1>2. CASE EvalStep \/ EvalDecided \/ EvalPauses \/ EvalCompletes \/ EvalFails
    BY <1>2, <1>c DEF EvalStep, EvalDecided, EvalPauses, EvalCompletes, EvalFails
  <1>3. CASE LandBoundary \/ DrainPendingResumes \/ RecordPause \/ PersistPause
    BY <1>3, <1>c DEF LandBoundary, DrainPendingResumes, RecordPause, PersistPause
  <1>4. CASE AckPauseRequested \/ ClearPauseRequest
    <2>1. \A c \in Calls : call'[c].phase # "waiting"
      BY <1>4, <1>a DEF AckPauseRequested, ClearPauseRequest
    <2>2. live' = live /\ pc \in {"ack", "exit"}
      BY <1>4 DEF AckPauseRequested, ClearPauseRequest
    <2> QED BY <1>c, <2>1, <2>2
  <1>5. CASE DrainCheck \/ AwaitBoundaryRelease \/ AwaitDecision \/ ResumerDecides
             \/ AwaitAborted \/ ClearPaused
    BY <1>5, <1>c DEF DrainCheck, AwaitBoundaryRelease, AwaitDecision, ResumerDecides,
                      AwaitAborted, ClearPaused
  <1>6. CASE SetEngine
    <2>1. \A x \in Calls : call'[x].phase = call[x].phase
      BY <1>6, StaleCallsTyped DEF SetEngine
    <2> QED BY <1>6, <1>c, <2>1 DEF SetEngine
  <1>7. CASE \E c \in Calls : PauseRun(c)
    <2>1. PICK c \in Calls : PauseRun(c)
      BY <1>7
    <2>2. ASSUME NEW p \in Phases, GoTo(c, p)
          PROVE  call'[c].phase = p /\ \A x \in Calls : x # c => call'[x].phase = call[x].phase
      BY <2>2, CallPhaseTyped
    <2>3. CASE PauseRead(c)
      <3>1. call'[c].phase = "read" /\ \A x \in Calls : x # c => call'[x].phase = call[x].phase
        BY <2>3 DEF PauseRead, TypeOK, CallState
      <3> QED BY <2>3, <3>1, <1>c DEF PauseRead
    <2>4. CASE PauseCheck(c)
      BY <2>2, <2>4, <1>c DEF PauseCheck, Phases, Answers
    <2>5. CASE RequestPause(c)
      <3>1. UNCHANGED <<pc, live>>
        BY <2>5 DEF RequestPause
      <3>2. CASE call[c].fresh /\ live
        BY <3>1, <3>2, <1>c
      <3>3. CASE ~(call[c].fresh /\ live)
        BY <2>2, <2>5, <3>1, <3>3, <1>c DEF RequestPause, Phases, Answers
      <3> QED BY <3>2, <3>3
    <2>6. CASE PauseAnswer(c)
      BY <2>2, <2>6, <1>c DEF PauseAnswer, Phases, Answers
    <2>7. CASE PauseTimeout(c)
      BY <2>2, <2>7, <1>c DEF PauseTimeout, Phases, Answers
    <2> QED BY <2>1, <2>3, <2>4, <2>5, <2>6, <2>7 DEF PauseRun
  <1>8. CASE ResumeRun \/ (\E d \in Decisions : ResolveResume(d)) \/ Stop \/ Finished \/ UNCHANGED vars
    BY <1>8, <1>c DEF ResumeRun, ResolveResume, Stop, Finished, vars
  <1> QED
    BY <1>1, <1>2, <1>3, <1>4, <1>5, <1>6, <1>7, <1>8 DEF Next, RunGoroutine

(* The number a woken call carries is that of the pause that stands, and    *)
(* recording a new pause leaves it behind.                                  *)
LEMMA WakeNext == IInv /\ [Next]_vars => WakeInv'
  <1> SUFFICES ASSUME IInv, [Next]_vars PROVE WakeInv'
    OBVIOUS
  <1>0. TypeOK /\ WakeInv
    BY DEF IInv
  <1>t. cycle \in Nat /\ \A c \in Calls : call[c].at \in Nat
    BY <1>0 DEF TypeOK, CallState
  <1>a. ASSUME CloseChannel(TRUE) \/ CloseChannel(outcome = "paused")
        PROVE  \A c \in Calls : call'[c].at = call[c].at \/ call'[c].at = cycle
    BY <1>0, <1>a, CloseChannelWakes
  <1>1. CASE RecordPause
    <2>1. cycle' = cycle + 1 /\ call' = call
      BY <1>1 DEF RecordPause
    <2> QED BY <1>0, <1>t, <2>1 DEF WakeInv
  <1>2. CASE AckPauseRequested \/ ClearPauseRequest
    <2>1. cycle' = cycle /\ pc' # "persist"
      BY <1>2 DEF AckPauseRequested, ClearPauseRequest
    <2>2. \A c \in Calls : call'[c].at = call[c].at \/ call'[c].at = cycle
      BY <1>2, <1>a DEF AckPauseRequested, ClearPauseRequest
    <2> QED BY <1>0, <1>t, <2>1, <2>2 DEF WakeInv
  <1>3. CASE SetEngine
    <2>1. \A x \in Calls : call'[x].at = call[x].at
      BY <1>0, <1>3, StaleCallsTyped DEF SetEngine
    <2> QED BY <1>0, <1>3, <2>1 DEF WakeInv, SetEngine
  <1>4. CASE \E c \in Calls : PauseRun(c)
    <2>1. PICK c \in Calls : PauseRun(c)
      BY <1>4
    <2>2. ASSUME NEW p \in Phases, GoTo(c, p)
          PROVE  \A x \in Calls : call'[x].at = call[x].at
      BY <1>0, <2>2, CallPhaseTyped
    <2>3. ASSUME PauseRead(c)
          PROVE  \A x \in Calls : call'[x].at = call[x].at
      BY <1>0, <2>3 DEF PauseRead, TypeOK, CallState
    <2>4. \A x \in Calls : call'[x].at = call[x].at
      BY <2>1, <2>2, <2>3 DEF PauseRun, PauseCheck, RequestPause, PauseAnswer, PauseTimeout,
                              Phases, Answers
    <2>5. UNCHANGED <<pc, cycle>>
      BY <2>1 DEF PauseRun, PauseRead, PauseCheck, RequestPause, PauseAnswer, PauseTimeout
    <2> QED BY <1>0, <2>4, <2>5 DEF WakeInv
  <1>5. CASE \/ StartLoop \/ InitFails \/ Top \/ EvalStep \/ EvalDecided \/ EvalPauses
             \/ EvalCompletes \/ EvalFails \/ LandBoundary \/ DrainPendingResumes
             \/ PersistPause \/ DrainCheck \/ AwaitBoundaryRelease \/ AwaitDecision
             \/ ResumerDecides \/ AwaitAborted \/ ClearPaused \/ ResumeRun
             \/ (\E d \in Decisions : ResolveResume(d)) \/ Stop \/ Finished \/ UNCHANGED vars
    <2>1. UNCHANGED <<call, cycle>> /\ (pc' = "persist" => pc = "persist")
      BY <1>5 DEF StartLoop, InitFails, Top, EvalStep, EvalDecided, EvalPauses, EvalCompletes,
           EvalFails, LandBoundary, DrainPendingResumes, PersistPause, DrainCheck,
           AwaitBoundaryRelease, AwaitDecision, ResumerDecides, AwaitAborted, ClearPaused,
           ResumeRun, ResolveResume, Stop, Finished, vars
    <2> QED BY <1>0, <2>1 DEF WakeInv
  <1> QED
    BY <1>1, <1>2, <1>3, <1>4, <1>5 DEF Next, RunGoroutine

(* The strengthening of the three safety properties holds in every state.   *)
THEOREM Invariance == Spec => []IInv
  <1>1. IInv /\ [Next]_vars => IInv'
    <2> SUFFICES ASSUME IInv, [Next]_vars PROVE IInv'
      OBVIOUS
    <2>1. TypeOK'
      BY TypeNext DEF IInv
    <2> QED
      BY <2>1, TrackerNext, MailboxNext, PayloadNext, WaiterNext, WakeNext DEF IInv
  <1> QED
    BY IInvInit, <1>1, PTL DEF Spec

-----------------------------------------------------------------------------
(* A decision reaches a gate only in the pause it was accepted for.         *)
THEOREM DecisionsAreFresh == Spec => []NoStaleDecision
  <1>1. IInv => NoStaleDecision
    BY PauseControlAssumption DEF IInv, TypeOK, PayloadInv, NoStaleDecision, Decision
  <1> QED
    BY Invariance, <1>1, PTL

(* Leaving a run loop leaves no PauseRun call waiting on it.                *)
THEOREM WaitersAreWoken == Spec => []NoOrphanedWaiter
  <1>1. IInv => NoOrphanedWaiter
    BY DEF IInv, WaiterInv, NoOrphanedWaiter, LoopPC, PausePC, DrainPC
  <1> QED
    BY Invariance, <1>1, PTL

(* The step checkpoint of an acknowledged pause is on disk.                 *)
THEOREM AcksAreDurable == Spec => []AckedPauseIsDurable
  <1>1. IInv => AckedPauseIsDurable
    <2> SUFFICES ASSUME IInv, NEW c \in Calls, call[c].at = cycle,
                        pausedNode # None, pc # "over", ~unsaved
                 PROVE  ckpt = pausedNode
      BY DEF AckedPauseIsDurable
    <2>1. pc # "persist"
      BY DEF IInv, TypeOK, WakeInv
    <2> QED
      BY <2>1 DEF IInv, TypeOK, TrackerInv, PCs, LoopPC, PausePC, DrainPC
  <1> QED
    BY Invariance, <1>1, PTL
=============================================================================
