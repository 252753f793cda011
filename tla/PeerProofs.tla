----------------------------- MODULE PeerProofs -----------------------------
(***************************************************************************)
(* Proofs about ChildRuns and, in the second part, about PeerLink: the two *)
(* modules about what runs at a peer and what its host knows of it.        *)
(*                                                                         *)
(* ChildRuns, for any number of sessions, child runs and faults.  The      *)
(* child is proved first, by itself: the slot names the one                *)
(* live run, a terminal arm in the journal is the verdict of a run that is *)
(* done, and a CloseSession waits for the run of its session.  The host    *)
(* then follows: what its tracker says without having forced it is what    *)
(* the child said, and a teardown that watches a settled run is about to   *)
(* be woken.                                                               *)
(* A host step depends on the child only through Keeps: done runs stay as  *)
(* they are, and the journal grows.                                        *)
(***************************************************************************)
EXTENDS ChildRuns, PeerLink, FiniteSetTheorems, SequenceTheorems, TLAPS

Phases   == {"none", "building", "running", "ended", "done", "gone"}
Verdicts == {"success", "failure", "cancelled"}
Numbers  == 0..MaxRuns
Owners   == Sessions \cup {NoSession}

RunType  == [phase : Phases, owner : Owners, canceled : BOOLEAN,
             out : Verdicts \cup {"none"}, stream : BOOLEAN]
ArmType  == [kind : {"started", "terminal", "partial"}, run : Runs,
             out : Verdicts \cup {"none", ""}]
RecType  == [known : BOOLEAN, out : Verdicts \cup {"none", "", "force_killed"},
             forced : BOOLEAN]
StepType == [state : {"idle", "executing", "refused"}, sess : Owners, run : Numbers]
TearType == [state : {"idle", "cancelling", "cancelled", "settling", "killing", "closing"},
             run : Numbers]

ChildShape ==
  /\ slot \in Numbers /\ made \in Numbers
  /\ run \in [Runs -> RunType]
  /\ closing \in [Sessions -> SUBSET Numbers]
  /\ partial \subseteq Runs
  /\ journal \in Seq(ArmType)

HostShape ==
  /\ track \in [Runs -> RecType]
  /\ seq \in Nat /\ seq <= Len(journal)
  /\ noting \in Numbers
  /\ step \in StepType
  /\ tear \in TearType

\* A live run holds the slot, and the runs not yet made are untouched.
SlotInv ==
  \A r \in Runs : /\ Live(r) => slot = r
                  /\ run[r].phase # "none" => r <= made

\* An engine that has ended has its verdict, and a terminal arm is the verdict
\* of a run that is done.
VerdictInv ==
  \A r \in Runs : run[r].phase \in {"ended", "done"} => run[r].out \in Verdicts

Final(i, r) == journal[i].kind = "terminal" /\ journal[i].run = r

JournalInv ==
  \A i \in 1..Len(journal), r \in Runs :
    Final(i, r) => run[r].phase = "done" /\ journal[i].out = run[r].out

\* What the tracker says of a run, if the host did not force it, is what the
\* child said; the terminal arms read so far have been taken over.
TrackInv ==
  \A r \in Runs :
    /\ track[r].out # "" => track[r].known
    /\ track[r].out # "" /\ ~track[r].forced =>
         run[r].phase = "done" /\ track[r].out = run[r].out
    /\ (\E i \in 1..seq : Final(i, r)) => track[r].out # "" /\ ~track[r].forced

\* A teardown knows of a run only where arms and handles have one name, and one
\* that watches a run that the tracker shows as settled is about to be woken.
WatchInv ==
  /\ tear.run # 0 => ArmLabel = dial
  /\ tear.state = "settling" =>
       tear.run # 0 /\ (track[tear.run].out = "" \/ noting = tear.run)

\* A CloseSession under way waits for the live run of its session, unless that
\* session has been opened again.
CloseInv ==
  \A s \in Sessions, r \in Runs :
    closing[s] # {} /\ Live(r) /\ run[r].owner = s => r \in closing[s] \/ s \in sessions

ChildInv == ChildShape /\ SlotInv /\ VerdictInv /\ JournalInv /\ CloseInv
HostInv  == HostShape /\ TrackInv /\ WatchInv
IInv     == ChildInv /\ HostInv

-----------------------------------------------------------------------------
(* The child.                                                              *)

\* What the invariants read of a run stays as it is.
SameRuns ==
  /\ run' \in [Runs -> RunType]
  /\ \A r \in Runs : /\ run'[r].phase = run[r].phase
                     /\ run'[r].owner = run[r].owner
                     /\ run'[r].out = run[r].out

\* Run numbers: 0 is no run, every other number up to MaxRuns is one.
LEMMA ConstFacts ==
  /\ MaxRuns \in Nat
  /\ Runs \subseteq Numbers /\ 0 \notin Runs /\ 0 \in Numbers
  /\ \A n \in Numbers : n \in Nat /\ (n # 0 => n \in Runs)
BY ChildRunsAssumption DEF Runs, Numbers

\* A child that has just started: no run, no arm, nothing closing.
LEMMA ChildInit == ASSUME Init PROVE ChildInv
<1>1. slot \in Numbers /\ made \in Numbers
  BY ConstFacts DEF Init
<1>2. run \in [Runs -> RunType]
  <2>1. NoRun \in RunType
    BY DEF NoRun, RunType, Phases, Owners
  <2> QED
    BY <2>1 DEF Init
<1>3. closing \in [Sessions -> SUBSET Numbers]
  BY DEF Init
<1>4. partial \subseteq Runs /\ journal \in Seq(ArmType) /\ Len(journal) = 0
  BY DEF Init
<1>5. \A r \in Runs : run[r].phase = "none"
  BY DEF Init, NoRun
<1>6. SlotInv /\ VerdictInv /\ CloseInv
  BY <1>5 DEF Init, SlotInv, VerdictInv, CloseInv, Live
<1>7. JournalInv
  BY <1>4 DEF JournalInv
<1> QED
  BY <1>1, <1>2, <1>3, <1>4, <1>6, <1>7 DEF ChildInv, ChildShape

\* Requests and streams are no part of the invariant.
LEMMA CanceledSame ==
  ASSUME ChildShape, NEW q
  PROVE  /\ Canceled(q) \in [Runs -> RunType]
         /\ \A r \in Runs : /\ Canceled(q)[r].phase = run[r].phase
                            /\ Canceled(q)[r].owner = run[r].owner
                            /\ Canceled(q)[r].out = run[r].out
<1> DEFINE C(r) == \/ run[r].canceled
                   \/ r = Matched(q) /\ run[r].phase \in {"building", "running"}
           N(r) == [run[r] EXCEPT !.canceled = C(r)]
<1>1. ASSUME NEW r \in Runs
      PROVE  /\ N(r) \in RunType
             /\ N(r).phase = run[r].phase
             /\ N(r).owner = run[r].owner
             /\ N(r).out = run[r].out
  <2>1. run[r] \in RunType
    BY DEF ChildShape
  <2>2. C(r) \in BOOLEAN
    BY <2>1 DEF RunType
  <2> HIDE DEF C
  <2> QED
    BY <2>1, <2>2 DEF RunType
<1>2. Canceled(q) = [r \in Runs |-> N(r)]
  BY DEF Canceled
<1> HIDE DEF N
<1> QED
  BY <1>1, <1>2

Dropped(f) == [r \in Runs |-> [f[r] EXCEPT !.stream = FALSE]]

\* A stream that dies changes nothing else of its run.
LEMMA DroppedSame ==
  ASSUME NEW f \in [Runs -> RunType]
  PROVE  /\ Dropped(f) \in [Runs -> RunType]
         /\ \A r \in Runs : /\ Dropped(f)[r].phase = f[r].phase
                            /\ Dropped(f)[r].owner = f[r].owner
                            /\ Dropped(f)[r].out = f[r].out
<1>1. ASSUME NEW r \in Runs
      PROVE  /\ [f[r] EXCEPT !.stream = FALSE] \in RunType
             /\ [f[r] EXCEPT !.stream = FALSE].phase = f[r].phase
             /\ [f[r] EXCEPT !.stream = FALSE].owner = f[r].owner
             /\ [f[r] EXCEPT !.stream = FALSE].out = f[r].out
  <2>1. f[r] \in RunType
    OBVIOUS
  <2> QED
    BY <2>1 DEF RunType
<1> QED
  BY <1>1 DEF Dropped

\* CancelChildRun finds a run or 0.
LEMMA MatchedType == ASSUME ChildShape, NEW q PROVE Matched(q) \in Numbers
BY ConstFacts DEF ChildShape, Matched

\* A kill adds at most the run of the slot to the arms it owes.
LEMMA ArmPartialType == ASSUME ChildShape, ArmPartial PROVE partial' \subseteq Runs
BY MatchedType, ConstFacts DEF ChildShape, ArmPartial

\* Steps that leave the runs alone.
LEMMA ChildCalm ==
  ASSUME ChildInv, SameRuns, slot' = slot, made' = made, journal' = journal,
         closing' = closing, partial' \subseteq Runs, sessions \subseteq sessions'
  PROVE  ChildInv'
<1>1. ChildShape'
  BY DEF ChildInv, ChildShape, SameRuns
<1>2. SlotInv' /\ VerdictInv'
  BY DEF ChildInv, SlotInv, VerdictInv, SameRuns, Live
<1>3. JournalInv'
  BY DEF ChildInv, JournalInv, Final, SameRuns
<1>4. CloseInv'
  BY DEF ChildInv, CloseInv, SameRuns, Live
<1> QED
  BY <1>1, <1>2, <1>3, <1>4 DEF ChildInv

\* No run is touched.
LEMMA RunsUnchanged == ASSUME ChildInv, run' = run PROVE SameRuns
BY DEF ChildInv, ChildShape, SameRuns

\* The journal after an arm.
LEMMA ArmFacts ==
  ASSUME ChildShape, NEW e \in ArmType, journal' = Append(journal, e)
  PROVE  /\ journal' \in Seq(ArmType)
         /\ Len(journal') = Len(journal) + 1 /\ Len(journal) \in Nat
         /\ \A i \in 1..Len(journal) : journal'[i] = journal[i]
         /\ journal'[Len(journal) + 1] = e
         /\ \A i \in 1..Len(journal') : i \in 1..Len(journal) \/ i = Len(journal) + 1
<1>1. journal \in Seq(ArmType)
  BY DEF ChildShape
<1>2. Len(journal) \in Nat
  BY <1>1, LenProperties
<1>3. /\ journal' \in Seq(ArmType)
      /\ Len(journal') = Len(journal) + 1
      /\ \A i \in 1..Len(journal) : journal'[i] = journal[i]
      /\ journal'[Len(journal) + 1] = e
  BY <1>1, AppendProperties
<1>4. \A i \in 1..Len(journal') : i \in 1..Len(journal) \/ i = Len(journal) + 1
  BY <1>2, <1>3
<1> QED
  BY <1>2, <1>3, <1>4

\* The fields of a run after an update of one run.
LEMMA RunUpdate ==
  ASSUME ChildShape, NEW r \in Runs, NEW v \in RunType, run' = [run EXCEPT ![r] = v]
  PROVE  /\ run' \in [Runs -> RunType]
         /\ run'[r] = v
         /\ \A q \in Runs : q # r => run'[q] = run[q]
BY DEF ChildShape

\* One run moves on, and its new phase is no new life.
LEMMA MoveOn ==
  ASSUME ChildInv, NEW r \in Runs, NEW v \in RunType, run' = [run EXCEPT ![r] = v],
         v.owner = run[r].owner,
         run[r].phase # "none", run[r].phase # "done",
         v.phase \in {"building", "running", "ended"} => Live(r),
         v.phase \in {"ended", "done"} => v.out \in Verdicts,
         slot' = slot \/ (slot = r /\ ~Live(r)'),
         slot' \in Numbers, made' = made, closing' = closing, partial' = partial,
         sessions' = sessions, journal' \in Seq(ArmType),
         journal' = journal \/ \E e \in ArmType :
           /\ journal' = Append(journal, e)
           /\ e.kind = "terminal" => e.run = r /\ v.phase = "done" /\ e.out = v.out
  PROVE  ChildInv'
<1>0. ChildShape
  BY DEF ChildInv
<1>1. /\ run' \in [Runs -> RunType]
      /\ run'[r] = v
      /\ \A q \in Runs : q # r => run'[q] = run[q]
  BY <1>0, RunUpdate
<1>2. ChildShape'
  BY <1>0, <1>1 DEF ChildShape
<1>3. SlotInv'
  <2> SUFFICES ASSUME NEW q \in Runs
               PROVE  /\ Live(q)' => slot' = q
                      /\ run'[q].phase # "none" => q <= made'
    BY DEF SlotInv
  <2>1. /\ Live(q) => slot = q
        /\ run[q].phase # "none" => q <= made
    BY DEF ChildInv, SlotInv
  <2>2. CASE q = r
    BY <1>1, <2>1, <2>2 DEF Live
  <2>3. CASE q # r
    <3>1. run'[q] = run[q]
      BY <1>1, <2>3
    <3>2. Live(q)' => slot = q /\ slot # r
      BY <2>1, <2>3, <3>1 DEF Live
    <3> QED
      BY <2>1, <3>1, <3>2
  <2> QED
    BY <2>2, <2>3
<1>4. VerdictInv'
  BY <1>1 DEF ChildInv, VerdictInv
<1>5. CloseInv'
  BY <1>1 DEF ChildInv, CloseInv, Live
<1>6. JournalInv'
  <2>1. ASSUME NEW i \in 1..Len(journal), NEW q \in Runs, Final(i, q)
        PROVE  run'[q].phase = "done" /\ journal[i].out = run'[q].out
    <3>1. run[q].phase = "done" /\ journal[i].out = run[q].out
      BY <2>1 DEF ChildInv, JournalInv
    <3> QED
      BY <1>1, <3>1
  <2>2. CASE journal' = journal
    BY <2>1, <2>2 DEF JournalInv, Final
  <2>3. CASE journal' # journal
    <3>1. PICK e \in ArmType :
            /\ journal' = Append(journal, e)
            /\ e.kind = "terminal" => e.run = r /\ v.phase = "done" /\ e.out = v.out
      BY <2>3
    <3>2. /\ \A i \in 1..Len(journal) : journal'[i] = journal[i]
          /\ journal'[Len(journal) + 1] = e
          /\ \A i \in 1..Len(journal') : i \in 1..Len(journal) \/ i = Len(journal) + 1
      BY <1>0, <3>1, ArmFacts
    <3> SUFFICES ASSUME NEW i \in 1..Len(journal'), NEW q \in Runs, Final(i, q)'
                 PROVE  run'[q].phase = "done" /\ journal'[i].out = run'[q].out
      BY DEF JournalInv
    <3>3. CASE i \in 1..Len(journal)
      BY <2>1, <3>2, <3>3 DEF Final
    <3>4. CASE i = Len(journal) + 1
      BY <1>1, <3>1, <3>2, <3>4 DEF Final
    <3> QED
      BY <3>2, <3>3, <3>4
  <2> QED
    BY <2>2, <2>3
<1> QED
  BY <1>2, <1>3, <1>4, <1>5, <1>6 DEF ChildInv

\* A build that fails: the run is gone, and the slot is free if it held it.
LEMMA ChildBuildFails ==
  ASSUME ChildInv, NEW r \in Runs, BuildFails(r) PROVE ChildInv'
<1> DEFINE v == [run[r] EXCEPT !.phase = "gone"]
<1>1. run[r] \in RunType /\ slot \in Numbers /\ journal \in Seq(ArmType)
  BY DEF ChildInv, ChildShape
<1>2. v \in RunType /\ v.owner = run[r].owner /\ v.phase = "gone"
  BY <1>1 DEF RunType, Phases
<1>3. run' = [run EXCEPT ![r] = v] /\ run[r].phase = "building"
  BY DEF BuildFails
<1>4. slot' = (IF slot = r THEN 0 ELSE slot) /\ slot' \in Numbers
  BY <1>1, ConstFacts DEF BuildFails, ClearRun
<1> HIDE DEF v
<1>5. ~Live(r)'
  <2>1. run'[r] = v
    BY <1>2, <1>3, RunUpdate DEF ChildInv
  <2> QED
    BY <1>2, <2>1 DEF Live
<1>6. /\ made' = made /\ closing' = closing /\ partial' = partial
      /\ sessions' = sessions /\ journal' = journal
  BY DEF BuildFails
<1> QED
  BY <1>1, <1>2, <1>3, <1>4, <1>5, <1>6, MoveOn

\* A run starts: it was live already, and its arm is no verdict.
LEMMA ChildArmStart ==
  ASSUME ChildInv, NEW r \in Runs, ArmChildRunStart(r) PROVE ChildInv'
<1> DEFINE v == [run[r] EXCEPT !.phase = "running"]
           e == Arm("started", r, "")
<1>1. run[r] \in RunType /\ slot \in Numbers /\ journal \in Seq(ArmType)
  BY DEF ChildInv, ChildShape
<1>2. v \in RunType /\ v.owner = run[r].owner /\ v.phase = "running"
  BY <1>1 DEF RunType, Phases
<1>3. run' = [run EXCEPT ![r] = v] /\ run[r].phase = "building"
  BY DEF ArmChildRunStart
<1>4. e \in ArmType /\ e.kind = "started"
  BY DEF Arm, ArmType
<1>5. journal' = Append(journal, e)
  BY DEF ArmChildRunStart
<1> HIDE DEF v, e
<1>6. journal' \in Seq(ArmType)
  BY <1>4, <1>5, ArmFacts DEF ChildInv
<1>7. Live(r)
  BY <1>3 DEF Live
<1>8. /\ made' = made /\ closing' = closing /\ partial' = partial
      /\ sessions' = sessions /\ slot' = slot
  BY DEF ArmChildRunStart
<1>9. \E a \in ArmType :
        /\ journal' = Append(journal, a)
        /\ a.kind = "terminal" => a.run = r /\ v.phase = "done" /\ a.out = v.out
  BY <1>4, <1>5
<1> QED
  BY <1>1, <1>2, <1>3, <1>6, <1>7, <1>8, <1>9, MoveOn

\* The engine returns and the verdict is stamped.
LEMMA ChildEngineEnds ==
  ASSUME ChildInv, NEW r \in Runs, EngineEnds(r) PROVE ChildInv'
<1>0. PICK o \in Ends :
        run' = [run EXCEPT ![r].phase = "ended", ![r].canceled = FALSE,
                 ![r].out = IF o = "failure" /\ run[r].canceled THEN "cancelled" ELSE o]
  BY DEF EngineEnds
<1> DEFINE w == IF o = "failure" /\ run[r].canceled THEN "cancelled" ELSE o
           v == [run[r] EXCEPT !.phase = "ended", !.canceled = FALSE, !.out = w]
<1>1. run[r] \in RunType /\ slot \in Numbers /\ journal \in Seq(ArmType)
  BY DEF ChildInv, ChildShape
<1>2. w \in Verdicts
  BY ChildRunsAssumption DEF Verdicts
<1>3. run' = [run EXCEPT ![r] = v] /\ run[r].phase = "running"
  <2>1. run' = [run EXCEPT ![r] = v]
    BY <1>0 DEF ChildInv, ChildShape
  <2> QED
    BY <2>1 DEF EngineEnds
<1> HIDE DEF w
<1>4. v \in RunType /\ v.owner = run[r].owner /\ v.phase = "ended" /\ v.out = w
  BY <1>1, <1>2 DEF RunType, Phases
<1> HIDE DEF v
<1>5. Live(r)
  BY <1>3 DEF Live
<1>6. /\ made' = made /\ closing' = closing /\ partial' = partial
      /\ sessions' = sessions /\ slot' = slot /\ journal' = journal
  BY DEF EngineEnds
<1> QED
  BY <1>1, <1>2, <1>3, <1>4, <1>5, <1>6, MoveOn

\* The verdict is journaled as it was stamped, and the run is done.
LEMMA ChildTerminal ==
  ASSUME ChildInv, NEW r \in Runs, JournalChildRunTerminal(r) PROVE ChildInv'
<1> DEFINE v == [run[r] EXCEPT !.phase = "done"]
           e == Arm("terminal", r, run[r].out)
<1>1. run[r] \in RunType /\ slot \in Numbers /\ journal \in Seq(ArmType)
  BY DEF ChildInv, ChildShape
<1>2. v \in RunType /\ v.owner = run[r].owner /\ v.phase = "done" /\ v.out = run[r].out
  BY <1>1 DEF RunType, Phases
<1>3. run' = [run EXCEPT ![r] = v] /\ run[r].phase = "ended"
  BY DEF JournalChildRunTerminal
<1>4. run[r].out \in Verdicts
  BY <1>3 DEF ChildInv, VerdictInv
<1>5. e \in ArmType /\ e.run = r /\ e.out = run[r].out
  BY <1>4 DEF Arm, ArmType
<1>6. journal' = Append(journal, e)
  BY DEF JournalChildRunTerminal
<1> HIDE DEF v, e
<1>7. journal' \in Seq(ArmType)
  BY <1>5, <1>6, ArmFacts DEF ChildInv
<1>8. /\ made' = made /\ closing' = closing /\ partial' = partial
      /\ sessions' = sessions /\ slot' = slot
  BY DEF JournalChildRunTerminal
<1>9. \E a \in ArmType :
        /\ journal' = Append(journal, a)
        /\ a.kind = "terminal" => a.run = r /\ v.phase = "done" /\ a.out = v.out
  BY <1>2, <1>5, <1>6
<1> QED
  BY <1>1, <1>2, <1>3, <1>4, <1>7, <1>8, <1>9, MoveOn

\* Execute gives the slot back: the run it belonged to is done.
LEMMA ChildPumpReturns ==
  ASSUME ChildInv, NEW r \in Runs, PumpReturns(r) PROVE ChildInv'
<1>1. /\ run' = run /\ made' = made /\ closing' = closing /\ partial' = partial
      /\ sessions' = sessions /\ journal' = journal
      /\ run[r].phase = "done" /\ slot = r /\ slot' = 0
  BY DEF PumpReturns, ClearRun
<1>2. ChildShape'
  BY <1>1, ConstFacts DEF ChildInv, ChildShape
<1>3. \A q \in Runs : ~Live(q)
  BY <1>1 DEF ChildInv, SlotInv, Live
<1>4. SlotInv' /\ VerdictInv' /\ CloseInv'
  BY <1>1, <1>3 DEF ChildInv, SlotInv, VerdictInv, CloseInv, Live
<1>5. JournalInv'
  BY <1>1 DEF ChildInv, JournalInv, Final
<1> QED
  BY <1>2, <1>4, <1>5 DEF ChildInv

\* The run that is created is the only live one, and its number is new.
LEMMA ChildOpenRun ==
  ASSUME ChildInv, NEW s \in Sessions, OpenChildRun(s) PROVE ChildInv'
<1>0. closing' = closing /\ partial' = partial /\ journal' = journal
  BY DEF OpenChildRun
<1>1. CASE slot # 0
  <2>1. sessions' = sessions /\ slot' = slot /\ run' = run /\ made' = made
    BY <1>1 DEF OpenChildRun
  <2> QED
    BY <1>0, <2>1, RunsUnchanged, ChildCalm DEF ChildInv, ChildShape
<1>2. CASE slot = 0
  <2> DEFINE n == made + 1
             v == [NoRun EXCEPT !.phase = "building", !.owner = s, !.stream = Attached(s)]
  <2>1. /\ made < MaxRuns /\ made' = n /\ slot' = n
        /\ run' = [run EXCEPT ![n] = v]
        /\ sessions' = sessions \cup {s}
    BY <1>2 DEF OpenChildRun
  <2>2. n \in Runs /\ n \in Numbers /\ n # made /\ made < n /\ made \in Nat /\ n \in Nat
    BY <2>1, ConstFacts DEF ChildInv, ChildShape, Numbers, Runs
  <2>3. v \in RunType /\ v.phase = "building" /\ v.owner = s
    BY DEF NoRun, RunType, Phases, Owners, Attached
  <2> HIDE DEF v
  <2>4. /\ run' \in [Runs -> RunType]
        /\ run'[n] = v
        /\ \A q \in Runs : q # n => run'[q] = run[q]
    BY <2>1, <2>2, <2>3, RunUpdate DEF ChildInv
  <2>5. ChildShape'
    BY <1>0, <2>1, <2>2, <2>4 DEF ChildInv, ChildShape
  <2>6. \A q \in Runs : q \in Nat /\ ~Live(q) /\ (run[q].phase # "none" => q <= made)
    BY <1>2, ConstFacts DEF ChildInv, SlotInv
  <2>7. run[n].phase = "none"
    <3>1. ~(n <= made)
      BY <2>2
    <3> QED
      BY <2>2, <2>6, <3>1
  <2>8. \A q \in Runs : q <= made => q <= n
    BY <2>2, <2>6
  <2>9. n <= n
    BY <2>2
  <2> HIDE DEF n
  <2>10. SlotInv'
    BY <2>1, <2>4, <2>6, <2>8, <2>9 DEF SlotInv, Live
  <2>11. VerdictInv'
    BY <2>3, <2>4 DEF ChildInv, VerdictInv
  <2>12. JournalInv'
    BY <1>0, <2>4, <2>7 DEF ChildInv, JournalInv, Final
  <2>13. CloseInv'
    BY <1>0, <2>1, <2>3, <2>4, <2>6 DEF CloseInv, Live
  <2> QED
    BY <2>5, <2>10, <2>11, <2>12, <2>13 DEF ChildInv
<1> QED
  BY <1>1, <1>2

\* The arm of a partial teardown is no verdict.
LEMMA ChildPartialArm ==
  ASSUME ChildInv, NEW r \in Runs, JournalChildRunTeardownPartial(r) PROVE ChildInv'
<1> DEFINE e == Arm("partial", r, "")
<1>1. e \in ArmType /\ e.kind = "partial"
  BY DEF Arm, ArmType
<1>2. /\ journal' = Append(journal, e) /\ partial' = partial \ {r}
      /\ sessions' = sessions /\ slot' = slot /\ run' = run /\ made' = made
      /\ closing' = closing
  BY DEF JournalChildRunTeardownPartial
<1> HIDE DEF e
<1>3. /\ journal' \in Seq(ArmType)
      /\ \A i \in 1..Len(journal) : journal'[i] = journal[i]
      /\ journal'[Len(journal) + 1] = e
      /\ \A i \in 1..Len(journal') : i \in 1..Len(journal) \/ i = Len(journal) + 1
  BY <1>1, <1>2, ArmFacts DEF ChildInv
<1>4. ChildShape' /\ SlotInv' /\ VerdictInv' /\ CloseInv'
  BY <1>2, <1>3 DEF ChildInv, ChildShape, SlotInv, VerdictInv, CloseInv, Live
<1>5. JournalInv'
  <2> SUFFICES ASSUME NEW i \in 1..Len(journal'), NEW q \in Runs, Final(i, q)'
               PROVE  run'[q].phase = "done" /\ journal'[i].out = run'[q].out
    BY DEF JournalInv
  <2>1. i \in 1..Len(journal)
    BY <1>1, <1>3 DEF Final
  <2>2. Final(i, q)
    BY <1>3, <2>1 DEF Final
  <2> QED
    BY <1>2, <1>3, <2>1, <2>2 DEF ChildInv, JournalInv
<1> QED
  BY <1>4, <1>5 DEF ChildInv

\* CloseSession waits for the run in the slot, the only live one.
LEMMA ChildCloseSession ==
  ASSUME ChildInv, NEW s \in Sessions, CloseSession(s) PROVE ChildInv'
<1>1. /\ run' = Canceled(0) /\ sessions' = sessions \ {s}
      /\ closing' = [closing EXCEPT ![s] = {slot}]
      /\ slot' = slot /\ made' = made /\ partial' = partial /\ journal' = journal
  BY DEF CloseSession, Cancel
<1>2. SameRuns
  BY <1>1, CanceledSame DEF ChildInv, SameRuns
<1>3. ChildShape'
  BY <1>1, <1>2 DEF ChildInv, ChildShape, SameRuns
<1>4. SlotInv' /\ VerdictInv'
  BY <1>1, <1>2 DEF ChildInv, SlotInv, VerdictInv, SameRuns, Live
<1>5. JournalInv'
  BY <1>1, <1>2 DEF ChildInv, JournalInv, Final, SameRuns
<1>6. CloseInv'
  <2> SUFFICES ASSUME NEW t \in Sessions, NEW r \in Runs,
                      closing'[t] # {}, Live(r)', run'[r].owner = t
               PROVE  r \in closing'[t] \/ t \in sessions'
    BY DEF CloseInv
  <2>1. Live(r) /\ run[r].owner = t
    BY <1>2 DEF SameRuns, Live
  <2>2. slot = r
    BY <2>1 DEF ChildInv, SlotInv
  <2>3. CASE t = s
    BY <1>1, <2>2, <2>3 DEF ChildInv, ChildShape
  <2>4. CASE t # s
    BY <1>1, <2>1, <2>4 DEF ChildInv, ChildShape, CloseInv
  <2> QED
    BY <2>3, <2>4
<1> QED
  BY <1>3, <1>4, <1>5, <1>6 DEF ChildInv

\* A CloseSession that returns has nothing to wait for any more.
LEMMA ChildCloseEnds ==
  ASSUME ChildInv, NEW s \in Sessions, closing' = [closing EXCEPT ![s] = {}],
         UNCHANGED <<sessions, slot, run, made, partial, journal>>
  PROVE  ChildInv'
<1>1. ChildShape' /\ SlotInv' /\ VerdictInv'
  BY DEF ChildInv, ChildShape, SlotInv, VerdictInv, Live
<1>2. JournalInv'
  BY DEF ChildInv, JournalInv, Final
<1>3. CloseInv'
  BY DEF ChildInv, ChildShape, CloseInv, Live
<1> QED
  BY <1>1, <1>2, <1>3 DEF ChildInv

\* What the host and the network do to the child leaves its runs alone.
LEMMA ChildCalmSteps ==
  ASSUME ChildInv,
         \/ \E s \in Sessions : OpenSession(s) \/ OpenSessionRefused(s) \/ Execute(s)
         \/ ApplyArm \/ NoteChildRunTerminal
         \/ ExecuteRefused \/ StepCanceled
         \/ TeardownBegins \/ TeardownCancels \/ WaitChildRunSettle
         \/ ForceKillInFlightChildRun \/ MarkForceKilled
         \/ CloseWorkflowHandle \/ ConnectionLost \/ Redial
  PROVE  /\ SameRuns /\ journal' = journal /\ slot' = slot
         /\ ChildInv'
<1>0. ChildShape /\ partial \subseteq Runs
  BY DEF ChildInv, ChildShape
<1>1. /\ slot' = slot /\ made' = made /\ journal' = journal /\ closing' = closing
      /\ sessions \subseteq sessions'
  BY DEF OpenSession, OpenSessionRefused, Execute, ApplyArm, NoteChildRunTerminal,
         ExecuteRefused, StepCanceled, TeardownBegins, TeardownCancels,
         WaitChildRunSettle, ForceKillInFlightChildRun, MarkForceKilled,
         CloseWorkflowHandle, ConnectionLost, Redial, childVars
<1>2. partial' = partial \/ ArmPartial
  BY DEF OpenSession, OpenSessionRefused, Execute, ApplyArm, NoteChildRunTerminal,
         ExecuteRefused, StepCanceled, TeardownBegins, TeardownCancels,
         WaitChildRunSettle, ForceKillInFlightChildRun, MarkForceKilled,
         CloseWorkflowHandle, ConnectionLost, Redial, childVars, Kill
<1>3. partial' \subseteq Runs
  BY <1>0, <1>2, ArmPartialType
<1>4. \/ run' = run \/ (\E q : run' = Canceled(q))
      \/ run' = [r \in Runs |-> [run[r] EXCEPT !.stream = FALSE]]
      \/ run' = [r \in Runs |-> [Canceled(0)[r] EXCEPT !.stream = FALSE]]
  BY DEF OpenSession, OpenSessionRefused, Execute, ApplyArm, NoteChildRunTerminal,
         ExecuteRefused, StepCanceled, TeardownBegins, TeardownCancels,
         WaitChildRunSettle, ForceKillInFlightChildRun, MarkForceKilled,
         CloseWorkflowHandle, ConnectionLost, Redial, childVars, Kill,
         Cancel, DropStreams
<1>5. SameRuns
  <2>1. CASE run' = run
    BY <2>1, RunsUnchanged
  <2>2. CASE \E q : run' = Canceled(q)
    BY <1>0, <2>2, CanceledSame DEF SameRuns
  <2>3. CASE run' = [r \in Runs |-> [run[r] EXCEPT !.stream = FALSE]]
    <3>1. run \in [Runs -> RunType]
      BY <1>0 DEF ChildShape
    <3>2. run' = Dropped(run)
      BY <2>3 DEF Dropped
    <3> QED
      BY <3>1, <3>2, DroppedSame DEF SameRuns
  <2>4. CASE run' = [r \in Runs |-> [Canceled(0)[r] EXCEPT !.stream = FALSE]]
    <3> DEFINE c == Canceled(0)
    <3>1. /\ c \in [Runs -> RunType]
          /\ \A r \in Runs : /\ c[r].phase = run[r].phase
                             /\ c[r].owner = run[r].owner
                             /\ c[r].out = run[r].out
      BY <1>0, CanceledSame
    <3>2. run' = Dropped(c)
      BY <2>4 DEF Dropped
    <3> HIDE DEF c
    <3> QED
      BY <3>1, <3>2, DroppedSame DEF SameRuns
  <2> QED
    BY <1>4, <2>1, <2>2, <2>3, <2>4
<1> QED
  BY <1>1, <1>3, <1>5, ChildCalm

-----------------------------------------------------------------------------
(* The host.                                                               *)

\* A run that is done stays as it is, and the journal only grows.
Keeps ==
  /\ \A r \in Runs : run[r].phase = "done" =>
       run'[r].phase = "done" /\ run'[r].out = run[r].out
  /\ Len(journal) <= Len(journal')
  /\ \A i \in 1..Len(journal) : journal'[i] = journal[i]

\* The length of the journal is a number.
LEMMA JournalLen == ASSUME ChildShape PROVE Len(journal) \in Nat
BY LenProperties DEF ChildShape

\* A step that leaves the runs and the journal alone keeps what the host relies on.
LEMMA CalmKeeps == ASSUME ChildInv, SameRuns, journal' = journal PROVE Keeps
<1>1. Len(journal) \in Nat
  BY JournalLen DEF ChildInv
<1> QED
  BY <1>1 DEF SameRuns, Keeps

\* So does an arm: the entries before it stay.
LEMMA ArmKeeps ==
  ASSUME ChildInv, NEW e \in ArmType, journal' = Append(journal, e)
  PROVE  /\ Len(journal) <= Len(journal')
         /\ \A i \in 1..Len(journal) : journal'[i] = journal[i]
<1>1. /\ Len(journal') = Len(journal) + 1 /\ Len(journal) \in Nat
      /\ \A i \in 1..Len(journal) : journal'[i] = journal[i]
  BY ArmFacts DEF ChildInv
<1> QED
  BY <1>1

\* Every step of the child leaves the runs that are done as they are, and the
\* journal as a prefix of the new one.
LEMMA ChildKeeps ==
  ASSUME ChildInv,
         \/ \E s \in Sessions : OpenChildRun(s) \/ CloseSession(s) \/ CloseSessionEnds(s)
                                  \/ CloseSessionTimesOut(s)
         \/ \E r \in Runs :
              \/ BuildFails(r) \/ ArmChildRunStart(r) \/ EngineEnds(r)
              \/ JournalChildRunTerminal(r) \/ PumpReturns(r)
              \/ JournalChildRunTeardownPartial(r)
  PROVE  Keeps
<1>0. ChildShape /\ run \in [Runs -> RunType] /\ Len(journal) \in Nat
  BY JournalLen DEF ChildInv, ChildShape
<1>1. ASSUME NEW s \in Sessions, OpenChildRun(s) PROVE Keeps
  <2>1. CASE slot # 0
    <3>1. run' = run /\ journal' = journal
      BY <1>1, <2>1 DEF OpenChildRun
    <3> QED
      BY <1>0, <3>1 DEF Keeps
  <2>2. CASE slot = 0
    <3> DEFINE n == made + 1
    <3>1. /\ made < MaxRuns /\ journal' = journal
          /\ \E v : run' = [run EXCEPT ![n] = v]
      BY <1>1, <2>2 DEF OpenChildRun
    <3>2. n \in Runs /\ ~(n <= made)
      BY <3>1, ConstFacts DEF ChildInv, ChildShape, Numbers, Runs
    <3> HIDE DEF n
    <3>3. run[n].phase = "none"
      BY <3>2 DEF ChildInv, SlotInv
    <3> QED
      BY <1>0, <3>1, <3>2, <3>3 DEF Keeps
  <2> QED
    BY <2>1, <2>2
<1>2. ASSUME NEW s \in Sessions, CloseSession(s) PROVE Keeps
  <2>1. run' = Canceled(0) /\ journal' = journal
    BY <1>2 DEF CloseSession, Cancel
  <2>2. SameRuns
    BY <1>0, <2>1, CanceledSame DEF SameRuns
  <2> QED
    BY <2>1, <2>2, CalmKeeps
<1>3. ASSUME NEW s \in Sessions, CloseSessionEnds(s) \/ CloseSessionTimesOut(s) PROVE Keeps
  BY <1>0, <1>3 DEF CloseSessionEnds, CloseSessionTimesOut, Keeps
<1>4. ASSUME NEW r \in Runs, BuildFails(r) \/ EngineEnds(r) PROVE Keeps
  <2>1. /\ journal' = journal /\ run[r].phase # "done"
        /\ \A q \in Runs : q # r => run'[q] = run[q]
    BY <1>0, <1>4 DEF BuildFails, EngineEnds
  <2> QED
    BY <1>0, <2>1 DEF Keeps
<1>5. ASSUME NEW r \in Runs, PumpReturns(r) PROVE Keeps
  BY <1>0, <1>5 DEF PumpReturns, Keeps
<1>6. ASSUME NEW r \in Runs, ArmChildRunStart(r) PROVE Keeps
  <2>1. Arm("started", r, "") \in ArmType
    BY DEF Arm, ArmType
  <2>2. /\ journal' = Append(journal, Arm("started", r, "")) /\ run[r].phase # "done"
        /\ \A q \in Runs : q # r => run'[q] = run[q]
    BY <1>0, <1>6 DEF ArmChildRunStart
  <2> QED
    BY <2>1, <2>2, ArmKeeps DEF Keeps
<1>7. ASSUME NEW r \in Runs, JournalChildRunTerminal(r) PROVE Keeps
  <2>1. Arm("terminal", r, run[r].out) \in ArmType
    <3>1. run[r].out \in Verdicts
      BY <1>7 DEF JournalChildRunTerminal, ChildInv, VerdictInv
    <3> QED
      BY <3>1 DEF Arm, ArmType
  <2>2. /\ journal' = Append(journal, Arm("terminal", r, run[r].out))
        /\ run[r].phase # "done"
        /\ \A q \in Runs : q # r => run'[q] = run[q]
    BY <1>0, <1>7 DEF JournalChildRunTerminal
  <2> QED
    BY <2>1, <2>2, ArmKeeps DEF Keeps
<1>8. ASSUME NEW r \in Runs, JournalChildRunTeardownPartial(r) PROVE Keeps
  <2>1. Arm("partial", r, "") \in ArmType
    BY DEF Arm, ArmType
  <2>2. journal' = Append(journal, Arm("partial", r, "")) /\ run' = run
    BY <1>8 DEF JournalChildRunTeardownPartial
  <2> QED
    BY <2>1, <2>2, ArmKeeps DEF Keeps
<1> QED
  BY <1>1, <1>2, <1>3, <1>4, <1>5, <1>6, <1>7, <1>8

\* The tracker stays true while the child moves on.
LEMMA TrackKept ==
  ASSUME ChildInv, ChildInv', HostInv, Keeps, track' = track, seq' = seq
  PROVE  TrackInv' /\ seq' <= Len(journal')
<1>0. seq \in Nat /\ seq <= Len(journal) /\ Len(journal) \in Nat
  BY JournalLen DEF ChildInv, HostInv, HostShape
<1>1. \A i \in 1..seq : i \in 1..Len(journal)
  BY <1>0
<1>2. \A i \in 1..seq, r \in Runs : Final(i, r)' => Final(i, r)
  BY <1>1 DEF Keeps, Final
<1>3. TrackInv'
  <2> SUFFICES ASSUME NEW r \in Runs
               PROVE  /\ track[r].out # "" => track[r].known
                      /\ track[r].out # "" /\ ~track[r].forced =>
                           run'[r].phase = "done" /\ track[r].out = run'[r].out
                      /\ (\E i \in 1..seq : Final(i, r)') =>
                           track[r].out # "" /\ ~track[r].forced
    BY DEF TrackInv
  <2> QED
    BY <1>2 DEF HostInv, TrackInv, Keeps
<1>4. seq' <= Len(journal')
  <2>1. \A a, b \in Nat : seq <= a /\ a <= b => seq <= b
    BY <1>0
  <2> SUFFICES Len(journal') \in Nat
    BY <1>0, <2>1 DEF Keeps
  <2> QED
    BY LenProperties DEF ChildInv, ChildShape
<1> QED
  BY <1>3, <1>4

\* Steps that wake nobody and register no watch.
LEMMA HostQuiet ==
  ASSUME ChildInv, ChildInv', HostInv, Keeps, dial' = dial,
         track' = track, seq' = seq, noting' = noting,
         step' \in StepType, tear' \in TearType,
         \/ tear' = tear
         \/ tear'.state # "settling" /\ (tear'.run # 0 => ArmLabel = dial)
  PROVE  HostInv'
<1>1. TrackInv' /\ HostShape'
  BY TrackKept DEF HostInv, HostShape
<1>2. WatchInv'
  BY DEF HostInv, WatchInv
<1> QED
  BY <1>1, <1>2 DEF HostInv

\* What a step may become.
LEMMA StepFacts ==
  /\ Idle \in StepType
  /\ \A s \in Owners : Refused(s) \in StepType
BY ConstFacts DEF Idle, Refused, StepType, Owners

\* The host while the child moves: a step of the host is at most answered or
\* refused.
LEMMA HostChildSteps ==
  ASSUME ChildInv, ChildInv', HostInv,
         \/ \E s \in Sessions : OpenChildRun(s) \/ CloseSession(s) \/ CloseSessionEnds(s)
                                  \/ CloseSessionTimesOut(s)
         \/ \E r \in Runs :
              \/ BuildFails(r) \/ ArmChildRunStart(r) \/ EngineEnds(r)
              \/ JournalChildRunTerminal(r) \/ PumpReturns(r)
              \/ JournalChildRunTeardownPartial(r)
  PROVE  HostInv'
<1>0. Keeps
  BY ChildKeeps
<1>1. /\ track' = track /\ seq' = seq /\ noting' = noting /\ tear' = tear
      /\ dial' = dial
  BY DEF OpenChildRun, CloseSession, CloseSessionEnds, CloseSessionTimesOut, BuildFails,
         ArmChildRunStart, EngineEnds, JournalChildRunTerminal, PumpReturns,
         JournalChildRunTeardownPartial, hostVars
<1>2. step \in StepType /\ tear \in TearType /\ step.sess \in Owners
  BY DEF HostInv, HostShape, StepType
<1>3. step' \in StepType
  <2>1. CASE \/ \E s \in Sessions : CloseSession(s) \/ CloseSessionEnds(s)
                                      \/ CloseSessionTimesOut(s)
             \/ \E r \in Runs : \/ ArmChildRunStart(r) \/ EngineEnds(r)
                                \/ JournalChildRunTerminal(r)
                                \/ JournalChildRunTeardownPartial(r)
    <3>1. step' = step
      BY <2>1 DEF CloseSession, CloseSessionEnds, CloseSessionTimesOut, ArmChildRunStart,
             EngineEnds, JournalChildRunTerminal, JournalChildRunTeardownPartial, hostVars
    <3> QED
      BY <1>2, <3>1
  <2>2. ASSUME NEW r \in Runs, BuildFails(r) \/ PumpReturns(r) PROVE step' \in StepType
    <3>1. step' \in {Idle, Refused(step.sess), step}
      BY <2>2 DEF BuildFails, PumpReturns, Answer
    <3> QED
      BY <1>2, <3>1, StepFacts
  <2>3. ASSUME NEW s \in Sessions, OpenChildRun(s) PROVE step' \in StepType
    <3>1. step' \in {Refused(s), step} \/ step' = [step EXCEPT !.run = made']
      <4>1. CASE slot # 0
        BY <2>3, <4>1 DEF OpenChildRun
      <4>2. CASE slot = 0
        BY <2>3, <4>2 DEF OpenChildRun
      <4> QED
        BY <4>1, <4>2
    <3>2. made' \in Numbers /\ s \in Owners
      BY DEF ChildInv, ChildShape, Owners
    <3>3. [step EXCEPT !.run = made'] \in StepType
      BY <1>2, <3>2 DEF StepType
    <3> QED
      BY <1>2, <3>1, <3>2, <3>3, StepFacts
  <2> QED
    BY <2>1, <2>2, <2>3
<1> QED
  BY <1>0, <1>1, <1>2, <1>3, HostQuiet

\* The moves of a teardown.
LEMMA TearFacts ==
  ASSUME NEW st \in {"idle", "cancelling", "cancelled", "settling", "killing", "closing"},
         NEW q \in Numbers, TearTo(st, q)
  PROVE  tear' \in TearType /\ tear'.state = st /\ tear'.run = q
BY DEF TearTo, TearType

\* The run in a teardown's hands is one of its own name's journal.
LEMMA TearName == ASSUME HostInv PROVE tear.run # 0 => ArmLabel = dial
BY DEF HostInv, WatchInv

\* Calls of the host that register no watch.
LEMMA HostQuietSteps ==
  ASSUME ChildInv, HostInv,
         \/ \E s \in Sessions : OpenSession(s) \/ OpenSessionRefused(s) \/ Execute(s)
         \/ ExecuteRefused \/ StepCanceled \/ TeardownBegins \/ TeardownCancels
         \/ ForceKillInFlightChildRun \/ Redial
  PROVE  HostInv'
<1>0. Keeps /\ ChildInv'
  BY ChildCalmSteps, CalmKeeps
<1>1. track' = track /\ seq' = seq /\ noting' = noting /\ dial' = dial
  BY DEF OpenSession, OpenSessionRefused, Execute, ExecuteRefused, StepCanceled,
         TeardownBegins, TeardownCancels, ForceKillInFlightChildRun, Redial
<1>2. step \in StepType /\ tear \in TearType /\ tear.run \in Numbers
  BY DEF HostInv, HostShape, TearType
<1>3. CASE \/ \E s \in Sessions : OpenSession(s) \/ OpenSessionRefused(s)
           \/ Redial
  <2>1. step' = step /\ tear' = tear
    BY <1>3 DEF OpenSession, OpenSessionRefused, Redial
  <2> QED
    BY <1>0, <1>1, <1>2, <2>1, HostQuiet
<1>4. ASSUME NEW s \in Sessions, Execute(s) PROVE HostInv'
  <2>1. tear' = tear
    BY <1>4 DEF Execute
  <2>2. step' = Refused(s) \/ step' = [state |-> "executing", sess |-> s, run |-> 0]
    BY <1>4 DEF Execute
  <2>3. s \in Owners
    BY DEF Owners
  <2>4. [state |-> "executing", sess |-> s, run |-> 0] \in StepType
    BY <2>3, ConstFacts DEF StepType
  <2>5. step' \in StepType
    BY <2>2, <2>3, <2>4, StepFacts
  <2> QED
    BY <1>0, <1>1, <1>2, <2>1, <2>5, HostQuiet
<1>5. CASE ExecuteRefused \/ StepCanceled
  <2>1. step' = Idle /\ tear' = tear
    BY <1>5 DEF ExecuteRefused, StepCanceled
  <2> QED
    BY <1>0, <1>1, <1>2, <2>1, StepFacts, HostQuiet
<1>6. CASE TeardownBegins
  <2>1. step' = step
    BY <1>6 DEF TeardownBegins
  <2>2. PICK q \in Runs \cup {0} : (q # 0 => InFlight(Looked(q))) /\ TearTo("cancelling", q)
    BY <1>6 DEF TeardownBegins
  <2>3. q \in Numbers
    BY <2>2, ConstFacts
  <2>4. tear' \in TearType /\ tear'.state = "cancelling" /\ tear'.run = q
    BY <2>2, <2>3, TearFacts
  <2>5. InFlight(Looked(q)) => ArmLabel = dial
    BY DEF InFlight, Looked, NoRec
  <2> QED
    BY <1>0, <1>1, <1>2, <2>1, <2>2, <2>4, <2>5, HostQuiet
<1>7. CASE TeardownCancels
  <2>1. step' = step
    BY <1>7 DEF TeardownCancels
  <2>2. TearTo("cancelled", tear.run) \/ TearTo("closing", tear.run)
    BY <1>7 DEF TeardownCancels
  <2>3. tear' \in TearType /\ tear'.state \in {"cancelled", "closing"} /\ tear'.run = tear.run
    BY <1>2, <2>2, TearFacts
  <2> QED
    BY <1>0, <1>1, <1>2, <2>1, <2>3, TearName, HostQuiet
<1>8. CASE ForceKillInFlightChildRun
  <2>1. step' = step
    BY <1>8 DEF ForceKillInFlightChildRun
  <2>2. TearTo("killing", tear.run) \/ TearTo("closing", tear.run)
    BY <1>8 DEF ForceKillInFlightChildRun
  <2>3. tear' \in TearType /\ tear'.state \in {"killing", "closing"} /\ tear'.run = tear.run
    BY <1>2, <2>2, TearFacts
  <2> QED
    BY <1>0, <1>1, <1>2, <2>1, <2>3, TearName, HostQuiet
<1> QED
  BY <1>3, <1>4, <1>5, <1>6, <1>7, <1>8

\* A settled record is a verdict: the look at the tracker and the registration of
\* the watch leave no gap.
LEMMA SettledOut ==
  ASSUME HostInv, ArmLabel = dial, NEW r \in Runs, ~Settled(r)
  PROVE  track[r].out = ""
BY DEF HostInv, TrackInv, Settled, Looked

\* waitChildRunSettle: a teardown that starts to wait saw the run unsettled.
LEMMA HostWaitsSettle ==
  ASSUME ChildInv, HostInv, WaitChildRunSettle PROVE HostInv'
<1>0. Keeps /\ ChildInv'
  BY ChildCalmSteps, CalmKeeps
<1>1. /\ track' = track /\ seq' = seq /\ noting' = noting /\ step' = step
      /\ dial' = dial
  BY DEF WaitChildRunSettle
<1>2. step \in StepType /\ tear.run \in Numbers /\ 0 \in Numbers
  BY ConstFacts DEF HostInv, HostShape, TearType
<1>3. \/ TearTo("closing", tear.run) \/ TearTo("closing", 0)
      \/ tear.run # 0 /\ ~Settled(tear.run) /\ TearTo("settling", tear.run)
  BY DEF WaitChildRunSettle
<1>4. CASE TearTo("closing", tear.run) \/ TearTo("closing", 0)
  <2>1. tear' \in TearType /\ tear'.state = "closing" /\ tear'.run \in {0, tear.run}
    BY <1>2, <1>4, TearFacts
  <2> QED
    BY <1>0, <1>1, <1>2, <2>1, TearName, HostQuiet
<1>5. CASE tear.run # 0 /\ ~Settled(tear.run) /\ TearTo("settling", tear.run)
  <2>1. tear' \in TearType /\ tear'.state = "settling" /\ tear'.run = tear.run
    BY <1>2, <1>5, TearFacts
  <2>2. TrackInv' /\ HostShape'
    BY <1>0, <1>1, <2>1, TrackKept DEF HostInv, HostShape
  <2>3. ArmLabel = dial
    BY <1>5, TearName
  <2>4. track[tear.run].out = ""
    BY <1>2, <1>5, <2>3, SettledOut, ConstFacts
  <2>5. WatchInv'
    BY <1>1, <1>5, <2>1, <2>3, <2>4 DEF WatchInv
  <2> QED
    BY <2>2, <2>5 DEF HostInv
<1> QED
  BY <1>3, <1>4, <1>5

\* The supervision loop wakes the teardown that watches the run that has settled.
LEMMA HostNotes ==
  ASSUME ChildInv, HostInv, NoteChildRunTerminal PROVE HostInv'
<1>0. Keeps /\ ChildInv'
  BY ChildCalmSteps, CalmKeeps
<1>1. /\ track' = track /\ seq' = seq /\ noting' = 0 /\ step' = step /\ dial' = dial
      /\ tear' = IF Watched(noting) THEN [tear EXCEPT !.state = "closing"] ELSE tear
  BY DEF NoteChildRunTerminal
<1>2. /\ tear' \in TearType
      /\ \/ tear' = tear /\ ~Watched(noting)
         \/ tear'.state = "closing" /\ tear'.run = tear.run
  BY <1>1 DEF HostInv, HostShape, TearType
<1>3. TrackInv' /\ HostShape'
  BY <1>0, <1>1, <1>2, TrackKept, ConstFacts DEF HostInv, HostShape
<1>4. tear'.run # 0 => ArmLabel = dial'
  BY <1>1, <1>2, TearName
<1>5. ASSUME tear'.state = "settling"
      PROVE  tear'.run # 0 /\ track'[tear'.run].out = ""
  <2>1. tear' = tear /\ ~Watched(noting) /\ tear.state = "settling"
    BY <1>2, <1>5
  <2>2. tear.run # 0 /\ (track[tear.run].out = "" \/ noting = tear.run)
    BY <2>1 DEF HostInv, WatchInv
  <2>3. noting # tear.run
    BY <2>1, <2>2, TearName DEF Watched
  <2> QED
    BY <1>1, <2>1, <2>2, <2>3
<1>6. WatchInv'
  BY <1>4, <1>5 DEF WatchInv
<1> QED
  BY <1>3, <1>6 DEF HostInv

\* A record that is forced: it was in flight.
LEMMA ForceFacts ==
  ASSUME NEW rec \in RecType
  PROVE  /\ ForceKilled(rec) \in RecType
         /\ ~InFlight(rec) => ForceKilled(rec) = rec
         /\ InFlight(rec) => /\ rec.out = "" /\ ForceKilled(rec).known
                             /\ ForceKilled(rec).out = "force_killed"
                             /\ ForceKilled(rec).forced
BY DEF ForceKilled, InFlight, RecType

\* noteChildRunForceKilled: the record was in flight, so no verdict is lost.
LEMMA HostForces ==
  ASSUME ChildInv, HostInv, MarkForceKilled PROVE HostInv'
<1>0. Keeps /\ ChildInv' /\ journal' = journal /\ SameRuns
  BY ChildCalmSteps, CalmKeeps
<1>1. /\ seq' = seq /\ noting' = noting /\ step' = step /\ dial' = dial
      /\ track' = IF tear.run # 0 /\ ArmLabel = dial
                  THEN [track EXCEPT ![tear.run] = ForceKilled(@)] ELSE track
      /\ TearTo("closing", tear.run)
  BY DEF MarkForceKilled
<1>2. step \in StepType /\ tear.run \in Numbers /\ track \in [Runs -> RecType]
  BY DEF HostInv, HostShape, TearType
<1>3. tear' \in TearType /\ tear'.state = "closing" /\ tear'.run = tear.run
  BY <1>1, <1>2, TearFacts
<1>4. CASE track' = track
  BY <1>0, <1>1, <1>2, <1>3, <1>4, TearName, HostQuiet
<1>5. CASE track' # track
  <2> DEFINE q == tear.run
             n == ForceKilled(track[q])
  <2>1. q \in Runs /\ track' = [track EXCEPT ![q] = n]
    BY <1>1, <1>2, <1>5, ConstFacts
  <2>2. track[q] \in RecType
    BY <1>2, <2>1
  <2>3. n # track[q]
    BY <1>2, <1>5, <2>1
  <2>4. /\ n \in RecType /\ track[q].out = "" /\ n.known /\ n.out = "force_killed"
        /\ n.forced
    BY <2>2, <2>3, ForceFacts
  <2> HIDE DEF n, q
  <2>5. /\ track' \in [Runs -> RecType] /\ track'[q] = n
        /\ \A r \in Runs : r # q => track'[r] = track[r]
    BY <1>2, <2>1, <2>4
  <2>6. HostShape'
    BY <1>0, <1>1, <1>2, <1>3, <2>5 DEF HostInv, HostShape
  <2>7. TrackInv'
    <3> SUFFICES ASSUME NEW r \in Runs
                 PROVE  /\ track'[r].out # "" => track'[r].known
                        /\ track'[r].out # "" /\ ~track'[r].forced =>
                             run'[r].phase = "done" /\ track'[r].out = run'[r].out
                        /\ (\E i \in 1..seq : Final(i, r)') =>
                             track'[r].out # "" /\ ~track'[r].forced
      BY <1>1 DEF TrackInv
    <3>1. \A i \in 1..seq : Final(i, r)' => Final(i, r)
      BY <1>0 DEF Final
    <3>2. /\ track[r].out # "" => track[r].known
          /\ track[r].out # "" /\ ~track[r].forced =>
               run[r].phase = "done" /\ track[r].out = run[r].out
          /\ (\E i \in 1..seq : Final(i, r)) => track[r].out # "" /\ ~track[r].forced
      BY DEF HostInv, TrackInv
    <3>3. run'[r].phase = run[r].phase /\ run'[r].out = run[r].out
      BY <1>0 DEF SameRuns
    <3>4. CASE r = q
      BY <2>4, <2>5, <3>1, <3>2, <3>4
    <3>5. CASE r # q
      BY <2>5, <3>1, <3>2, <3>3, <3>5
    <3> QED
      BY <3>4, <3>5
  <2>8. WatchInv'
    BY <1>1, <1>3, TearName DEF WatchInv
  <2> QED
    BY <2>6, <2>7, <2>8 DEF HostInv
<1> QED
  BY <1>4, <1>5

\* applyChildRunArmLocked, arm by arm.
LEMMA AfterArmFacts ==
  ASSUME NEW rec \in RecType, NEW e \in ArmType
  PROVE  /\ AfterArm(rec, e) \in RecType
         /\ e.kind = "started" => /\ AfterArm(rec, e).known
                                  /\ AfterArm(rec, e).out = rec.out
                                  /\ AfterArm(rec, e).forced = rec.forced
         /\ e.kind = "terminal" =>
              IF rec.known /\ rec.out # "" /\ ~rec.forced THEN AfterArm(rec, e) = rec
              ELSE /\ AfterArm(rec, e).known /\ AfterArm(rec, e).out = e.out
                   /\ ~AfterArm(rec, e).forced
         /\ e.kind = "partial" => AfterArm(rec, e) = ForceKilled(rec)
<1>0. e.kind \in {"started", "terminal", "partial"}
  BY DEF ArmType
<1>1. CASE e.kind = "started"
  <2>1. AfterArm(rec, e) = [rec EXCEPT !.known = TRUE]
    BY <1>1 DEF AfterArm
  <2> QED
    BY <1>1, <2>1 DEF RecType
<1>2. CASE e.kind = "terminal"
  <2>1. AfterArm(rec, e) = AfterTerminal(rec, e.out)
    BY <1>2 DEF AfterArm
  <2>2. e.out \in Verdicts \cup {"none", ""}
    BY DEF ArmType
  <2> DEFINE n == [known |-> TRUE, out |-> e.out, forced |-> FALSE]
  <2>3. n \in RecType /\ n.known /\ n.out = e.out /\ ~n.forced
    BY <2>2 DEF RecType
  <2>4. AfterArm(rec, e) = IF rec.known /\ rec.out # "" /\ ~rec.forced THEN rec ELSE n
    BY <2>1 DEF AfterTerminal
  <2> HIDE DEF n
  <2> QED
    BY <1>2, <2>3, <2>4
<1>3. CASE e.kind = "partial"
  <2>1. AfterArm(rec, e) = ForceKilled(rec)
    BY <1>3 DEF AfterArm
  <2> QED
    BY <1>3, <2>1, ForceFacts
<1> QED
  BY <1>0, <1>1, <1>2, <1>3

\* applySupervisionEvent: the record follows the arm, and a run that settles with
\* it is kept to be noted.
LEMMA HostApplies ==
  ASSUME ChildInv, HostInv, ApplyArm PROVE HostInv'
<1>0. ChildInv' /\ journal' = journal /\ SameRuns
  BY ChildCalmSteps
<1> DEFINE k == seq + 1
           e == journal[k]
           q == e.run
           n == AfterArm(track[q], e)
<1>1. /\ noting = 0 /\ seq < Len(journal) /\ seq' = k /\ step' = step /\ tear' = tear
      /\ dial' = dial
      /\ track' = [track EXCEPT ![q] = n]
      /\ noting' = IF n.out # "" /\ track[q].out = "" THEN q ELSE 0
  BY DEF ApplyArm
<1>2. /\ step \in StepType /\ tear \in TearType /\ track \in [Runs -> RecType]
      /\ seq \in Nat /\ Len(journal) \in Nat /\ journal \in Seq(ArmType)
  BY JournalLen DEF HostInv, HostShape, ChildInv, ChildShape
<1>3. /\ k \in 1..Len(journal) /\ k \in Nat /\ k <= Len(journal)
      /\ \A i \in 1..k : i \in 1..seq \/ i = k
  <2>1. seq < Len(journal)
    BY <1>1
  <2> QED
    BY <1>2, <2>1
<1>4. e \in ArmType
  BY <1>2, <1>3, ElementOfSeq
<1>5. q \in Runs
  BY <1>4 DEF ArmType
<1> HIDE DEF k
<1>6. e.kind = "terminal" => run[q].phase = "done" /\ e.out = run[q].out /\ e.out # ""
  <2>1. SUFFICES ASSUME e.kind = "terminal"
                 PROVE  run[q].phase = "done" /\ e.out = run[q].out /\ e.out # ""
    OBVIOUS
  <2>2. Final(k, q)
    BY <2>1 DEF Final
  <2>3. run[q].phase = "done" /\ e.out = run[q].out
    BY <1>3, <1>5, <2>2 DEF ChildInv, JournalInv
  <2>4. run[q].out \in Verdicts
    BY <1>5, <2>3 DEF ChildInv, VerdictInv
  <2> QED
    BY <2>3, <2>4 DEF Verdicts
<1>7. /\ track[q].out # "" => track[q].known
      /\ track[q].out # "" /\ ~track[q].forced =>
           run[q].phase = "done" /\ track[q].out = run[q].out
      /\ (\E i \in 1..seq : Final(i, q)) => track[q].out # "" /\ ~track[q].forced
  BY <1>5 DEF HostInv, TrackInv
<1>8. /\ n \in RecType
      /\ e.kind = "started" => /\ n.known /\ n.out = track[q].out
                               /\ n.forced = track[q].forced
      /\ e.kind = "terminal" =>
           IF track[q].known /\ track[q].out # "" /\ ~track[q].forced THEN n = track[q]
           ELSE n.known /\ n.out = e.out /\ ~n.forced
      /\ e.kind = "partial" => n = ForceKilled(track[q])
  BY <1>2, <1>4, <1>5, AfterArmFacts
<1>9. /\ e.kind = "partial" /\ track[q].out # "" => n = track[q]
      /\ e.kind = "partial" => \/ n = track[q]
                               \/ n.known /\ n.out = "force_killed" /\ n.forced
  BY <1>2, <1>5, <1>8, ForceFacts DEF InFlight
<1>10. e.kind \in {"started", "terminal", "partial"}
  BY <1>4 DEF ArmType
<1>11. Final(k, q) => e.kind = "terminal"
  BY DEF Final
<1>12. \A r \in Runs : Final(k, r) => r = q
  BY DEF Final
<1> HIDE DEF n, q, e
\* The new record.
<1>13. /\ n.out # "" => n.known
       /\ n.out # "" /\ ~n.forced => run[q].phase = "done" /\ n.out = run[q].out
       /\ track[q].out # "" => n.out # ""
       /\ track[q].out # "" /\ ~track[q].forced => n.out # "" /\ ~n.forced
       /\ e.kind = "terminal" => n.out # "" /\ ~n.forced
  BY <1>6, <1>7, <1>8, <1>9, <1>10
<1>14. /\ track' \in [Runs -> RecType] /\ track'[q] = n
       /\ \A r \in Runs : r # q => track'[r] = track[r]
  BY <1>1, <1>2, <1>5, <1>8
<1>15. HostShape'
  BY <1>0, <1>1, <1>2, <1>3, <1>5, <1>14, ConstFacts DEF HostShape
<1>16. TrackInv'
  <2> SUFFICES ASSUME NEW r \in Runs
               PROVE  /\ track'[r].out # "" => track'[r].known
                      /\ track'[r].out # "" /\ ~track'[r].forced =>
                           run'[r].phase = "done" /\ track'[r].out = run'[r].out
                      /\ (\E i \in 1..k : Final(i, r)') =>
                           track'[r].out # "" /\ ~track'[r].forced
    BY <1>1 DEF TrackInv
  <2>1. \A i \in 1..k : Final(i, r)' => Final(i, r)
    BY <1>0 DEF Final
  <2>2. run'[r].phase = run[r].phase /\ run'[r].out = run[r].out
    BY <1>0 DEF SameRuns
  <2>3. (\E i \in 1..k : Final(i, r)') => (\E i \in 1..seq : Final(i, r)) \/ Final(k, r)
    BY <1>3, <2>1
  <2>4. CASE r = q
    BY <1>7, <1>11, <1>13, <1>14, <2>2, <2>3, <2>4
  <2>5. CASE r # q
    <3>1. /\ track[r].out # "" => track[r].known
          /\ track[r].out # "" /\ ~track[r].forced =>
               run[r].phase = "done" /\ track[r].out = run[r].out
          /\ (\E i \in 1..seq : Final(i, r)) => track[r].out # "" /\ ~track[r].forced
      BY DEF HostInv, TrackInv
    <3> QED
      BY <1>12, <1>14, <2>2, <2>3, <2>5, <3>1
  <2> QED
    BY <2>4, <2>5
<1>17. \A r \in Runs : track[r].out = "" => track'[r].out = "" \/ noting' = r
  BY <1>1, <1>14
<1>18. WatchInv'
  <2>1. ASSUME tear.state = "settling"
        PROVE  tear.run # 0 /\ (track'[tear.run].out = "" \/ noting' = tear.run)
    <3>1. tear.run # 0 /\ (track[tear.run].out = "" \/ noting = tear.run)
      BY <2>1 DEF HostInv, WatchInv
    <3>2. tear.run \in Runs
      BY <1>2, <3>1, ConstFacts DEF TearType
    <3> QED
      BY <1>1, <1>17, <3>1, <3>2
  <2> QED
    BY <1>1, <2>1, TearName DEF WatchInv
<1> QED
  BY <1>15, <1>16, <1>18 DEF HostInv

\* A new connection starts with an empty tracker, and nobody waits.
Fresh ==
  /\ ChildShape
  /\ track = [r \in Runs |-> NoRec] /\ seq = 0 /\ noting = 0
  /\ step = Idle /\ tear = NoTear

\* The invariant of a fresh connection.
LEMMA HostStart == Fresh => HostInv
<1> SUFFICES ASSUME Fresh PROVE HostInv
  OBVIOUS
<1>1. /\ NoRec \in RecType /\ NoRec.out = ""
      /\ Idle \in StepType /\ Idle.state = "idle"
      /\ NoTear \in TearType /\ NoTear.state = "idle"
  BY ConstFacts DEF NoRec, RecType, Idle, StepType, NoTear, TearType, Owners
<1>2. seq \in Nat /\ seq <= Len(journal)
  <2>1. Len(journal) \in Nat
    BY JournalLen DEF Fresh
  <2>2. seq = 0
    BY DEF Fresh
  <2> QED
    BY <2>1, <2>2
<1>3. HostShape
  BY <1>1, <1>2, ConstFacts DEF HostShape, Fresh
<1>4. 1..seq = {}
  BY DEF Fresh
<1>5. TrackInv
  BY <1>1, <1>4 DEF TrackInv, Fresh
<1>6. WatchInv
  BY <1>1 DEF WatchInv, Fresh, NoTear
<1> QED
  BY <1>3, <1>5, <1>6 DEF HostInv

\* The connection is closed or lost.
LEMMA HostLost ==
  ASSUME ChildInv, CloseWorkflowHandle \/ ConnectionLost PROVE HostInv'
<1>1. ChildShape'
  BY ChildCalmSteps DEF ChildInv
<1>2. Fresh'
  BY <1>1 DEF CloseWorkflowHandle, ConnectionLost, SessionLost, Fresh
<1> QED
  BY <1>2, HostStart, PTL

-----------------------------------------------------------------------------
(* The theorems.                                                           *)

\* The invariant holds at the start.
LEMMA InitHolds == ASSUME Init PROVE IInv
<1>1. ChildInv
  BY ChildInit
<1>2. HostInv
  BY <1>1, HostStart DEF Init, ChildInv, Fresh
<1> QED
  BY <1>1, <1>2 DEF IInv

\* Nothing is lost in a step that changes nothing.
LEMMA StutterHolds == ASSUME IInv, UNCHANGED vars PROVE IInv'
<1>1. /\ UNCHANGED <<sessions, slot, run, made, closing, partial, journal>>
      /\ UNCHANGED <<dial, track, seq, noting, step, tear>>
  BY DEF vars, childVars, hostVars
<1>2. ChildInv /\ HostInv
  BY DEF IInv
<1>3. ChildInv'
  BY <1>1, <1>2, RunsUnchanged, ChildCalm DEF ChildInv, ChildShape
<1>4. Keeps
  BY <1>1, <1>2, RunsUnchanged, CalmKeeps
<1>5. HostInv'
  BY <1>1, <1>2, <1>3, <1>4, HostQuiet DEF HostInv, HostShape
<1> QED
  BY <1>3, <1>5 DEF IInv

\* Every step keeps the invariant: first the child by itself, then the host.
LEMMA StepHolds == ASSUME IInv, Next PROVE IInv'
<1>0. ChildInv /\ HostInv
  BY DEF IInv
<1>1. ASSUME NEW s \in Sessions, OpenChildRun(s) \/ CloseSession(s) \/ CloseSessionEnds(s)
                                   \/ CloseSessionTimesOut(s)
      PROVE  IInv'
  <2>1. ASSUME CloseSessionEnds(s) \/ CloseSessionTimesOut(s) PROVE ChildInv'
    <3>1. /\ closing' = [closing EXCEPT ![s] = {}]
          /\ UNCHANGED <<sessions, slot, run, made, partial, journal>>
      BY <2>1 DEF CloseSessionEnds, CloseSessionTimesOut
    <3> QED
      BY <1>0, <3>1, ChildCloseEnds
  <2>2. ChildInv'
    BY <1>0, <1>1, <2>1, ChildOpenRun, ChildCloseSession
  <2> QED
    BY <1>0, <1>1, <2>2, HostChildSteps DEF IInv
<1>2. ASSUME NEW r \in Runs,
             \/ BuildFails(r) \/ ArmChildRunStart(r) \/ EngineEnds(r)
             \/ JournalChildRunTerminal(r) \/ PumpReturns(r)
             \/ JournalChildRunTeardownPartial(r)
      PROVE  IInv'
  <2>1. ChildInv'
    BY <1>0, <1>2, ChildBuildFails, ChildArmStart, ChildEngineEnds, ChildTerminal,
       ChildPumpReturns, ChildPartialArm
  <2> QED
    BY <1>0, <1>2, <2>1, HostChildSteps DEF IInv
<1>3. CASE \/ \E s \in Sessions : OpenSession(s) \/ OpenSessionRefused(s) \/ Execute(s)
           \/ ExecuteRefused \/ StepCanceled \/ TeardownBegins \/ TeardownCancels
           \/ ForceKillInFlightChildRun \/ Redial
  <2>1. ChildInv'
    BY <1>0, <1>3, ChildCalmSteps
  <2>2. HostInv'
    BY <1>0, <1>3, HostQuietSteps
  <2> QED
    BY <2>1, <2>2 DEF IInv
<1>4. CASE \/ ApplyArm \/ NoteChildRunTerminal
           \/ WaitChildRunSettle \/ MarkForceKilled
           \/ CloseWorkflowHandle \/ ConnectionLost
  <2>1. ChildInv'
    BY <1>0, <1>4, ChildCalmSteps
  <2>2. HostInv'
    BY <1>0, <1>4, HostApplies, HostNotes, HostWaitsSettle, HostForces, HostLost
  <2> QED
    BY <2>1, <2>2 DEF IInv
<1> QED
  BY <1>1, <1>2, <1>3, <1>4 DEF Next

\* The inductive invariant of child and host: the slot names the one live run,
\* the journal carries verdicts, the tracker follows it, and a teardown that
\* watches a settled run is about to be woken.
THEOREM ChildRunInvariant == Spec => []IInv
<1>1. Init => IInv
  BY InitHolds
<1>2. IInv /\ [Next]_vars => IInv'
  BY StepHolds, StutterHolds
<1> QED
  BY <1>1, <1>2, PTL DEF Spec

\* Two engines never run at once in one child process, whatever connections and
\* hosts come and go (ErrChildRunInFlight, openChildRun, pumpExecuteEvents).
THEOREM OneRunTheorem == Spec => []OneChildRun
<1>1. ASSUME IInv PROVE OneChildRun
  <2> DEFINE L == {r \in Runs : Live(r)}
  <2>1. L \subseteq {slot}
    BY <1>1 DEF IInv, ChildInv, SlotInv
  <2>2. IsFiniteSet({slot}) /\ Cardinality({slot}) = 1
    BY FS_Singleton
  <2>3. IsFiniteSet(L) /\ Cardinality(L) <= Cardinality({slot})
    BY <2>1, <2>2, FS_Subset
  <2> HIDE DEF L
  <2>4. Cardinality(L) <= 1
    BY <2>2, <2>3
  <2> QED
    BY <2>4 DEF OneChildRun, L
<1>2. IInv => OneChildRun
  BY <1>1
<1> QED
  BY <1>2, ChildRunInvariant, PTL

\* A host that has read the journal to its end holds the verdict of the child,
\* a forced teardown in between or not (applyChildRunArmLocked).
THEOREM TrackerTheorem == Spec => []TrackerIsTrue
<1>1. ASSUME IInv PROVE TrackerIsTrue
  <2> SUFFICES ASSUME CaughtUp, NEW r \in Runs, Terminals(r) # {}
               PROVE  track[r].out = run[r].out /\ ~track[r].forced
    BY DEF TrackerIsTrue
  <2>1. \E i \in 1..seq : Final(i, r)
    BY DEF CaughtUp, Terminals, Final
  <2> QED
    BY <1>1, <2>1 DEF IInv, HostInv, TrackInv
<1>2. IInv => TrackerIsTrue
  BY <1>1
<1> QED
  BY <1>2, ChildRunInvariant, PTL

\* A host that has read the terminal arm of a run and woken its watches leaves no
\* teardown waiting out its settle budget for that run, under whatever name the
\* connection was dialled (waitChildRunTerminal, noteChildRunTerminal).
THEOREM TeardownTheorem == Spec => []TeardownIsTold
<1>1. ASSUME IInv PROVE TeardownIsTold
  <2> SUFFICES ASSUME CaughtUp, tear.state = "settling"
               PROVE  Terminals(tear.run) = {}
    BY DEF TeardownIsTold
  <2>1. noting = 0 /\ seq = Len(journal)
    BY DEF CaughtUp
  <2>2. HostInv /\ tear.run \in Numbers
    BY <1>1 DEF IInv, HostInv, HostShape, TearType
  <2>3. tear.run # 0 /\ track[tear.run].out = ""
    BY <2>1, <2>2 DEF HostInv, WatchInv
  <2>4. tear.run \in Runs
    BY <2>2, <2>3, ConstFacts
  <2>5. ~\E i \in 1..seq : Final(i, tear.run)
    BY <2>2, <2>3, <2>4 DEF HostInv, TrackInv
  <2> QED
    BY <2>1, <2>5 DEF Terminals, Final
<1>2. IInv => TeardownIsTold
  BY <1>1
<1> QED
  BY <1>2, ChildRunInvariant, PTL

\* The CloseSession that asks the process to exit leaves no live run of its
\* session behind, unless an Execute that had its first look before the close has
\* opened the session again (serveadapter_adapter.go CloseSession).
THEOREM ExitTheorem == Spec => ExitAfterSettle
<1> DEFINE A == \A s \in Sessions, r \in Runs :
                  (~exiting /\ exiting' /\ closing[s] # closing'[s] /\ Live(r))
                  => run[r].owner # s \/ s \in sessions
<1>1. ASSUME IInv, Next PROVE A
  <2> SUFFICES ASSUME NEW s \in Sessions, NEW r \in Runs, ~exiting, exiting',
                      closing[s] # closing'[s], Live(r), run[r].owner = s
               PROVE  s \in sessions
    OBVIOUS
  <2>1. PICK t \in Sessions : CloseSessionEnds(t)
    BY <1>1 DEF Next, OpenSession, OpenSessionRefused, Execute, OpenChildRun, CloseSession,
       CloseSessionTimesOut, BuildFails, ArmChildRunStart, EngineEnds,
       JournalChildRunTerminal, PumpReturns, JournalChildRunTeardownPartial, ApplyArm,
       NoteChildRunTerminal, ExecuteRefused, StepCanceled, TeardownBegins,
       TeardownCancels, WaitChildRunSettle, ForceKillInFlightChildRun, MarkForceKilled,
       CloseWorkflowHandle, ConnectionLost, Redial, childVars
  <2>2. t = s
    BY <1>1, <2>1 DEF CloseSessionEnds, IInv, ChildInv, ChildShape
  <2>3. closing[s] # {} /\ \A q \in closing[s] \ {0} : ~Live(q)
    BY <2>1, <2>2 DEF CloseSessionEnds, Live
  <2>4. r \notin closing[s]
    BY <2>3, ConstFacts
  <2> QED
    BY <1>1, <2>3, <2>4 DEF IInv, ChildInv, CloseInv
<1>2. ASSUME UNCHANGED vars PROVE A
  BY <1>2 DEF vars, childVars
<1>3. IInv /\ [Next]_vars => [A]_vars
  BY <1>1
<1>4. ExitAfterSettle <=> [][A]_vars
  BY DEF ExitAfterSettle
<1> QED
  BY <1>3, <1>4, ChildRunInvariant, PTL DEF Spec
-----------------------------------------------------------------------------
(***************************************************************************)
(* PeerLink, for any manifest, connections, waiters and bounds.  The peer  *)
(* is proved first: what its journal says of an exit agrees with who asked *)
(* for it.  Then the registry: a waiter has looked under its key since the *)
(* last store there, and a session that is open has someone who will close *)
(* it.  Last, what a session whose transport is up has read of the journal.*)
(***************************************************************************)

EventType == [kind : {"exited", "crash"}, adapter : Adapters]

DialedType ==
  [phase : {"none", "dialed", "stored", "open", "refused"},
   conn : Conns \cup {NewSession.conn}, closed : BOOLEAN, lastSeq : Nat,
   verdict : [Adapters -> {"none", "exited", "crash"}],
   old : 0..MaxDials, owed : SUBSET Waiters]

WaitType ==
  [state : {"idle", "waiting", "taken", "held"}, stale : 0..MaxDials, handle : 0..MaxDials]

PeerShape ==
  /\ proc \in [Adapters -> {"live", "gone", "killed", "reaped"}]
  /\ killReq \in [Adapters -> BOOLEAN]
  /\ recorded \in [Adapters -> {"no", "exited", "done"}]
  /\ events \in Seq(EventType)

RegistryShape ==
  /\ alive \subseteq Dials /\ dialed \in 0..MaxDials
  /\ sess \in [Dials -> DialedType]
  /\ peers \in [Adapters -> 0..MaxDials]
  /\ wait \in [Waiters -> WaitType]
  /\ closeReq # NoClose => closeReq.dial \in Dials /\ closeReq.exact \in BOOLEAN
  /\ stopped \in BOOLEAN

\* The journal has said this of a by event n.
Said(k, a, n) == \E i \in 1..n : events[i] = Event(k, a)

\* What the watcher of a child has noted about its exit so far.
ExitInv ==
  \A a \in Adapters :
    /\ proc[a] = "killed" => killReq[a]
    /\ KeepAlive => proc[a] # "reaped"
    /\ recorded[a] # "no" => proc[a] # "live" /\ Said("exited", a, Len(events))
    /\ recorded[a] = "exited" => ~killReq[a]
    /\ recorded[a] = "done" /\ ~killReq[a] => Said("crash", a, Len(events))

\* A crash in the journal is one that nobody had asked for.
CrashInv ==
  \A i \in 1..Len(events) :
    events[i].kind = "crash" =>
     recorded[events[i].adapter] # "no" /\ ~killReq[events[i].adapter]

PeerInv == PeerShape /\ ExitInv /\ CrashInv

\* What a session whose transport is up has read of the journal.
ReadInv ==
  \A d \in alive :
    /\ sess[d].lastSeq <= Len(events)
    /\ \A a \in Adapters :
         sess[d].verdict[a] = "crash" => Said("crash", a, Len(events))
    /\ Len(events) <= JournalLimit => \A i \in 1..sess[d].lastSeq :
         /\ sess[d].verdict[events[i].adapter] # "none"
         /\ events[i].kind = "crash" => sess[d].verdict[events[i].adapter] = "crash"

\* A session is registered under its own key, by its accept; dials that were
\* not made have no session.
KeyInv ==
  /\ \A a \in Adapters : peers[a] # 0 =>
       sess[peers[a]].phase \in {"stored", "open"} /\ KeyOf(peers[a]) = a
  /\ \A d \in Dials : /\ d > dialed => sess[d].phase = "none"
                      /\ sess[d].phase # "none" => sess[d].conn \in Conns

\* A waiter has looked under its own key since the last store there.
WaitInv ==
  /\ \A w \in Waiters : wait[w].state = "waiting" =>
       peers[WantOf[w]] \in {0, wait[w].stale}
  /\ WaiterNotForgotten

\* A session that is open, or is about to be, has someone who will close it.
OwnedInv ==
  \A d \in Dials : sess[d].phase \in {"stored", "open"} /\ ~sess[d].closed =>
    \/ ~stopped /\ Registered(d)
    \/ closeReq.exact /\ closeReq.dial = d
    \/ \E n \in Dials : sess[n].phase = "stored" /\ sess[n].old = d

RegistryInv == RegistryShape /\ KeyInv /\ WaitInv /\ OwnedInv

LinkInv == PeerInv /\ ReadInv /\ RegistryInv

-----------------------------------------------------------------------------
(* The peer.                                                               *)

\* The events so far stay where they are when one is appended.
LEMMA JournalGrows ==
  ASSUME PeerShape, NEW k \in {"exited", "crash"}, NEW a \in Adapters, Append1(k, a)
  PROVE  /\ events' \in Seq(EventType)
         /\ Len(events) \in Nat /\ Len(events') = Len(events) + 1
         /\ \A i \in 1..Len(events) : events'[i] = events[i]
         /\ events'[Len(events')] = Event(k, a)
         /\ Said(k, a, Len(events))' 
<1>1. events \in Seq(EventType) /\ Event(k, a) \in EventType
  BY DEF PeerShape, EventType, Event
<1>2. events' = Append(events, Event(k, a))
  BY DEF Append1
<1>3. /\ events' \in Seq(EventType)
      /\ Len(events) \in Nat /\ Len(events') = Len(events) + 1
      /\ \A i \in 1..Len(events) : events'[i] = events[i]
      /\ events'[Len(events')] = Event(k, a)
  BY <1>1, <1>2
<1>4. Said(k, a, Len(events))'
  BY <1>3 DEF Said
<1> QED  BY <1>3, <1>4

\* Every event is about a hosted adapter.
LEMMA EventTyped ==
  ASSUME PeerShape, NEW i \in 1..Len(events)
  PROVE  events[i] \in EventType /\ events[i].adapter \in Adapters
<1>1. events \in Seq(EventType)
  BY DEF PeerShape
<1>2. events[i] \in EventType
  BY <1>1
<1> QED  BY <1>2 DEF EventType

\* What was said once stays said while the journal only grows.
LEMMA SaidStays ==
  ASSUME Len(events) \in Nat, Len(events') \in Nat, Len(events) <= Len(events'),
         \A i \in 1..Len(events) : events'[i] = events[i],
         NEW k, NEW a, Said(k, a, Len(events))
  PROVE  Said(k, a, Len(events))'
  BY DEF Said

LEMMA PeerBoots ==
  Booted(proc, killReq, recorded, count, events, link) => PeerInv
  BY DEF Booted, PeerInv, PeerShape, ExitInv, CrashInv, EventType

\* A child may end at any time, and by itself that changes nothing else.
LEMMA PeerChildEnds ==
  ASSUME PeerInv, UNCHANGED <<killReq, recorded, events>>,
         proc' \in [Adapters -> {"live", "gone", "killed", "reaped"}],
         \A a \in Adapters :
           /\ proc'[a] # proc[a] => proc'[a] # "live"
           /\ proc'[a] # proc[a] /\ proc'[a] = "killed" => killReq[a]
           /\ proc'[a] # proc[a] /\ KeepAlive => proc'[a] # "reaped"
  PROVE  PeerInv'
  BY DEF PeerInv, PeerShape, ExitInv, CrashInv, Said

\* serveClosed reaps only without keepalive.
LEMMA PeerServeClosed ==
  ASSUME PeerInv, ServeClosed, UNCHANGED <<killReq, recorded, events>>
  PROVE  PeerInv'
<1>1. proc' = [a \in Adapters |->
                 IF ~KeepAlive /\ CountAfter(a) = 0 /\ proc[a] = "live"
                 THEN "reaped" ELSE proc[a]]
  BY DEF ServeClosed
<1>2. proc \in [Adapters -> {"live", "gone", "killed", "reaped"}]
  BY DEF PeerInv, PeerShape
<1>3. proc' \in [Adapters -> {"live", "gone", "killed", "reaped"}]
  BY <1>1, <1>2
<1>4. \A a \in Adapters : proc'[a] # proc[a] => proc'[a] = "reaped" /\ ~KeepAlive
  BY <1>1, <1>2
<1> QED  BY <1>3, <1>4, PeerChildEnds

LEMMA PeerChildSteps ==
  ASSUME PeerInv, NEW a \in Adapters, ChildExits(a) \/ KillLands(a)
  PROVE  PeerInv'
<1>1. CASE ChildExits(a)
  <2>1. proc' = [proc EXCEPT ![a] = "gone"] /\ UNCHANGED <<killReq, recorded, events>>
    BY <1>1 DEF ChildExits
  <2> QED  BY <2>1, PeerChildEnds DEF PeerInv, PeerShape
<1>2. CASE KillLands(a)
  <2>1. /\ proc' = [proc EXCEPT ![a] = "killed"] /\ killReq[a]
        /\ UNCHANGED <<killReq, recorded, events>>
    BY <1>2 DEF KillLands
  <2> QED  BY <2>1, PeerChildEnds DEF PeerInv, PeerShape
<1> QED  BY <1>1, <1>2

\* The watcher journals the exit of a child that has ended.
LEMMA PeerRecordExit ==
  ASSUME PeerInv, NEW a \in Adapters, RecordExit(a)
  PROVE  PeerInv'
<1>1. /\ proc[a] # "live" /\ recorded[a] = "no"
      /\ recorded' = [recorded EXCEPT ![a] = IF killReq[a] THEN "done" ELSE "exited"]
      /\ Append1("exited", a) /\ UNCHANGED <<proc, killReq>>
  BY DEF RecordExit, Graceful
<1>2. PeerShape /\ ExitInv /\ CrashInv
  BY DEF PeerInv
<1>3. /\ events' \in Seq(EventType)
      /\ Len(events) \in Nat /\ Len(events') = Len(events) + 1
      /\ \A i \in 1..Len(events) : events'[i] = events[i]
      /\ events'[Len(events')] = Event("exited", a)
      /\ Said("exited", a, Len(events))'
  BY <1>1, <1>2, JournalGrows
<1>4. PeerShape'
  BY <1>1, <1>2, <1>3 DEF PeerShape
<1>5. ASSUME NEW b \in Adapters
      PROVE  /\ proc'[b] = "killed" => killReq'[b]
             /\ KeepAlive => proc'[b] # "reaped"
             /\ recorded'[b] # "no" => proc'[b] # "live" /\ Said("exited", b, Len(events))'
             /\ recorded'[b] = "exited" => ~killReq'[b]
             /\ recorded'[b] = "done" /\ ~killReq'[b] => Said("crash", b, Len(events))'
  <2>1. /\ recorded'[a] = (IF killReq[a] THEN "done" ELSE "exited")
        /\ b # a => recorded'[b] = recorded[b]
    BY <1>1, <1>2 DEF PeerShape
  <2>2. Said("exited", b, Len(events)) => Said("exited", b, Len(events))'
    BY <1>3, SaidStays
  <2>3. Said("crash", b, Len(events)) => Said("crash", b, Len(events))'
    BY <1>3, SaidStays
  <2> QED  BY <1>1, <1>2, <1>3, <2>1, <2>2, <2>3 DEF ExitInv
<1>6. CrashInv'
  <2> SUFFICES ASSUME NEW i \in 1..Len(events'), events'[i].kind = "crash"
               PROVE  /\ recorded'[events'[i].adapter] # "no"
                      /\ ~killReq'[events'[i].adapter]
    BY DEF CrashInv
  <2>1. i # Len(events')
    BY <1>3 DEF Event
  <2>2. i \in 1..Len(events) /\ events'[i] = events[i]
    BY <1>3, <2>1
  <2>3. recorded[events[i].adapter] # "no" /\ ~killReq[events[i].adapter]
    BY <1>2, <2>2 DEF CrashInv
  <2>4. events[i].adapter \in Adapters /\ events[i].adapter # a
    BY <1>1, <1>2, <2>2, <2>3, EventTyped
  <2> QED  BY <1>1, <1>2, <2>2, <2>3, <2>4 DEF PeerShape
<1> QED  BY <1>4, <1>5, <1>6 DEF PeerInv, ExitInv

\* An exit that was not asked for is called a crash afterwards.
LEMMA PeerClassifies ==
  ASSUME PeerInv, NEW a \in Adapters, ClassifyUnexpectedExit(a)
  PROVE  PeerInv'
<1>1. /\ recorded[a] = "exited"
      /\ recorded' = [recorded EXCEPT ![a] = "done"]
      /\ Append1("crash", a) /\ UNCHANGED <<proc, killReq>>
  BY DEF ClassifyUnexpectedExit
<1>2. PeerShape /\ ExitInv /\ CrashInv
  BY DEF PeerInv
<1>3. /\ events' \in Seq(EventType)
      /\ Len(events) \in Nat /\ Len(events') = Len(events) + 1
      /\ \A i \in 1..Len(events) : events'[i] = events[i]
      /\ events'[Len(events')] = Event("crash", a)
      /\ Said("crash", a, Len(events))'
  BY <1>1, <1>2, JournalGrows
<1>4. PeerShape'
  BY <1>1, <1>2, <1>3 DEF PeerShape
<1>5. ASSUME NEW b \in Adapters
      PROVE  /\ proc'[b] = "killed" => killReq'[b]
             /\ KeepAlive => proc'[b] # "reaped"
             /\ recorded'[b] # "no" => proc'[b] # "live" /\ Said("exited", b, Len(events))'
             /\ recorded'[b] = "exited" => ~killReq'[b]
             /\ recorded'[b] = "done" /\ ~killReq'[b] => Said("crash", b, Len(events))'
  <2>1. recorded'[a] = "done" /\ (b # a => recorded'[b] = recorded[b])
    BY <1>1, <1>2 DEF PeerShape
  <2>2. Said("exited", b, Len(events)) => Said("exited", b, Len(events))'
    BY <1>3, SaidStays
  <2>3. Said("crash", b, Len(events)) => Said("crash", b, Len(events))'
    BY <1>3, SaidStays
  <2> QED  BY <1>1, <1>2, <1>3, <2>1, <2>2, <2>3 DEF ExitInv
<1>6. CrashInv'
  <2> SUFFICES ASSUME NEW i \in 1..Len(events'), events'[i].kind = "crash"
               PROVE  /\ recorded'[events'[i].adapter] # "no"
                      /\ ~killReq'[events'[i].adapter]
    BY DEF CrashInv
  <2>1. CASE i = Len(events')
    <3>1. events'[i].adapter = a
      BY <1>3, <2>1 DEF Event
    <3> QED  BY <1>1, <1>2, <3>1 DEF ExitInv, PeerShape
  <2>2. CASE i # Len(events')
    <3>1. i \in 1..Len(events) /\ events'[i] = events[i]
      BY <1>3, <2>2
    <3>2. recorded[events[i].adapter] # "no" /\ ~killReq[events[i].adapter]
      BY <1>2, <3>1 DEF CrashInv
    <3>3. events[i].adapter \in Adapters
      BY <1>2, <3>1, EventTyped
    <3> QED  BY <1>1, <1>2, <3>1, <3>2, <3>3 DEF PeerShape
  <2> QED  BY <2>1, <2>2
<1> QED  BY <1>4, <1>5, <1>6 DEF PeerInv, ExitInv

\* A kill is accepted only for a child that runs, so it changes nothing that
\* was recorded.
LEMMA PeerKillChild ==
  ASSUME PeerInv, NEW d, NEW a, KillChild(d, a), UNCHANGED <<proc, recorded, events>>
  PROVE  PeerInv'
<1>1. PeerShape /\ ExitInv /\ CrashInv
  BY DEF PeerInv
<1>2. /\ killReq' \in [Adapters -> BOOLEAN]
      /\ \A b \in Adapters : killReq[b] => killReq'[b]
      /\ \A b \in Adapters : proc[b] # "live" => killReq'[b] = killReq[b]
  BY <1>1 DEF KillChild, KillAccepted, PeerShape
<1>3. PeerShape'
  BY <1>1, <1>2 DEF PeerShape
<1>4. ExitInv'
  BY <1>1, <1>2 DEF ExitInv, Said
<1>5. CrashInv'
  <2> SUFFICES ASSUME NEW i \in 1..Len(events), events[i].kind = "crash"
               PROVE  /\ recorded[events[i].adapter] # "no"
                      /\ ~killReq'[events[i].adapter]
    BY DEF CrashInv
  <2>1. events[i].adapter \in Adapters
    BY <1>1, EventTyped
  <2>2. recorded[events[i].adapter] # "no" /\ ~killReq[events[i].adapter]
    BY <1>1 DEF CrashInv
  <2> QED  BY <1>1, <1>2, <2>1, <2>2 DEF ExitInv
<1> QED  BY <1>3, <1>4, <1>5 DEF PeerInv

LEMMA PeerSame ==
  ASSUME PeerInv, UNCHANGED <<proc, killReq, recorded, events>>
  PROVE  PeerInv'
  BY DEF PeerInv, PeerShape, ExitInv, CrashInv, Said

-----------------------------------------------------------------------------
(* The registry.                                                           *)

LEMMA BoundFacts ==
  /\ MaxDials \in Nat /\ JournalLimit \in Nat /\ Dials \subseteq 0..MaxDials
  /\ \A d \in 0..MaxDials : d # 0 => d \in Dials
  BY PeerAssumption DEF Dials

LEMMA NewTyped == NewSession \in DialedType
  BY BoundFacts DEF NewSession, DialedType

\* What close does to one session, and that it does nothing to the others.
LEMMA ClosedFacts ==
  ASSUME NEW ss \in [Dials -> DialedType], NEW d \in 0..MaxDials
  PROVE  /\ Closed(ss, d) \in [Dials -> DialedType]
         /\ \A x \in Dials : /\ Closed(ss, d)[x].phase = ss[x].phase
                             /\ Closed(ss, d)[x].conn = ss[x].conn
                             /\ Closed(ss, d)[x].old = ss[x].old
                             /\ Closed(ss, d)[x].closed = (ss[x].closed \/ x = d)
                             /\ x # d => Closed(ss, d)[x] = ss[x]
                             /\ x = d => /\ Closed(ss, d)[x].lastSeq = 0
                                         /\ Closed(ss, d)[x].verdict = NewSession.verdict
<1>1. NewSession.verdict \in [Adapters -> {"none", "exited", "crash"}]
  BY DEF NewSession
<1>2. CASE d = 0
  <2>1. Closed(ss, d) = ss /\ \A x \in Dials : x # d
    BY <1>2 DEF Closed, Dials
  <2>2. \A x \in Dials : ss[x].closed \in BOOLEAN
    BY DEF DialedType
  <2> QED  BY <2>1, <2>2
<1>3. CASE d # 0
  <2>1. d \in Dials
    BY <1>3, BoundFacts
  <2> DEFINE r == [ss[d] EXCEPT !.closed = TRUE, !.lastSeq = 0,
                                !.verdict = NewSession.verdict]
  <2>2. Closed(ss, d) = [ss EXCEPT ![d] = r]
    BY <1>3, <2>1 DEF Closed, DialedType
  <2>3. ss[d] \in DialedType /\ \A x \in Dials : ss[x].closed \in BOOLEAN
    BY <2>1 DEF DialedType
  <2>4. /\ r \in DialedType /\ r.phase = ss[d].phase /\ r.conn = ss[d].conn
        /\ r.old = ss[d].old /\ r.closed = TRUE /\ r.lastSeq = 0
        /\ r.verdict = NewSession.verdict
    BY <1>1, <2>3 DEF DialedType
  <2> HIDE DEF r
  <2>5. Closed(ss, d)[d] = r /\ \A x \in Dials : x # d => Closed(ss, d)[x] = ss[x]
    BY <2>1, <2>2
  <2>6. Closed(ss, d) \in [Dials -> DialedType]
    BY <2>2, <2>4
  <2> QED  BY <2>3, <2>4, <2>5, <2>6
<1> QED  BY <1>2, <1>3

LEMMA OthersKept ==
  ASSUME NEW ss \in [Dials -> DialedType], NEW d \in 0..MaxDials, NEW x \in Dials, x # d
  PROVE  Closed(ss, d)[x] = ss[x]
  BY ClosedFacts

LEMMA RegistryInit == ASSUME LinkInit PROVE RegistryInv
<1>1. RegistryShape
  <2>1. /\ sess = [d \in Dials |-> NewSession]
        /\ wait = [w \in Waiters |-> [state |-> "idle", stale |-> 0, handle |-> 0]]
        /\ peers = [a \in Adapters |-> 0] /\ closeReq = NoClose
        /\ alive = {} /\ dialed = 0 /\ stopped = FALSE
    BY DEF LinkInit
  <2>2. 0 \in 0..MaxDials
    BY BoundFacts
  <2>3. sess \in [Dials -> DialedType]
    BY <2>1, NewTyped
  <2>4. wait \in [Waiters -> WaitType]
    BY <2>1, <2>2 DEF WaitType
  <2> QED  BY <2>1, <2>2, <2>3, <2>4 DEF RegistryShape
<1>2. KeyInv /\ OwnedInv
  BY DEF LinkInit, KeyInv, OwnedInv, NewSession
<1>3. WaitInv
  BY DEF LinkInit, WaitInv, WaiterNotForgotten
<1> QED  BY <1>1, <1>2, <1>3 DEF RegistryInv

\* The sessions are where they were: what a session has read does not matter.
LEMMA RegistryQuiet ==
  ASSUME RegistryInv, alive' \subseteq Dials,
         UNCHANGED <<dialed, peers, wait, closeReq, stopped>>,
         sess' \in [Dials -> DialedType],
         \A d \in Dials : /\ sess'[d].phase = sess[d].phase
                          /\ sess'[d].conn = sess[d].conn
                          /\ sess'[d].old = sess[d].old
                          /\ sess'[d].closed = sess[d].closed
  PROVE  RegistryInv'
<1>1. RegistryShape /\ KeyInv /\ WaitInv /\ OwnedInv
  BY DEF RegistryInv
<1>2. \A a \in Adapters : peers[a] \in 0..MaxDials /\ (peers[a] # 0 => peers[a] \in Dials)
  BY <1>1, BoundFacts DEF RegistryShape
<1>3. RegistryShape'
  BY <1>1 DEF RegistryShape, NoClose
<1>4. KeyInv'
  BY <1>1, <1>2 DEF KeyInv, KeyOf
<1>5. WaitInv'
  BY <1>1, <1>2 DEF WaitInv, WaiterNotForgotten
<1>6. OwnedInv'
  BY <1>1 DEF OwnedInv, Registered
<1> QED  BY <1>3, <1>4, <1>5, <1>6 DEF RegistryInv

\* A new dial has a new session, which is in nobody's hands yet.
LEMMA RegistryDial ==
  ASSUME RegistryInv, NEW c \in Conns, Dial(c)
  PROVE  RegistryInv'
<1> DEFINE n == dialed + 1
           s == [NewSession EXCEPT !.phase = "dialed", !.conn = c]
<1>1. RegistryShape /\ KeyInv /\ WaitInv /\ OwnedInv
  BY DEF RegistryInv
<1>2. /\ n \in Dials /\ dialed' = n /\ alive' = alive \cup {n}
      /\ sess' = [sess EXCEPT ![n] = s]
      /\ UNCHANGED <<peers, wait, closeReq, stopped>>
  BY <1>1, BoundFacts DEF Dial, RegistryShape, Dials
<1>3. s \in DialedType /\ s.phase = "dialed" /\ s.conn = c
  BY NewTyped DEF DialedType
<1> HIDE DEF s
<1>4. /\ sess'[n] = s /\ sess' \in [Dials -> DialedType]
      /\ \A d \in Dials : d # n => sess'[d] = sess[d]
  BY <1>1, <1>2, <1>3 DEF RegistryShape
<1>5. sess[n].phase = "none" /\ dialed \in Nat
  BY <1>1, <1>2 DEF KeyInv, RegistryShape
<1>6. \A a \in Adapters : peers[a] # n /\ (peers[a] # 0 => peers[a] \in Dials)
  BY <1>1, <1>5, <1>2, BoundFacts DEF KeyInv, RegistryShape
<1>7. RegistryShape'
  BY <1>1, <1>2, <1>4, BoundFacts DEF RegistryShape, NoClose, Dials
<1>8. KeyInv'
  BY <1>1, <1>2, <1>3, <1>4, <1>5, <1>6 DEF KeyInv, KeyOf, Dials
<1>9. WaitInv'
  BY <1>1, <1>2, <1>4, <1>6 DEF WaitInv, WaiterNotForgotten
<1>10. OwnedInv'
  BY <1>1, <1>2, <1>3, <1>4, <1>5 DEF OwnedInv, Registered
<1> QED  BY <1>7, <1>8, <1>9, <1>10 DEF RegistryInv

\* What is registered is a session, and not one that was not stored.
LEMMA RegisteredFacts ==
  ASSUME RegistryInv
  PROVE  \A a \in Adapters : peers[a] # 0 =>
           peers[a] \in Dials /\ sess[peers[a]].phase \in {"stored", "open"}
  BY BoundFacts DEF RegistryInv, RegistryShape, KeyInv

\* The store: the session takes the place under its key, the one that was
\* there is the accept's to close, and the waiters of the key are taken.
LEMMA RegistrySwapIn ==
  ASSUME RegistryInv, NEW d \in Dials, sess[d].phase = "dialed", ~stopped, SwapIn(d)
  PROVE  RegistryInv'
<1> DEFINE k == KeyOf(d)
           r == [sess[d] EXCEPT !.phase = "stored", !.old = peers[k], !.owed = Waiting(k)]
<1>1. RegistryShape /\ KeyInv /\ WaitInv /\ OwnedInv
  BY DEF RegistryInv
<1>2. k \in Adapters
  BY <1>1, PeerAssumption DEF KeyInv, KeyOf
<1>3. /\ peers' = [peers EXCEPT ![k] = d]
      /\ wait' = [w \in Waiters |-> IF w \in Waiting(k)
                    THEN [wait[w] EXCEPT !.state = "taken"] ELSE wait[w]]
      /\ UNCHANGED <<alive, dialed, closeReq, stopped>>
  BY DEF SwapIn, netVars
<1>4. /\ r \in DialedType /\ r.phase = "stored" /\ r.old = peers[k]
      /\ r.conn = sess[d].conn /\ r.closed = sess[d].closed
  BY <1>1, <1>2 DEF RegistryShape, DialedType, Waiting
<1>5. sess' = [sess EXCEPT ![d] = r]
  BY <1>1 DEF SwapIn, RegistryShape, DialedType
<1> HIDE DEF r
<1>6. /\ sess'[d] = r /\ sess' \in [Dials -> DialedType]
      /\ \A x \in Dials : x # d => sess'[x] = sess[x]
  BY <1>1, <1>4, <1>5 DEF RegistryShape
<1>7. /\ peers'[k] = d /\ peers' \in [Adapters -> 0..MaxDials]
      /\ \A a \in Adapters : a # k => peers'[a] = peers[a]
  BY <1>1, <1>2, <1>3, BoundFacts DEF RegistryShape
<1>8. \A a \in Adapters : peers[a] # d /\ (peers[a] # 0 => peers[a] \in Dials)
  BY RegisteredFacts, BoundFacts DEF Dials
<1>9. \A w \in Waiters : /\ wait'[w] \in WaitType
                         /\ wait'[w].state = "waiting" =>
                              wait'[w] = wait[w] /\ WantOf[w] # k
  <2> TAKE w \in Waiters
  <2>1. wait[w] \in WaitType
    BY <1>1 DEF RegistryShape
  <2> QED  BY <1>3, <2>1 DEF Waiting, WaitType
<1>10. RegistryShape'
  <2>1. wait' \in [Waiters -> WaitType]
    BY <1>3, <1>9
  <2> QED  BY <1>1, <1>3, <1>6, <1>7, <2>1 DEF RegistryShape, NoClose
<1>11. KeyInv'
  <2>1. KeyOf(d)' = k
    BY <1>4, <1>6 DEF KeyOf
  <2>2. \A a \in Adapters : peers'[a] # 0 =>
          sess'[peers'[a]].phase \in {"stored", "open"} /\ KeyOf(peers[a])' = a
    <3> SUFFICES ASSUME NEW a \in Adapters, peers'[a] # 0
                 PROVE  sess'[peers'[a]].phase \in {"stored", "open"} /\ KeyOf(peers[a])' = a
      OBVIOUS
    <3>1. CASE a = k
      BY <1>4, <1>6, <1>7, <2>1, <3>1 DEF KeyOf
    <3>2. CASE a # k
      BY <1>1, <1>6, <1>7, <1>8, <3>2 DEF KeyInv, KeyOf
    <3> QED  BY <3>1, <3>2
  <2>3. \A x \in Dials : /\ x > dialed' => sess'[x].phase = "none"
                         /\ sess'[x].phase # "none" => sess'[x].conn \in Conns
    BY <1>1, <1>3, <1>4, <1>6 DEF KeyInv
  <2> QED  BY <2>2, <2>3 DEF KeyInv
<1>12. WaitInv'
  <2>1. \A w \in Waiters : wait'[w].state = "waiting" =>
          peers'[WantOf[w]] \in {0, wait'[w].stale}
    BY <1>1, <1>7, <1>9, PeerAssumption DEF WaitInv
  <2>2. ASSUME NEW w \in Waiters, NEW a \in Adapters,
               wait'[w].state = "waiting", peers'[a] # 0, sess'[peers'[a]].phase = "open"
        PROVE  peers'[a] = wait'[w].stale
    <3>1. a # k
      BY <1>4, <1>6, <1>7, <2>2
    <3> QED  BY <1>1, <1>6, <1>7, <1>8, <1>9, <2>2, <3>1 DEF WaitInv, WaiterNotForgotten
  <2> QED  BY <2>1, <2>2 DEF WaitInv, WaiterNotForgotten
<1>13. OwnedInv'
  <2> SUFFICES ASSUME NEW x \in Dials, sess'[x].phase \in {"stored", "open"}, ~sess'[x].closed
               PROVE  \/ ~stopped' /\ Registered(x)'
                      \/ closeReq'.exact /\ closeReq'.dial = x
                      \/ \E n \in Dials : sess'[n].phase = "stored" /\ sess'[n].old = x
    BY DEF OwnedInv
  <2>1. CASE x = d
    BY <1>2, <1>3, <1>7, <2>1 DEF Registered
  <2>2. CASE x # d
    <3>1. \/ ~stopped /\ Registered(x)
          \/ closeReq.exact /\ closeReq.dial = x
          \/ \E n \in Dials : sess[n].phase = "stored" /\ sess[n].old = x
      BY <1>1, <1>6, <2>2 DEF OwnedInv
    <3>2. CASE Registered(x)
      <4>1. PICK a \in Adapters : peers[a] = x
        BY <3>2 DEF Registered
      <4>2. CASE a = k
        BY <1>4, <1>6, <4>1, <4>2
      <4>3. CASE a # k
        BY <1>3, <1>7, <4>1, <4>3 DEF Registered
      <4> QED  BY <4>2, <4>3
    <3>3. CASE closeReq.exact /\ closeReq.dial = x
      BY <1>3, <3>3
    <3>4. CASE \E n \in Dials : sess[n].phase = "stored" /\ sess[n].old = x
      BY <1>6, <3>4
    <3> QED  BY <3>1, <3>2, <3>3, <3>4
  <2> QED  BY <2>1, <2>2
<1> QED  BY <1>10, <1>11, <1>12, <1>13 DEF RegistryInv

\* After a stop the session is closed instead.
LEMMA RegistryStore ==
  ASSUME RegistryInv, NEW d \in Dials, StoreSession(d)
  PROVE  RegistryInv'
<1>1. CASE ~stopped
  BY <1>1, RegistrySwapIn DEF StoreSession
<1>2. CASE stopped
  <2> DEFINE r == [sess[d] EXCEPT !.phase = "refused"]
             ss == [sess EXCEPT ![d] = r]
  <2>1. RegistryShape /\ KeyInv /\ WaitInv /\ OwnedInv
    BY DEF RegistryInv
  <2>2. /\ sess[d].phase = "dialed"
        /\ sess' = Closed([sess EXCEPT ![d].phase = "refused"], d)
        /\ alive' = alive \ {d} /\ UNCHANGED <<dialed, peers, wait, closeReq, stopped>>
    BY <1>2 DEF StoreSession
  <2>3. r \in DialedType /\ r.phase = "refused" /\ r.conn = sess[d].conn
    <3>1. sess[d] \in DialedType
      BY <2>1 DEF RegistryShape
    <3> QED  BY <3>1 DEF DialedType
  <2>4. [sess EXCEPT ![d].phase = "refused"] = ss
    BY <2>1 DEF RegistryShape, DialedType
  <2>5. ss \in [Dials -> DialedType] /\ ss[d] = r /\ \A x \in Dials : x # d => ss[x] = sess[x]
    BY <2>1, <2>3 DEF RegistryShape
  <2> HIDE DEF r, ss
  <2>6. /\ sess' \in [Dials -> DialedType]
        /\ sess'[d].phase = "refused" /\ sess'[d].conn = sess[d].conn
        /\ \A x \in Dials : x # d => sess'[x] = sess[x]
    <3>1. d \in 0..MaxDials
      BY BoundFacts
    <3>2. sess' = Closed(ss, d)
      BY <2>2, <2>4
    <3> QED  BY <2>3, <2>5, <3>1, <3>2, ClosedFacts
  <2>7. \A a \in Adapters : peers[a] # d /\ (peers[a] # 0 => peers[a] \in Dials)
    BY <2>2, RegisteredFacts, BoundFacts DEF Dials
  <2>8. RegistryShape'
    BY <2>1, <2>2, <2>6 DEF RegistryShape, NoClose
  <2>9. KeyInv'
    <3>1. \A a \in Adapters : peers'[a] # 0 =>
            sess'[peers'[a]].phase \in {"stored", "open"} /\ KeyOf(peers[a])' = a
      <4> SUFFICES ASSUME NEW a \in Adapters, peers[a] # 0
                   PROVE  /\ sess'[peers[a]].phase \in {"stored", "open"}
                          /\ DialOf[sess'[peers[a]].conn] = a
        BY <2>2 DEF KeyOf
      <4>1. sess'[peers[a]] = sess[peers[a]]
        BY <2>6, <2>7
      <4> QED  BY <2>1, <4>1 DEF KeyInv, KeyOf
    <3>2. \A x \in Dials : /\ x > dialed' => sess'[x].phase = "none"
                           /\ sess'[x].phase # "none" => sess'[x].conn \in Conns
      BY <2>1, <2>2, <2>6 DEF KeyInv
    <3> QED  BY <3>1, <3>2 DEF KeyInv
  <2>10. WaitInv'
    BY <2>1, <2>2, <2>6, <2>7 DEF WaitInv, WaiterNotForgotten
  <2>11. OwnedInv'
    <3> SUFFICES ASSUME NEW x \in Dials, sess'[x].phase \in {"stored", "open"},
                        ~sess'[x].closed
                 PROVE  \/ ~stopped' /\ Registered(x)'
                        \/ closeReq'.exact /\ closeReq'.dial = x
                        \/ \E n \in Dials : sess'[n].phase = "stored" /\ sess'[n].old = x
      BY DEF OwnedInv
    <3>1. x # d /\ sess'[x] = sess[x]
      BY <2>6
    <3>2. \/ ~stopped /\ Registered(x)
          \/ closeReq.exact /\ closeReq.dial = x
          \/ \E n \in Dials : sess[n].phase = "stored" /\ sess[n].old = x
      BY <2>1, <3>1 DEF OwnedInv
    <3>3. \A n \in Dials : sess[n].phase = "stored" => sess'[n] = sess[n]
      BY <2>2, <2>6
    <3> QED  BY <2>2, <3>2, <3>3 DEF Registered
  <2> QED  BY <2>8, <2>9, <2>10, <2>11 DEF RegistryInv
<1> QED  BY <1>1, <1>2

\* The rest of the accept closes what it replaced and wakes whoever it can
\* serve; a waiter that came after the store has looked at this session.
LEMMA RegistryAccept ==
  ASSUME RegistryInv, NEW d \in Dials, AcceptPeer(d)
  PROVE  RegistryInv'
<1> DEFINE r == [sess[d] EXCEPT !.phase = "open", !.old = 0, !.owed = {}]
           ss == [sess EXCEPT ![d] = r]
           o == sess[d].old
           ws == sess[d].owed \cup RoutedWaiters(d)
<1>1. RegistryShape /\ KeyInv /\ WaitInv /\ OwnedInv
  BY DEF RegistryInv
<1>2. /\ sess[d].phase = "stored" /\ alive' = alive \ {o} /\ wait' = Wake(ws, d)
      /\ sess' = Closed([sess EXCEPT ![d].phase = "open", ![d].old = 0, ![d].owed = {}], o)
      /\ UNCHANGED <<dialed, peers, closeReq, stopped>>
  BY DEF AcceptPeer
<1>3. sess[d] \in DialedType /\ o \in 0..MaxDials /\ 0 \in 0..MaxDials
  BY <1>1, BoundFacts DEF RegistryShape, DialedType
<1>4. /\ r \in DialedType /\ r.phase = "open" /\ r.old = 0
      /\ r.conn = sess[d].conn /\ r.closed = sess[d].closed
  BY <1>3 DEF DialedType
<1>5. [sess EXCEPT ![d].phase = "open", ![d].old = 0, ![d].owed = {}] = ss
  BY <1>1 DEF RegistryShape, DialedType
<1>6. ss \in [Dials -> DialedType] /\ ss[d] = r /\ \A x \in Dials : x # d => ss[x] = sess[x]
  BY <1>1, <1>4 DEF RegistryShape
<1> HIDE DEF r, ss
<1>7. /\ sess' \in [Dials -> DialedType]
      /\ \A x \in Dials : /\ sess'[x].phase = IF x = d THEN "open" ELSE sess[x].phase
                          /\ sess'[x].conn = sess[x].conn
                          /\ sess'[x].old = IF x = d THEN 0 ELSE sess[x].old
                          /\ sess'[x].closed = (sess[x].closed \/ x = o)
  <2>1. sess' = Closed(ss, o)
    BY <1>2, <1>5
  <2> QED  BY <1>3, <1>4, <1>6, <2>1, ClosedFacts
<1>8. \A a \in Adapters : peers[a] # 0 =>
        peers[a] \in Dials /\ sess[peers[a]].phase \in {"stored", "open"}
  BY RegisteredFacts
<1>9. \A w \in Waiters : /\ wait'[w] \in WaitType
                         /\ wait'[w].state = "waiting" => wait'[w] = wait[w] /\ w \notin ws
  <2> TAKE w \in Waiters
  <2>1. wait[w] \in WaitType /\ d \in 0..MaxDials /\ 0 \in 0..MaxDials
    BY <1>1, BoundFacts DEF RegistryShape
  <2>2. wait'[w] = IF w \in ws /\ wait[w].state \in {"waiting", "taken"}
                   THEN [state |-> "held", stale |-> 0, handle |-> d] ELSE wait[w]
    BY <1>2 DEF Wake
  <2> QED  BY <2>1, <2>2 DEF WaitType
<1>10. RegistryShape'
  <2>1. wait' \in [Waiters -> WaitType]
    BY <1>2, <1>9 DEF Wake
  <2> QED  BY <1>1, <1>2, <1>7, <2>1 DEF RegistryShape, NoClose
<1>11. KeyInv'
  <2>1. \A a \in Adapters : peers'[a] # 0 =>
          sess'[peers'[a]].phase \in {"stored", "open"} /\ KeyOf(peers[a])' = a
    <3> SUFFICES ASSUME NEW a \in Adapters, peers[a] # 0
                 PROVE  /\ sess'[peers[a]].phase \in {"stored", "open"}
                        /\ DialOf[sess'[peers[a]].conn] = a
      BY <1>2 DEF KeyOf
    <3> QED  BY <1>1, <1>7, <1>8 DEF KeyInv, KeyOf
  <2>2. \A x \in Dials : /\ x > dialed' => sess'[x].phase = "none"
                         /\ sess'[x].phase # "none" => sess'[x].conn \in Conns
    BY <1>1, <1>2, <1>7 DEF KeyInv
  <2> QED  BY <2>1, <2>2 DEF KeyInv
<1>12. WaitInv'
  <2>1. \A w \in Waiters : wait'[w].state = "waiting" =>
          peers'[WantOf[w]] \in {0, wait'[w].stale}
    BY <1>1, <1>2, <1>9 DEF WaitInv
  <2>2. ASSUME NEW w \in Waiters, NEW a \in Adapters,
               wait'[w].state = "waiting", peers'[a] # 0, sess'[peers'[a]].phase = "open"
        PROVE  peers'[a] = wait'[w].stale
    <3>1. wait'[w] = wait[w] /\ w \notin ws /\ peers'[a] = peers[a] /\ peers[a] \in Dials
      BY <1>2, <1>8, <1>9, <2>2
    <3>2. CASE peers[a] # d
      BY <1>1, <1>7, <2>2, <3>1, <3>2 DEF WaitInv, WaiterNotForgotten
    <3>3. CASE peers[a] = d
      <4>1. KeyOf(d) = a
        BY <1>1, <2>2, <3>1, <3>3 DEF KeyInv
      <4>2. WantOf[w] = a
        BY <2>2, <3>1, <4>1, PeerAssumption DEF RoutedWaiters, Waiting
      <4> QED  BY <1>1, <2>2, <3>1, <4>2 DEF WaitInv
    <3> QED  BY <3>2, <3>3
  <2> QED  BY <2>1, <2>2 DEF WaitInv, WaiterNotForgotten
<1>13. OwnedInv'
  <2> SUFFICES ASSUME NEW x \in Dials, sess'[x].phase \in {"stored", "open"}, ~sess'[x].closed
               PROVE  \/ ~stopped' /\ Registered(x)'
                      \/ closeReq'.exact /\ closeReq'.dial = x
                      \/ \E n \in Dials : sess'[n].phase = "stored" /\ sess'[n].old = x
    BY DEF OwnedInv
  <2>1. x # o /\ ~sess[x].closed /\ sess[x].phase \in {"stored", "open"}
    BY <1>2, <1>7
  <2>2. \/ ~stopped /\ Registered(x)
        \/ closeReq.exact /\ closeReq.dial = x
        \/ \E n \in Dials : sess[n].phase = "stored" /\ sess[n].old = x
    BY <1>1, <2>1 DEF OwnedInv
  <2>3. \A n \in Dials : sess[n].old = x => n # d
    BY <2>1
  <2> QED  BY <1>2, <1>7, <2>2, <2>3 DEF Registered
<1> QED  BY <1>10, <1>11, <1>12, <1>13 DEF RegistryInv

\* Only the waits have changed.
LEMMA RegistryWaits ==
  ASSUME RegistryInv, UNCHANGED <<alive, dialed, sess, peers, closeReq, stopped>>,
         NEW w \in Waiters, NEW v \in WaitType, wait' = [wait EXCEPT ![w] = v],
         v.state = "waiting" => \A a \in Adapters : peers[a] \in {0, v.stale}
  PROVE  RegistryInv'
<1>1. RegistryShape /\ KeyInv /\ WaitInv /\ OwnedInv
  BY DEF RegistryInv
<1>2. /\ wait'[w] = v /\ wait' \in [Waiters -> WaitType]
      /\ \A u \in Waiters : u # w => wait'[u] = wait[u]
  BY <1>1 DEF RegistryShape
<1>3. RegistryShape' /\ KeyInv' /\ OwnedInv'
  BY <1>1, <1>2 DEF RegistryShape, KeyInv, KeyOf, OwnedInv, Registered, NoClose
<1>4. WaitInv'
  BY <1>1, <1>2, PeerAssumption DEF WaitInv, WaiterNotForgotten
<1> QED  BY <1>3, <1>4 DEF RegistryInv

LEMMA RegistryWaitSteps ==
  ASSUME RegistryInv, NEW w \in Waiters,
         WaitForFreshHandle(w) \/ HandleFound(w) \/ WaitEnds(w)
  PROVE  RegistryInv'
<1> DEFINE idle == [state |-> "idle", stale |-> 0, handle |-> 0]
           handle == wait[w].handle
<1>1. /\ wait[w] \in WaitType /\ handle \in 0..MaxDials /\ 0 \in 0..MaxDials
      /\ stopped \in BOOLEAN
  BY BoundFacts DEF RegistryInv, RegistryShape, WaitType
<1>2. idle \in WaitType /\ idle.state = "idle"
  BY <1>1 DEF WaitType
<1>3. CASE WaitEnds(w)
  BY <1>2, <1>3, RegistryWaits DEF WaitEnds, netVars
<1>4. CASE HandleFound(w)
  <2>1. PICK d \in Candidates(WantOf[w], handle) :
          wait' = [wait EXCEPT ![w] = [state |-> "held", stale |-> 0, handle |-> d]]
    BY <1>4 DEF HandleFound
  <2>2. d \in 0..MaxDials
    BY <2>1, PeerAssumption DEF Candidates, RegistryInv, RegistryShape
  <2>3. [state |-> "held", stale |-> 0, handle |-> d] \in WaitType
    BY <1>1, <2>2 DEF WaitType
  <2> QED  BY <1>4, <2>1, <2>3, RegistryWaits DEF HandleFound, netVars
<1>5. CASE WaitForFreshHandle(w)
  <2>1. UNCHANGED <<alive, dialed, sess, peers, closeReq, stopped>>
    BY <1>5 DEF WaitForFreshHandle, netVars
  <2>2. CASE stopped
    BY <1>2, <1>5, <2>1, <2>2, RegistryWaits DEF WaitForFreshHandle
  <2>3. CASE ~stopped
    <3> DEFINE v == [state |-> "waiting", stale |-> handle, handle |-> 0]
    <3>1. wait' = [wait EXCEPT ![w] = v] /\ Candidates(WantOf[w], handle) = {}
      BY <1>5, <2>3 DEF WaitForFreshHandle
    <3>2. v \in WaitType /\ v.stale = handle
      BY <1>1 DEF WaitType
    <3>3. \A a \in Adapters : peers[a] \in {0, handle}
      BY <3>1, PeerAssumption DEF Candidates
    <3> QED  BY <2>1, <3>1, <3>2, <3>3, RegistryWaits
  <2> QED  BY <1>1, <2>2, <2>3
<1> QED  BY <1>3, <1>4, <1>5

\* Closing a session that leaves the registry: it is owned by nobody, and
\* needs no owner.
LEMMA RegistryCloses ==
  ASSUME RegistryInv, NEW d \in Dials, sess' = Closed(sess, d),
         alive' \subseteq Dials, dialed' = dialed, wait' = wait, stopped' = stopped,
         peers' \in [Adapters -> 0..MaxDials],
         \A a \in Adapters : peers'[a] = peers[a] \/ (peers'[a] = 0 /\ peers[a] = d),
         \/ closeReq' = closeReq
         \/ closeReq' = NoClose /\ (closeReq.exact => closeReq.dial = d)
  PROVE  RegistryInv'
<1>1. RegistryShape /\ KeyInv /\ WaitInv /\ OwnedInv
  BY DEF RegistryInv
<1>2. /\ sess' \in [Dials -> DialedType]
      /\ \A x \in Dials : /\ sess'[x].phase = sess[x].phase
                          /\ sess'[x].conn = sess[x].conn
                          /\ sess'[x].old = sess[x].old
                          /\ sess'[x].closed = (sess[x].closed \/ x = d)
  BY <1>1, ClosedFacts, BoundFacts DEF RegistryShape
<1>3. \A a \in Adapters : peers[a] # 0 =>
        peers[a] \in Dials /\ sess[peers[a]].phase \in {"stored", "open"}
  BY RegisteredFacts
<1>4. RegistryShape'
  BY <1>1, <1>2 DEF RegistryShape, NoClose
<1>5. KeyInv'
  <2>1. \A a \in Adapters : peers'[a] # 0 =>
          sess'[peers'[a]].phase \in {"stored", "open"} /\ KeyOf(peers[a])' = a
    <3> SUFFICES ASSUME NEW a \in Adapters, peers'[a] # 0
                 PROVE  /\ sess'[peers'[a]].phase \in {"stored", "open"}
                        /\ DialOf[sess'[peers'[a]].conn] = a
      BY DEF KeyOf
    <3>1. peers'[a] = peers[a]
      OBVIOUS
    <3> QED  BY <1>1, <1>2, <1>3, <3>1 DEF KeyInv, KeyOf
  <2>2. \A x \in Dials : /\ x > dialed' => sess'[x].phase = "none"
                         /\ sess'[x].phase # "none" => sess'[x].conn \in Conns
    BY <1>1, <1>2 DEF KeyInv
  <2> QED  BY <2>1, <2>2 DEF KeyInv
<1>6. WaitInv'
  <2>1. \A w \in Waiters : wait'[w].state = "waiting" =>
          peers'[WantOf[w]] \in {0, wait'[w].stale}
    BY <1>1, PeerAssumption DEF WaitInv
  <2>2. ASSUME NEW w \in Waiters, NEW a \in Adapters,
               wait'[w].state = "waiting", peers'[a] # 0, sess'[peers'[a]].phase = "open"
        PROVE  peers'[a] = wait'[w].stale
    <3>1. peers'[a] = peers[a] /\ peers[a] \in Dials
      BY <1>3, <2>2
    <3> QED  BY <1>1, <1>2, <2>2, <3>1 DEF WaitInv, WaiterNotForgotten
  <2> QED  BY <2>1, <2>2 DEF WaitInv, WaiterNotForgotten
<1>7. OwnedInv'
  <2> SUFFICES ASSUME NEW x \in Dials, sess'[x].phase \in {"stored", "open"}, ~sess'[x].closed
               PROVE  \/ ~stopped' /\ Registered(x)'
                      \/ closeReq'.exact /\ closeReq'.dial = x
                      \/ \E n \in Dials : sess'[n].phase = "stored" /\ sess'[n].old = x
    BY DEF OwnedInv
  <2>1. x # d /\ ~sess[x].closed /\ sess[x].phase \in {"stored", "open"}
    BY <1>2
  <2>2. \/ ~stopped /\ Registered(x)
        \/ closeReq.exact /\ closeReq.dial = x
        \/ \E n \in Dials : sess[n].phase = "stored" /\ sess[n].old = x
    BY <1>1, <2>1 DEF OwnedInv
  <2>3. Registered(x) => Registered(x)'
    BY <2>1 DEF Registered
  <2> QED  BY <1>2, <2>1, <2>2, <2>3
<1> QED  BY <1>4, <1>5, <1>6, <1>7 DEF RegistryInv

\* A stream that failed takes its own session out, and no other.
LEMMA RegistrySuperviseFails ==
  ASSUME RegistryInv, NEW d \in Dials, SuperviseFails(d)
  PROVE  RegistryInv'
<1>1. /\ sess' = Closed(sess, d)
      /\ peers' = [a \in Adapters |-> IF peers[a] = d THEN 0 ELSE peers[a]]
      /\ UNCHANGED <<alive, dialed, wait, closeReq, stopped>>
  BY DEF SuperviseFails, netVars
<1>2. alive \subseteq Dials /\ peers \in [Adapters -> 0..MaxDials] /\ 0 \in 0..MaxDials
  BY BoundFacts DEF RegistryInv, RegistryShape
<1>3. peers' \in [Adapters -> 0..MaxDials]
  BY <1>1, <1>2
<1> QED  BY <1>1, <1>2, <1>3, RegistryCloses

\* A CloseHandle that takes a session out of the registry has it in its hands.
LEMMA RegistryCloseHandle ==
  ASSUME RegistryInv, NEW a \in Adapters, CloseHandle(a)
  PROVE  RegistryInv'
<1>1. RegistryShape /\ KeyInv /\ WaitInv /\ OwnedInv
  BY DEF RegistryInv
<1>2. PICK d \in (IF peers[a] # 0 THEN {peers[a]} ELSE {peers[b] : b \in Adapters} \ {0}) :
        closeReq' = [dial |-> d, adapter |-> a, exact |-> peers[a] # 0]
  BY DEF CloseHandle
<1>3. /\ closeReq = NoClose /\ ~stopped /\ peers' = [peers EXCEPT ![a] = 0]
      /\ UNCHANGED <<alive, dialed, sess, wait, stopped>>
  BY DEF CloseHandle, netVars
<1>4. d \in Dials /\ closeReq'.dial = d /\ closeReq'.exact = (peers[a] # 0)
  BY <1>2, RegisteredFacts
<1>5. /\ peers' \in [Adapters -> 0..MaxDials] /\ peers'[a] = 0
      /\ \A b \in Adapters : b # a => peers'[b] = peers[b]
  BY <1>1, <1>3, BoundFacts DEF RegistryShape
<1>6. RegistryShape'
  BY <1>1, <1>3, <1>4, <1>5 DEF RegistryShape
<1>7. KeyInv'
  <2>1. \A b \in Adapters : peers'[b] # 0 =>
          sess'[peers'[b]].phase \in {"stored", "open"} /\ KeyOf(peers[b])' = b
    BY <1>1, <1>3, <1>5 DEF KeyInv, KeyOf
  <2> QED  BY <1>1, <1>3, <2>1 DEF KeyInv
<1>8. WaitInv'
  BY <1>1, <1>3, <1>5, PeerAssumption DEF WaitInv, WaiterNotForgotten
<1>9. OwnedInv'
  <2> SUFFICES ASSUME NEW x \in Dials, sess[x].phase \in {"stored", "open"}, ~sess[x].closed
               PROVE  \/ ~stopped' /\ Registered(x)'
                      \/ closeReq'.exact /\ closeReq'.dial = x
                      \/ \E n \in Dials : sess'[n].phase = "stored" /\ sess'[n].old = x
    BY <1>3 DEF OwnedInv
  <2>1. \/ Registered(x)
        \/ closeReq.exact /\ closeReq.dial = x
        \/ \E n \in Dials : sess[n].phase = "stored" /\ sess[n].old = x
    BY <1>1 DEF OwnedInv
  <2>2. CASE Registered(x)
    <3>1. PICK b \in Adapters : peers[b] = x
      BY <2>2 DEF Registered
    <3>2. CASE b = a
      <4>1. peers[a] = x /\ x # 0
        BY <3>1, <3>2 DEF Dials
      <4> QED  BY <1>2, <1>4, <4>1
    <3>3. CASE b # a
      BY <1>3, <1>5, <3>1, <3>3 DEF Registered
    <3> QED  BY <3>2, <3>3
  <2>3. CASE closeReq.exact /\ closeReq.dial = x
    BY <1>3, <2>3 DEF NoClose
  <2> QED  BY <1>3, <2>1, <2>2, <2>3
<1> QED  BY <1>6, <1>7, <1>8, <1>9 DEF RegistryInv

LEMMA RegistryCloseHandleEnds ==
  ASSUME RegistryInv, CloseHandleEnds
  PROVE  RegistryInv'
<1>1. /\ closeReq # NoClose /\ closeReq' = NoClose
      /\ sess' = (IF closeReq.exact THEN Closed(sess, closeReq.dial) ELSE sess)
      /\ alive' = (IF closeReq.exact THEN alive \ {closeReq.dial} ELSE alive)
      /\ UNCHANGED <<dialed, peers, wait, stopped>>
  BY DEF CloseHandleEnds
<1>2. /\ closeReq.dial \in Dials /\ closeReq.exact \in BOOLEAN /\ alive \subseteq Dials
      /\ sess \in [Dials -> DialedType] /\ peers \in [Adapters -> 0..MaxDials]
  BY <1>1 DEF RegistryInv, RegistryShape
<1>3. CASE closeReq.exact
  BY <1>1, <1>2, <1>3, RegistryCloses
<1>4. CASE ~closeReq.exact
  <2>1. RegistryShape /\ KeyInv /\ WaitInv /\ OwnedInv
    BY DEF RegistryInv
  <2>2. UNCHANGED <<alive, sess>>
    BY <1>1, <1>4
  <2>3. RegistryShape' /\ KeyInv' /\ WaitInv'
    BY <1>1, <2>1, <2>2 DEF RegistryShape, KeyInv, KeyOf, WaitInv, WaiterNotForgotten, NoClose
  <2>4. OwnedInv'
    BY <1>1, <1>4, <2>1, <2>2 DEF OwnedInv, Registered
  <2> QED  BY <2>3, <2>4 DEF RegistryInv
<1> QED  BY <1>2, <1>3, <1>4

\* The stop closes everything that is registered.
LEMMA RegistryStop ==
  ASSUME RegistryInv, StopPeers
  PROVE  RegistryInv'
<1> DEFINE idle == [state |-> "idle", stale |-> 0, handle |-> 0]
<1>1. RegistryShape /\ KeyInv /\ WaitInv /\ OwnedInv
  BY DEF RegistryInv
<1>2. /\ stopped' = TRUE /\ alive' \subseteq alive
      /\ sess' = [d \in Dials |-> IF Registered(d) THEN Closed(sess, d)[d] ELSE sess[d]]
      /\ peers' = [a \in Adapters |-> 0]
      /\ wait' = [w \in Waiters |-> IF wait[w].state = "waiting" THEN idle ELSE wait[w]]
      /\ UNCHANGED <<dialed, closeReq>>
  BY DEF StopPeers
<1>3. \A x \in Dials : /\ sess'[x] \in DialedType
                       /\ sess'[x].phase = sess[x].phase
                       /\ sess'[x].conn = sess[x].conn
                       /\ sess'[x].old = sess[x].old
                       /\ ~sess'[x].closed => ~Registered(x) /\ ~sess[x].closed
  <2> TAKE x \in Dials
  <2>1. sess \in [Dials -> DialedType] /\ x \in 0..MaxDials
    BY <1>1, BoundFacts DEF RegistryShape
  <2>2. CASE Registered(x)
    <3>1. sess'[x] = Closed(sess, x)[x]
      BY <1>2, <2>2
    <3>2. /\ Closed(sess, x) \in [Dials -> DialedType]
          /\ Closed(sess, x)[x].phase = sess[x].phase
          /\ Closed(sess, x)[x].conn = sess[x].conn
          /\ Closed(sess, x)[x].old = sess[x].old
          /\ Closed(sess, x)[x].closed = TRUE
      BY <2>1, ClosedFacts
    <3> QED  BY <3>1, <3>2
  <2>3. CASE ~Registered(x)
    BY <1>2, <2>1, <2>3
  <2> QED  BY <2>2, <2>3
<1>4. \A w \in Waiters : wait'[w] \in WaitType /\ wait'[w].state # "waiting"
  <2> TAKE w \in Waiters
  <2>1. wait[w] \in WaitType /\ 0 \in 0..MaxDials
    BY <1>1, BoundFacts DEF RegistryShape
  <2> QED  BY <1>2, <2>1 DEF WaitType
<1>5. RegistryShape'
  <2>1. sess' \in [Dials -> DialedType]
    BY <1>2, <1>3
  <2>2. wait' \in [Waiters -> WaitType]
    BY <1>2, <1>4
  <2>3. peers' \in [Adapters -> 0..MaxDials]
    BY <1>2, BoundFacts
  <2> QED  BY <1>1, <1>2, <2>1, <2>2, <2>3 DEF RegistryShape, NoClose
<1>6. KeyInv'
  BY <1>1, <1>2, <1>3 DEF KeyInv
<1>7. WaitInv'
  BY <1>4 DEF WaitInv, WaiterNotForgotten
<1>8. OwnedInv'
  <2> SUFFICES ASSUME NEW x \in Dials, sess'[x].phase \in {"stored", "open"}, ~sess'[x].closed
               PROVE  \/ closeReq'.exact /\ closeReq'.dial = x
                      \/ \E n \in Dials : sess'[n].phase = "stored" /\ sess'[n].old = x
    BY DEF OwnedInv
  <2>1. \/ closeReq.exact /\ closeReq.dial = x
        \/ \E n \in Dials : sess[n].phase = "stored" /\ sess[n].old = x
    BY <1>1, <1>3 DEF OwnedInv
  <2> QED  BY <1>2, <1>3, <2>1
<1> QED  BY <1>5, <1>6, <1>7, <1>8 DEF RegistryInv

-----------------------------------------------------------------------------
(* What the sessions have read.                                            *)

Unread(s) == s.lastSeq = 0 /\ s.verdict = NewSession.verdict

\* What a session has read stays true while the journal only grows, and a
\* session that has read nothing has misread nothing.
LEMMA ReadKept ==
  ASSUME ReadInv, RegistryShape, PeerShape,
         Len(events') \in Nat, Len(events) <= Len(events'),
         \A i \in 1..Len(events) : events'[i] = events[i],
         \A d \in alive' :
           \/ d \in alive /\ sess'[d].lastSeq = sess[d].lastSeq /\ sess'[d].verdict = sess[d].verdict
           \/ Unread(sess[d])'
  PROVE  ReadInv'
<1>1. Len(events) \in Nat
  BY DEF PeerShape
<1>2. JournalLimit \in Nat
  BY BoundFacts
<1> SUFFICES ASSUME NEW d \in alive'
             PROVE  /\ sess'[d].lastSeq <= Len(events')
                    /\ \A a \in Adapters :
                         sess'[d].verdict[a] = "crash" => Said("crash", a, Len(events))'
                    /\ Len(events') <= JournalLimit => \A i \in 1..sess'[d].lastSeq :
                         /\ sess'[d].verdict[events'[i].adapter] # "none"
                         /\ events'[i].kind = "crash" =>
                             sess'[d].verdict[events'[i].adapter] = "crash"
  BY DEF ReadInv
<1>3. CASE d \in alive /\ sess'[d].lastSeq = sess[d].lastSeq /\ sess'[d].verdict = sess[d].verdict
  <2>1. sess[d].lastSeq \in Nat
    BY <1>3 DEF RegistryShape, DialedType
  <2>2. /\ sess[d].lastSeq <= Len(events)
        /\ \A a \in Adapters : sess[d].verdict[a] = "crash" => Said("crash", a, Len(events))
        /\ Len(events) <= JournalLimit => \A i \in 1..sess[d].lastSeq :
             /\ sess[d].verdict[events[i].adapter] # "none"
             /\ events[i].kind = "crash" => sess[d].verdict[events[i].adapter] = "crash"
    BY <1>3 DEF ReadInv
  <2>3. \A a \in Adapters : sess'[d].verdict[a] = "crash" => Said("crash", a, Len(events))'
    BY <1>1, <1>3, <2>2, SaidStays
  <2>4. \A i \in 1..sess'[d].lastSeq : i \in 1..Len(events)
    BY <1>1, <1>3, <2>1, <2>2
  <2> QED  BY <1>1, <1>2, <1>3, <2>1, <2>2, <2>3, <2>4
<1>4. CASE Unread(sess[d])'
  BY <1>1, <1>4 DEF Unread, NewSession
<1> QED  BY <1>3, <1>4

\* The next event of a stream: the first that the ring still holds, which is
\* the next one if none was ever forgotten.
LEMMA NextEvent ==
  ASSUME PeerShape, NEW since \in Nat, Replay(since) # {},
         NEW i, i = CHOOSE k \in Replay(since) : \A j \in Replay(since) : k <= j
  PROVE  /\ i \in 1..Len(events) /\ i > since
         /\ Len(events) <= JournalLimit => i = since + 1
<1> DEFINE low == IF since > Len(events) - JournalLimit THEN since + 1
                  ELSE Len(events) - JournalLimit + 1
<1>1. Len(events) \in Nat /\ JournalLimit \in Nat
  BY BoundFacts DEF PeerShape
<1>2. PICK k \in 1..Len(events) : k > since /\ k > Len(events) - JournalLimit
  BY DEF Replay, Retained
<1>3. low \in Replay(since) /\ \A j \in Replay(since) : low <= j
  BY <1>1, <1>2 DEF Replay, Retained
<1>4. i \in Replay(since) /\ \A j \in Replay(since) : i <= j
  BY <1>3
<1>5. i = low
  BY <1>1, <1>3, <1>4 DEF Replay, Retained
<1> QED  BY <1>1, <1>3, <1>4, <1>5 DEF Replay, Retained

\* One event is read, and the verdict on its adapter is brought up to date.
LEMMA ReadApplies ==
  ASSUME PeerInv, ReadInv, RegistryInv, NEW d \in Dials, ApplySupervisionEvent(d)
  PROVE  ReadInv' /\ RegistryInv'
<1> DEFINE s == sess[d]
           i == CHOOSE i \in Replay(s.lastSeq) : \A j \in Replay(s.lastSeq) : i <= j
           b == events[i].adapter
           vd == [s.verdict EXCEPT ![b] = Verdict(s.verdict[b], events[i])]
           r == [s EXCEPT !.lastSeq = i, !.verdict = vd]
<1>1. RegistryShape /\ PeerShape
  BY DEF RegistryInv, PeerInv
<1>2. /\ s \in DialedType /\ s.lastSeq \in Nat
      /\ s.verdict \in [Adapters -> {"none", "exited", "crash"}]
  BY <1>1 DEF RegistryShape, DialedType
<1>3. /\ d \in alive /\ Replay(s.lastSeq) # {}
      /\ sess' = [sess EXCEPT ![d].lastSeq = i, ![d].verdict[b] = Verdict(@, events[i])]
      /\ UNCHANGED <<events, alive, dialed, peers, wait, closeReq, stopped>>
  BY DEF ApplySupervisionEvent, netVars, peerVars
<1>4. /\ i \in 1..Len(events) /\ i > s.lastSeq
      /\ Len(events) <= JournalLimit => i = s.lastSeq + 1
  BY <1>1, <1>2, <1>3, NextEvent
<1>5. events[i] \in EventType /\ b \in Adapters
  BY <1>1, <1>4, EventTyped
<1>6. i \in Nat /\ Len(events) \in Nat
  BY <1>1, <1>4 DEF PeerShape
<1> HIDE DEF i
<1>7. Verdict(s.verdict[b], events[i]) \in {"none", "exited", "crash"}
  BY <1>2, <1>5 DEF Verdict
<1>8. /\ vd \in [Adapters -> {"none", "exited", "crash"}]
      /\ vd[b] = Verdict(s.verdict[b], events[i])
      /\ \A a \in Adapters : a # b => vd[a] = s.verdict[a]
  BY <1>2, <1>5, <1>7
<1>9. sess' = [sess EXCEPT ![d] = r]
  BY <1>1, <1>2, <1>3 DEF RegistryShape, DialedType
<1> HIDE DEF vd
<1>10. /\ r \in DialedType /\ r.lastSeq = i /\ r.verdict = vd /\ r.phase = s.phase
       /\ r.conn = s.conn /\ r.old = s.old /\ r.closed = s.closed
  BY <1>2, <1>6, <1>8 DEF DialedType
<1> HIDE DEF r
<1>11. /\ sess'[d] = r /\ sess' \in [Dials -> DialedType]
       /\ \A x \in Dials : x # d => sess'[x] = sess[x]
  BY <1>1, <1>9, <1>10 DEF RegistryShape
<1>12. RegistryInv'
  <2>1. alive \subseteq Dials
    BY <1>1 DEF RegistryShape
  <2>2. \A x \in Dials : /\ sess'[x].phase = sess[x].phase
                         /\ sess'[x].conn = sess[x].conn
                         /\ sess'[x].old = sess[x].old
                         /\ sess'[x].closed = sess[x].closed
    BY <1>10, <1>11
  <2> QED  BY <1>3, <1>11, <2>1, <2>2, RegistryQuiet
<1>13. /\ s.lastSeq <= Len(events)
       /\ \A a \in Adapters : s.verdict[a] = "crash" => Said("crash", a, Len(events))
       /\ Len(events) <= JournalLimit => \A j \in 1..s.lastSeq :
            /\ s.verdict[events[j].adapter] # "none"
            /\ events[j].kind = "crash" => s.verdict[events[j].adapter] = "crash"
  BY <1>3 DEF ReadInv
<1>14. \A a \in Adapters : vd[a] = "crash" => Said("crash", a, Len(events))
  <2> SUFFICES ASSUME NEW a \in Adapters, vd[a] = "crash"
               PROVE  Said("crash", a, Len(events))
    OBVIOUS
  <2>1. CASE s.verdict[a] = "crash"
    BY <1>13, <2>1
  <2>2. CASE s.verdict[a] # "crash"
    <3>1. a = b /\ events[i].kind = "crash"
      BY <1>8, <2>2 DEF Verdict
    <3>2. events[i] = Event("crash", a)
      BY <1>5, <3>1 DEF EventType, Event
    <3> QED  BY <1>4, <3>2 DEF Said
  <2> QED  BY <2>1, <2>2
<1>15. Len(events) <= JournalLimit => \A j \in 1..i :
         /\ vd[events[j].adapter] # "none"
         /\ events[j].kind = "crash" => vd[events[j].adapter] = "crash"
  <2> SUFFICES ASSUME Len(events) <= JournalLimit, NEW j \in 1..i
               PROVE  /\ vd[events[j].adapter] # "none"
                      /\ events[j].kind = "crash" => vd[events[j].adapter] = "crash"
    OBVIOUS
  <2>1. j \in 1..Len(events)
    BY <1>4, <1>6
  <2>2. events[j].adapter \in Adapters
    BY <1>1, <2>1, EventTyped
  <2>3. CASE j = i
    BY <1>2, <1>5, <1>8, <2>3 DEF Verdict, EventType
  <2>4. CASE j # i
    <3>1. j \in 1..s.lastSeq
      BY <1>2, <1>4, <1>6, <2>4
    <3>2. /\ s.verdict[events[j].adapter] # "none"
          /\ events[j].kind = "crash" => s.verdict[events[j].adapter] = "crash"
      BY <1>13, <3>1
    <3>3. CASE events[j].adapter = b
      BY <1>2, <1>5, <1>8, <3>2, <3>3 DEF Verdict
    <3>4. CASE events[j].adapter # b
      BY <1>8, <2>2, <3>2, <3>4
    <3> QED  BY <3>3, <3>4
  <2> QED  BY <2>3, <2>4
<1>16. ReadInv'
  <2>0. events' = events /\ alive' = alive
        /\ \A a \in Adapters : Said("crash", a, Len(events))' = Said("crash", a, Len(events))
    BY <1>3 DEF Said
  <2> SUFFICES ASSUME NEW x \in alive
               PROVE  /\ sess'[x].lastSeq <= Len(events)
                      /\ \A a \in Adapters :
                           sess'[x].verdict[a] = "crash" => Said("crash", a, Len(events))
                      /\ Len(events) <= JournalLimit => \A j \in 1..sess'[x].lastSeq :
                           /\ sess'[x].verdict[events[j].adapter] # "none"
                           /\ events[j].kind = "crash" =>
                               sess'[x].verdict[events[j].adapter] = "crash"
    BY <2>0 DEF ReadInv
  <2>1. CASE x = d
    BY <1>4, <1>6, <1>10, <1>11, <1>14, <1>15, <2>1
  <2>2. CASE x # d
    <3>1. x \in Dials /\ sess'[x] = sess[x]
      BY <1>1, <1>11, <2>2 DEF RegistryShape
    <3> QED  BY <3>1 DEF ReadInv
  <2> QED  BY <2>1, <2>2
<1> QED  BY <1>12, <1>16

-----------------------------------------------------------------------------
(* Both sides together.                                                    *)

\* A step of the peer leaves the registry alone, and its journal only grows.
LEMMA LinkPeerStep ==
  ASSUME LinkInv, PeerInv', UNCHANGED <<netVars, registryVars>>,
         \/ events' = events
         \/ \E k \in {"exited", "crash"}, a \in Adapters : Append1(k, a)
  PROVE  LinkInv'
<1>1. PeerShape /\ ReadInv /\ RegistryInv /\ RegistryShape
  BY DEF LinkInv, PeerInv, RegistryInv
<1>2. UNCHANGED <<alive, dialed, sess, peers, wait, closeReq, stopped>>
  BY DEF netVars, registryVars
<1>3. /\ Len(events') \in Nat /\ Len(events) <= Len(events')
      /\ \A i \in 1..Len(events) : events'[i] = events[i]
  <2>1. CASE events' = events
    BY <1>1, <2>1 DEF PeerShape
  <2>2. CASE \E k \in {"exited", "crash"}, a \in Adapters : Append1(k, a)
    BY <1>1, <2>2, JournalGrows
  <2> QED  BY <2>1, <2>2
<1>4. ReadInv'
  BY <1>1, <1>2, <1>3, ReadKept
<1>5. RegistryInv'
  BY <1>1, <1>2, RegistryQuiet DEF RegistryShape
<1> QED  BY <1>4, <1>5 DEF LinkInv

\* A step of the host reads the journal, if at all, by ApplySupervisionEvent.
LEMMA LinkHostStep ==
  ASSUME LinkInv, RegistryInv', PeerInv', events' = events,
         \A d \in alive' :
           \/ d \in alive /\ sess'[d].lastSeq = sess[d].lastSeq /\ sess'[d].verdict = sess[d].verdict
           \/ Unread(sess[d])'
  PROVE  LinkInv'
<1>1. PeerShape /\ ReadInv /\ RegistryShape
  BY DEF LinkInv, PeerInv, RegistryInv
<1>2. Len(events) \in Nat
  BY <1>1 DEF PeerShape
<1>3. ReadInv'
  BY <1>1, <1>2, ReadKept
<1> QED  BY <1>3 DEF LinkInv

LEMMA LinkInitially == ASSUME LinkInit PROVE LinkInv
<1>1. PeerInv
  BY PeerBoots DEF LinkInit
<1>2. ReadInv
  BY DEF LinkInit, ReadInv
<1> QED  BY <1>1, <1>2, RegistryInit DEF LinkInv

LEMMA LinkPeerSteps ==
  ASSUME LinkInv,
         \/ \E c \in Conns : DialFails(c) \/ ServeEnds(c)
         \/ \E a \in Adapters : \/ ChildExits(a) \/ KillLands(a) \/ RecordExit(a)
                                \/ ClassifyUnexpectedExit(a)
         \/ \E w \in Waiters : KillHandle(w)
  PROVE  LinkInv'
<1>1. PeerInv
  BY DEF LinkInv
<1>2. ASSUME NEW c \in Conns, DialFails(c) \/ ServeEnds(c) PROVE LinkInv'
  <2>1. ServeClosed /\ UNCHANGED <<killReq, recorded, events>> /\ UNCHANGED <<netVars, registryVars>>
    BY <1>2 DEF DialFails, ServeEnds
  <2> QED  BY <1>1, <2>1, PeerServeClosed, LinkPeerStep
<1>3. ASSUME NEW a \in Adapters, ChildExits(a) \/ KillLands(a) PROVE LinkInv'
  <2>1. PeerInv'
    BY <1>1, <1>3, PeerChildSteps
  <2> QED  BY <1>3, <2>1, LinkPeerStep DEF ChildExits, KillLands
<1>4. ASSUME NEW a \in Adapters, RecordExit(a) PROVE LinkInv'
  <2>1. PeerInv'
    BY <1>1, <1>4, PeerRecordExit
  <2>2. Append1("exited", a) /\ UNCHANGED <<netVars, registryVars>>
    BY <1>4 DEF RecordExit
  <2> QED  BY <2>1, <2>2, LinkPeerStep
<1>5. ASSUME NEW a \in Adapters, ClassifyUnexpectedExit(a) PROVE LinkInv'
  <2>1. PeerInv'
    BY <1>1, <1>5, PeerClassifies
  <2>2. Append1("crash", a) /\ UNCHANGED <<netVars, registryVars>>
    BY <1>5 DEF ClassifyUnexpectedExit
  <2> QED  BY <2>1, <2>2, LinkPeerStep
<1>6. ASSUME NEW w \in Waiters, KillHandle(w) PROVE LinkInv'
  <2>1. /\ KillChild(wait[w].handle, WantOf[w])
        /\ UNCHANGED <<proc, recorded, events>> /\ UNCHANGED <<netVars, registryVars>>
    BY <1>6 DEF KillHandle
  <2> QED  BY <1>1, <2>1, PeerKillChild, LinkPeerStep
<1> QED  BY <1>2, <1>3, <1>4, <1>5, <1>6

\* Connections are made and lost, and the peer starts again.
LEMMA LinkNetSteps ==
  ASSUME LinkInv,
         \/ \E c \in Conns : Dial(c)
         \/ \E d \in Dials : TransportLost(d)
         \/ PeerRestarts
  PROVE  LinkInv'
<1>1. PeerInv /\ ReadInv /\ RegistryInv /\ RegistryShape
  BY DEF LinkInv, RegistryInv
<1>2. ASSUME NEW c \in Conns, Dial(c) PROVE LinkInv'
  <2>1. RegistryInv' /\ PeerInv'
    BY <1>1, <1>2, RegistryDial, PeerSame DEF Dial
  <2>2. /\ dialed + 1 \in Dials /\ alive' = alive \cup {dialed + 1} /\ events' = events
        /\ sess' = [sess EXCEPT ![dialed + 1] =
                      [NewSession EXCEPT !.phase = "dialed", !.conn = c]]
    <3>1. /\ dialed < MaxDials /\ dialed' = dialed + 1 /\ alive' = alive \cup {dialed'}
          /\ sess' = [sess EXCEPT ![dialed'] =
                        [NewSession EXCEPT !.phase = "dialed", !.conn = c]]
          /\ events' = events
      BY <1>2 DEF Dial
    <3>2. dialed + 1 \in Dials
      BY <1>1, <3>1, BoundFacts DEF RegistryShape, Dials
    <3> QED  BY <3>1, <3>2
  <2>3. \A d \in alive : d # dialed + 1 => sess'[d] = sess[d]
    BY <1>1, <2>2 DEF RegistryShape
  <2>4. \A d \in alive' :
           \/ d \in alive /\ sess'[d].lastSeq = sess[d].lastSeq /\ sess'[d].verdict = sess[d].verdict
           \/ Unread(sess[d])'
    <3> TAKE d \in alive'
    <3>1. CASE d = dialed + 1
      <4>1. sess'[d] = [NewSession EXCEPT !.phase = "dialed", !.conn = c]
        BY <1>1, <2>2, <3>1 DEF RegistryShape
      <4> QED  BY <4>1 DEF Unread, NewSession
    <3>2. CASE d # dialed + 1
      BY <2>2, <2>3, <3>2
    <3> QED  BY <3>1, <3>2
  <2> QED  BY <2>1, <2>2, <2>4, LinkHostStep
<1>3. ASSUME NEW d \in Dials, TransportLost(d) PROVE LinkInv'
  <2>1. /\ alive' = alive \ {d} /\ UNCHANGED <<proc, killReq, recorded, events>>
        /\ UNCHANGED <<dialed, sess, peers, wait, closeReq, stopped>>
    BY <1>3 DEF TransportLost, peerVars, registryVars
  <2>2. PeerInv'
    BY <1>1, <2>1, PeerSame
  <2>3. RegistryInv'
    BY <1>1, <2>1, RegistryQuiet DEF RegistryShape
  <2> QED  BY <2>1, <2>2, <2>3, LinkHostStep
<1>4. ASSUME PeerRestarts PROVE LinkInv'
  <2>1. /\ Booted(proc', killReq', recorded', count', events', link') /\ alive' = {}
        /\ UNCHANGED <<dialed, sess, peers, wait, closeReq, stopped>>
    BY <1>4 DEF PeerRestarts, registryVars
  <2>2. PeerInv'
    BY <2>1 DEF Booted, PeerInv, PeerShape, ExitInv, CrashInv, EventType
  <2>3. RegistryInv'
    BY <1>1, <2>1, RegistryQuiet DEF RegistryShape
  <2>4. ReadInv'
    BY <2>1 DEF ReadInv
  <2> QED  BY <2>2, <2>3, <2>4 DEF LinkInv
<1> QED  BY <1>2, <1>3, <1>4

LEMMA LinkHostSteps ==
  ASSUME LinkInv,
         \/ \E a \in Adapters : CloseHandle(a)
         \/ \E d \in Dials : \/ StoreSession(d) \/ AcceptPeer(d)
                             \/ ApplySupervisionEvent(d) \/ SuperviseFails(d)
         \/ \E w \in Waiters : WaitForFreshHandle(w) \/ HandleFound(w) \/ WaitEnds(w)
         \/ CloseHandleEnds \/ StopPeers
  PROVE  LinkInv'
<1>1. PeerInv /\ ReadInv /\ RegistryInv /\ RegistryShape
  BY DEF LinkInv, RegistryInv
<1>2. sess \in [Dials -> DialedType] /\ alive \subseteq Dials /\ Dials \subseteq 0..MaxDials
  BY <1>1, BoundFacts DEF RegistryShape
<1>3. ASSUME NEW a \in Adapters, CloseHandle(a) PROVE LinkInv'
  <2>1. /\ UNCHANGED <<proc, killReq, recorded, events>>
        /\ UNCHANGED <<alive, sess>>
    BY <1>3 DEF CloseHandle, peerVars, netVars
  <2>2. RegistryInv' /\ PeerInv'
    BY <1>1, <1>3, <2>1, RegistryCloseHandle, PeerSame
  <2> QED  BY <2>1, <2>2, LinkHostStep
<1>4. ASSUME NEW w \in Waiters, WaitForFreshHandle(w) \/ HandleFound(w) \/ WaitEnds(w)
      PROVE  LinkInv'
  <2>1. /\ UNCHANGED <<proc, killReq, recorded, events>>
        /\ UNCHANGED <<alive, sess>>
    BY <1>4 DEF WaitForFreshHandle, HandleFound, WaitEnds, peerVars, netVars
  <2>2. RegistryInv' /\ PeerInv'
    BY <1>1, <1>4, <2>1, RegistryWaitSteps, PeerSame
  <2> QED  BY <2>1, <2>2, LinkHostStep
<1>5. ASSUME NEW d \in Dials, StoreSession(d) PROVE LinkInv'
  <2>1. UNCHANGED <<proc, killReq, recorded, events>>
    BY <1>5 DEF StoreSession, SwapIn, peerVars
  <2>2. RegistryInv' /\ PeerInv'
    BY <1>1, <1>5, <2>1, RegistryStore, PeerSame
  <2>3. CASE SwapIn(d)
    <3>1. /\ alive' = alive
          /\ sess' = [sess EXCEPT ![d].phase = "stored", ![d].old = peers[KeyOf(d)],
                                  ![d].owed = Waiting(KeyOf(d))]
      BY <2>3 DEF SwapIn, netVars
    <3>2. \A x \in Dials : sess'[x].lastSeq = sess[x].lastSeq /\ sess'[x].verdict = sess[x].verdict
      BY <1>2, <3>1 DEF DialedType
    <3> QED  BY <1>2, <2>1, <2>2, <3>1, <3>2, LinkHostStep
  <2>4. CASE ~SwapIn(d)
    <3> DEFINE ss == [sess EXCEPT ![d].phase = "refused"]
    <3>1. alive' = alive \ {d} /\ sess' = Closed(ss, d)
      BY <1>5, <2>4 DEF StoreSession
    <3>2. ss \in [Dials -> DialedType] /\ \A x \in Dials : x # d => ss[x] = sess[x]
      BY <1>2 DEF DialedType
    <3> HIDE DEF ss
    <3>3. \A x \in alive' : x # d /\ x \in alive /\ sess'[x] = sess[x]
      BY <1>2, <3>1, <3>2, OthersKept
    <3> QED  BY <2>1, <2>2, <3>3, LinkHostStep
  <2> QED  BY <2>3, <2>4
<1>6. ASSUME NEW d \in Dials, AcceptPeer(d) PROVE LinkInv'
  <2> DEFINE ss == [sess EXCEPT ![d].phase = "open", ![d].old = 0, ![d].owed = {}]
             o == sess[d].old
  <2>1. /\ UNCHANGED <<proc, killReq, recorded, events>>
        /\ alive' = alive \ {o} /\ sess' = Closed(ss, o)
    BY <1>6 DEF AcceptPeer, peerVars
  <2>2. RegistryInv' /\ PeerInv'
    BY <1>1, <1>6, <2>1, RegistryAccept, PeerSame
  <2>3. o \in 0..MaxDials
    BY <1>2 DEF DialedType
  <2>4. /\ ss \in [Dials -> DialedType]
        /\ \A x \in Dials : ss[x].lastSeq = sess[x].lastSeq /\ ss[x].verdict = sess[x].verdict
    <3> DEFINE r == [sess[d] EXCEPT !.phase = "open", !.old = 0, !.owed = {}]
    <3>1. sess[d] \in DialedType /\ 0 \in 0..MaxDials
      BY <1>2, BoundFacts
    <3>2. r \in DialedType /\ r.lastSeq = sess[d].lastSeq /\ r.verdict = sess[d].verdict
      BY <3>1 DEF DialedType
    <3>3. ss = [sess EXCEPT ![d] = r]
      BY <1>2 DEF DialedType
    <3> HIDE DEF r, ss
    <3> QED  BY <1>2, <3>2, <3>3
  <2> HIDE DEF ss, o
  <2>5. \A x \in alive' : /\ x \in alive /\ sess'[x].lastSeq = sess[x].lastSeq
                          /\ sess'[x].verdict = sess[x].verdict
    BY <1>2, <2>1, <2>3, <2>4, OthersKept
  <2> QED  BY <2>1, <2>2, <2>5, LinkHostStep
<1>7. ASSUME NEW d \in Dials, ApplySupervisionEvent(d) PROVE LinkInv'
  <2>1. UNCHANGED <<proc, killReq, recorded, events>>
    BY <1>7 DEF ApplySupervisionEvent, peerVars
  <2> QED  BY <1>1, <1>7, <2>1, ReadApplies, PeerSame DEF LinkInv
<1>8. ASSUME NEW d \in Dials, SuperviseFails(d) PROVE LinkInv'
  <2>1. /\ UNCHANGED <<proc, killReq, recorded, events, alive>>
        /\ d \notin alive /\ sess' = Closed(sess, d)
    BY <1>8 DEF SuperviseFails, peerVars, netVars
  <2>2. RegistryInv' /\ PeerInv'
    BY <1>1, <1>8, <2>1, RegistrySuperviseFails, PeerSame
  <2>3. \A x \in alive' : x \in alive /\ sess'[x] = sess[x]
    BY <1>2, <2>1, OthersKept
  <2> QED  BY <2>1, <2>2, <2>3, LinkHostStep
<1>9. ASSUME CloseHandleEnds PROVE LinkInv'
  <2>1. /\ KillChild(closeReq.dial, closeReq.adapter) /\ UNCHANGED <<proc, recorded, events>>
        /\ closeReq # NoClose
        /\ sess' = (IF closeReq.exact THEN Closed(sess, closeReq.dial) ELSE sess)
        /\ alive' = (IF closeReq.exact THEN alive \ {closeReq.dial} ELSE alive)
    BY <1>9 DEF CloseHandleEnds
  <2>2. RegistryInv' /\ PeerInv'
    BY <1>1, <1>9, <2>1, RegistryCloseHandleEnds, PeerKillChild
  <2>3. closeReq.dial \in Dials
    BY <1>1, <2>1 DEF RegistryShape
  <2>4. \A x \in alive' : x \in alive /\ sess'[x] = sess[x]
    <3>1. CASE closeReq.exact
      BY <1>2, <2>1, <2>3, <3>1, OthersKept
    <3>2. CASE ~closeReq.exact
      BY <2>1, <3>2
    <3> QED  BY <3>1, <3>2
  <2> QED  BY <2>1, <2>2, <2>4, LinkHostStep
<1>10. ASSUME StopPeers PROVE LinkInv'
  <2>1. /\ UNCHANGED <<proc, killReq, recorded, events>>
        /\ alive' = {d \in alive : ~Registered(d)}
        /\ sess' = [d \in Dials |-> IF Registered(d) THEN Closed(sess, d)[d] ELSE sess[d]]
    BY <1>10 DEF StopPeers, peerVars
  <2>2. RegistryInv' /\ PeerInv'
    BY <1>1, <1>10, <2>1, RegistryStop, PeerSame
  <2>3. \A x \in alive' : x \in alive /\ sess'[x] = sess[x]
    BY <1>2, <2>1
  <2> QED  BY <2>1, <2>2, <2>3, LinkHostStep
<1> QED  BY <1>3, <1>4, <1>5, <1>6, <1>7, <1>8, <1>9, <1>10

LEMMA LinkStutters == ASSUME LinkInv, UNCHANGED linkVars PROVE LinkInv'
<1>1. /\ UNCHANGED <<proc, killReq, recorded, events>> /\ UNCHANGED <<netVars, registryVars>>
  BY DEF linkVars, peerVars
<1> QED  BY <1>1, PeerSame, LinkPeerStep DEF LinkInv

\* The inductive invariant of PeerLink: what the peer has noted about each exit,
\* what each living session has read of it, and who will close each session
\* of the registry.
THEOREM LinkInvariant == LinkSpec => []LinkInv
<1>1. LinkInv /\ [LinkNext]_linkVars => LinkInv'
  <2> SUFFICES ASSUME LinkInv, LinkNext PROVE LinkInv'
    BY LinkStutters
  <2> QED  BY LinkPeerSteps, LinkNetSteps, LinkHostSteps DEF LinkNext
<1> QED  BY LinkInitially, <1>1, PTL DEF LinkSpec

\* A wait that was registered is served by what arrives: no session that could
\* serve it is registered and fully accepted while it waits.
THEOREM WaiterTheorem == LinkSpec => []WaiterNotForgotten
<1>1. LinkInv => WaiterNotForgotten
  BY DEF LinkInv, RegistryInv, WaitInv
<1> QED  BY <1>1, LinkInvariant, PTL

\* Every supervised session has someone who will close it, after a stop too.
THEOREM LeakTheorem == LinkSpec => []NoLeakedSession
<1>1. LinkInv => NoLeakedSession
  BY DEF LinkInv, RegistryInv, OwnedInv, NoLeakedSession, Supervised
<1> QED  BY <1>1, LinkInvariant, PTL

\* With keepalive, a child that a host calls crashed ended by itself and
\* unasked.  Without it serveClosed kills children whose exit is journaled
\* as a crash.
THEOREM CrashTheorem ==
  ASSUME KeepAlive
  PROVE  LinkSpec => []CrashIsReal
<1>1. LinkInv => CrashIsReal
  <2> SUFFICES ASSUME LinkInv, NEW d \in alive, NEW a \in Adapters,
                      sess[d].verdict[a] = "crash"
               PROVE  proc[a] = "gone" /\ ~killReq[a]
    BY DEF CrashIsReal
  <2>1. PeerShape /\ ExitInv /\ CrashInv /\ ReadInv
    BY DEF LinkInv, PeerInv
  <2>2. PICK i \in 1..Len(events) : events[i] = Event("crash", a)
    BY <2>1 DEF ReadInv, Said
  <2>3. recorded[a] # "no" /\ ~killReq[a]
    BY <2>1, <2>2 DEF CrashInv, Event
  <2> QED  BY <2>1, <2>3 DEF ExitInv, PeerShape
<1> QED  BY <1>1, LinkInvariant, PTL

\* A session that has read a journal which never overflowed to its end knows
\* how every child ended.
THEOREM CaughtUpTheorem == LinkSpec => []CaughtUpKnows
<1>1. LinkInv => CaughtUpKnows
  <2> SUFFICES ASSUME LinkInv, NEW d \in alive, NEW a \in Adapters,
                      sess[d].lastSeq = Len(events), Len(events) <= JournalLimit,
                      recorded[a] = "done"
               PROVE  sess[d].verdict[a] = IF killReq[a] THEN "exited" ELSE "crash"
    BY DEF CaughtUpKnows
  <2>1. PeerShape /\ ExitInv /\ CrashInv /\ ReadInv /\ RegistryShape
    BY DEF LinkInv, PeerInv, RegistryInv
  <2>2. \A i \in 1..Len(events) :
          /\ sess[d].verdict[events[i].adapter] # "none"
          /\ events[i].kind = "crash" => sess[d].verdict[events[i].adapter] = "crash"
    BY <2>1 DEF ReadInv
  <2>3. sess[d].verdict[a] \in {"none", "exited", "crash"}
    BY <2>1 DEF RegistryShape, DialedType
  <2>4. CASE ~killReq[a]
    <3>1. PICK i \in 1..Len(events) : events[i] = Event("crash", a)
      BY <2>1, <2>4 DEF ExitInv, Said
    <3> QED  BY <2>2, <2>4, <3>1 DEF Event
  <2>5. CASE killReq[a]
    <3>1. PICK i \in 1..Len(events) : events[i] = Event("exited", a)
      BY <2>1 DEF ExitInv, Said
    <3>2. sess[d].verdict[a] # "none"
      BY <2>2, <3>1 DEF Event
    <3>3. sess[d].verdict[a] # "crash"
      <4>1. ~Said("crash", a, Len(events))
        BY <2>1, <2>5 DEF CrashInv, Said, Event
      <4> QED  BY <2>1, <4>1 DEF ReadInv
    <3> QED  BY <2>3, <2>5, <3>2, <3>3
  <2> QED  BY <2>4, <2>5
<1> QED  BY <1>1, LinkInvariant, PTL
=============================================================================
