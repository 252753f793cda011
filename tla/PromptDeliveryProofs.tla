------------------------ MODULE PromptDeliveryProofs ------------------------
(***************************************************************************)
(* Proofs about PromptDelivery, for any prompts, any finite set of attempt *)
(* loops, any capacity and any number of attempts and engines: no prompt   *)
(* gets two outcomes, and none is held without a loop to take it.          *)
(*                                                                         *)
(* For the first a prompt is followed through the places it can be in:     *)
(* unsent, the channel, the pump, the held list, the hands of a loop, or   *)
(* answered.  They never share one.  For the second inFlight is read as    *)
(* the size of a set with one token for every attempt that a loop has      *)
(* begun and not yet given back; endStep takes away exactly the tokens of  *)
(* its loop, so a positive count always names a loop.                      *)
(***************************************************************************)
EXTENDS PromptDelivery, FiniteSetTheorems, SequenceTheorems, TLAPS

LoopStates == {"idle", "prepare", "flush", "execute", "end", "over"}

PumpStates == {"select", "deliver", "refuse", "stop", "done"}

LoopRec == [state : LoopStates, attempts : 0 .. MaxAttempts, msgs : Seq(Prompts)]

PumpRec == [state : PumpStates, msgs : Seq(Prompts)]

Shape ==
  /\ unsent \subseteq Prompts /\ queue \in Seq(Prompts) /\ held \in Seq(Prompts)
  /\ pump \in PumpRec /\ loop \in [Loops -> LoopRec]
  /\ outcome \in [Prompts -> Seq(Outcomes)]

Elems(s) == {s[k] : k \in 1 .. Len(s)}

Distinct(s) == \A k, l \in 1 .. Len(s) : s[k] = s[l] => k = l

Answered == {p \in Prompts : outcome[p] # <<>>}

\* What loop i has taken out of the held list and not dealt with.
InHands(i) == Elems(loop[i].msgs)

\* Nobody holds a prompt twice.
NoCopies ==
  /\ Distinct(queue) /\ Distinct(pump.msgs) /\ Distinct(held)
  /\ \A i \in Loops : Distinct(loop[i].msgs)

\* A prompt is in one place only.
PlaceInv ==
  /\ unsent \cap Answered = {}
  /\ Elems(queue) \cap (unsent \cup Answered) = {}
  /\ Elems(pump.msgs) \cap (unsent \cup Answered \cup Elems(queue)) = {}
  /\ Elems(held) \cap (unsent \cup Answered \cup Elems(queue) \cup Elems(pump.msgs)) = {}
  /\ \A i \in Loops :
       InHands(i) \cap (unsent \cup Answered \cup Elems(queue) \cup Elems(pump.msgs)
                          \cup Elems(held)) = {}
  /\ \A i, j \in Loops : i # j => InHands(i) \cap InHands(j) = {}

\* A pump that is about to deliver or to refuse has something in its hands.
PumpInv == pump.state \in {"deliver", "refuse"} => pump.msgs # <<>>

Active(i) == loop[i].state \in {"prepare", "flush", "execute"}

\* The attempts begun by the loops that have not ended.
Tokens == {t \in Loops \X (1 .. MaxAttempts) : Active(t[1]) /\ t[2] <= loop[t[1]].attempts}

CountInv == inFlight = Cardinality(Tokens)

\* A loop that has not started has begun no attempt.
IdleInv == \A i \in Loops : loop[i].state = "idle" => loop[i].attempts = 0

HeldInv == held # <<>> => inFlight > 0

DeliveryInv == Shape /\ NoCopies /\ PlaceInv /\ OneOutcome /\ PumpInv

IInv == DeliveryInv /\ IdleInv /\ CountInv /\ HeldInv

-----------------------------------------------------------------------------
(* Sequences without repetition.                                           *)

\* Nothing is in the empty sequence.
LEMMA EmptyFacts == Elems(<<>>) = {} /\ Distinct(<<>>) /\ \A S : <<>> \in Seq(S)
BY EmptySeq DEF Elems, Distinct

\* A sequence of one prompt.
LEMMA OneFacts ==
  ASSUME NEW p \in Prompts
  PROVE  /\ <<p>> \in Seq(Prompts) /\ <<p>> # <<>> /\ Elems(<<p>>) = {p} /\ Distinct(<<p>>)
         /\ Head(<<p>>) = p
<1>1. <<p>> \in Seq(Prompts) /\ Len(<<p>>) = 1 /\ <<p>>[1] = p /\ Head(<<p>>) = p
  OBVIOUS
<1>2. 1 .. 1 = {1}
  OBVIOUS
<1>3. Elems(<<p>>) = {p}
  BY <1>1, <1>2 DEF Elems
<1>4. Distinct(<<p>>)
  BY <1>1, <1>2 DEF Distinct
<1>5. <<p>> # <<>>
  BY <1>1, EmptySeq
<1> QED
  BY <1>1, <1>3, <1>4, <1>5

\* Append adds its prompt.
LEMMA AppendFacts ==
  ASSUME NEW s \in Seq(Prompts), NEW p \in Prompts
  PROVE  /\ Append(s, p) \in Seq(Prompts)
         /\ Elems(Append(s, p)) = Elems(s) \cup {p}
         /\ Distinct(s) /\ p \notin Elems(s) => Distinct(Append(s, p))
<1>1. /\ Append(s, p) \in Seq(Prompts) /\ Len(Append(s, p)) = Len(s) + 1 /\ Len(s) \in Nat
      /\ Append(s, p)[Len(s) + 1] = p /\ \A k \in 1 .. Len(s) : Append(s, p)[k] = s[k]
  BY AppendProperties, LenProperties
<1>2. 1 .. Len(s) + 1 = (1 .. Len(s)) \cup {Len(s) + 1}
  BY <1>1
<1>3. Elems(Append(s, p)) = Elems(s) \cup {p}
  BY <1>1, <1>2 DEF Elems
<1>4. ASSUME Distinct(s), p \notin Elems(s), NEW k \in 1 .. Len(s) + 1, NEW l \in 1 .. Len(s) + 1,
             Append(s, p)[k] = Append(s, p)[l]
      PROVE  k = l
  <2>1. CASE k \in 1 .. Len(s) /\ l \in 1 .. Len(s)
    BY <1>1, <1>4, <2>1 DEF Distinct
  <2>2. CASE k \in 1 .. Len(s) /\ l = Len(s) + 1
    BY <1>1, <1>4, <2>2 DEF Elems
  <2>3. CASE k = Len(s) + 1 /\ l \in 1 .. Len(s)
    BY <1>1, <1>4, <2>3 DEF Elems
  <2> QED
    BY <1>2, <2>1, <2>2, <2>3
<1>5. Distinct(s) /\ p \notin Elems(s) => Distinct(Append(s, p))
  BY <1>1, <1>4 DEF Distinct
<1> QED
  BY <1>1, <1>3, <1>5

\* Head takes a prompt that is not in the rest.
LEMMA TailFacts ==
  ASSUME NEW s \in Seq(Prompts), s # <<>>
  PROVE  /\ Head(s) \in Prompts /\ Head(s) \in Elems(s) /\ Tail(s) \in Seq(Prompts)
         /\ Elems(Tail(s)) \subseteq Elems(s)
         /\ Distinct(s) => Distinct(Tail(s)) /\ Head(s) \notin Elems(Tail(s))
<1>1. /\ Head(s) \in Prompts /\ Tail(s) \in Seq(Prompts) /\ Head(s) = s[1]
      /\ Len(s) \in Nat /\ Len(s) >= 1 /\ Len(Tail(s)) = Len(s) - 1
      /\ \A k \in 1 .. Len(s) - 1 : Tail(s)[k] = s[k + 1]
  BY HeadTailProperties, LenProperties, EmptySeq
<1>2. \A k \in 1 .. Len(s) - 1 : k + 1 \in 1 .. Len(s) /\ k + 1 # 1
  BY <1>1
<1>3. Head(s) \in Elems(s) /\ Elems(Tail(s)) \subseteq Elems(s)
  BY <1>1, <1>2 DEF Elems
<1>4. ASSUME Distinct(s) PROVE Head(s) \notin Elems(Tail(s))
  BY <1>1, <1>2, <1>4 DEF Elems, Distinct
<1>5. ASSUME Distinct(s), NEW k \in 1 .. Len(s) - 1, NEW l \in 1 .. Len(s) - 1,
             Tail(s)[k] = Tail(s)[l]
      PROVE  k = l
  <2>1. k + 1 = l + 1
    BY <1>1, <1>2, <1>5 DEF Distinct
  <2> QED
    BY <1>1, <2>1
<1>6. ASSUME Distinct(s) PROVE Distinct(Tail(s))
  BY <1>1, <1>5, <1>6 DEF Distinct
<1> QED
  BY <1>1, <1>3, <1>4, <1>6

\* Recording an outcome moves a prompt to the answered ones.
LEMMA RecordFacts ==
  ASSUME Shape, OneOutcome, NEW p \in Prompts, p \notin Answered, NEW o \in Outcomes, Record(p, o)
  PROVE  /\ outcome' \in [Prompts -> Seq(Outcomes)] /\ OneOutcome'
         /\ Answered' = Answered \cup {p}
<1>1. /\ outcome[p] = <<>> /\ outcome' = [outcome EXCEPT ![p] = Append(<<>>, o)]
      /\ outcome \in [Prompts -> Seq(Outcomes)]
  BY DEF Answered, Record, Shape
<1>2. /\ Append(<<>>, o) \in Seq(Outcomes) /\ Len(Append(<<>>, o)) = 1 /\ Append(<<>>, o) # <<>>
  BY EmptySeq, AppendProperties
<1> DEFINE w == Append(<<>>, o)
<1> HIDE DEF w
<1>3. outcome' \in [Prompts -> Seq(Outcomes)]
  BY <1>1, <1>2
<1>4. outcome'[p] = w /\ \A q \in Prompts : q # p => outcome'[q] = outcome[q]
  BY <1>1 DEF w
<1>w. w # <<>> /\ Len(w) = 1
  BY <1>2 DEF w
<1>5. Answered' = Answered \cup {p}
  BY <1>w, <1>4 DEF Answered
<1>6. OneOutcome'
  <2>1. SUFFICES ASSUME NEW q \in Prompts PROVE Len(outcome'[q]) <= 1
    BY DEF OneOutcome
  <2>2. CASE q = p
    <3>1. outcome'[q] = w
      BY <1>4, <2>2
    <3>2. Len(w) <= 1
      BY <1>w
    <3> QED
      BY <3>1, <3>2
  <2>3. CASE q # p
    BY <1>4, <2>3 DEF OneOutcome
  <2> QED
    BY <2>2, <2>3
<1> QED
  BY <1>3, <1>5, <1>6

\* One loop moves, the others stay.
LEMMA LoopFacts ==
  ASSUME Shape, NEW i \in Loops, NEW r \in LoopRec, loop' = [loop EXCEPT ![i] = r]
  PROVE  /\ loop' \in [Loops -> LoopRec] /\ loop'[i] = r
         /\ \A j \in Loops : j # i => loop'[j] = loop[j]
BY DEF Shape

\* The records of the loops and of the pump.
LEMMA RecFacts ==
  ASSUME Shape
  PROVE  /\ \A i \in Loops : /\ loop[i] \in LoopRec /\ loop[i].msgs \in Seq(Prompts)
                             /\ loop[i].attempts \in 0 .. MaxAttempts
         /\ pump.msgs \in Seq(Prompts) /\ pump.state \in PumpStates
BY DEF Shape, LoopRec, PumpRec

\* The pump with a state and prompts.
LEMMA AtFacts ==
  ASSUME NEW st \in PumpStates, NEW ps \in Seq(Prompts)
  PROVE  At(st, ps) \in PumpRec /\ At(st, ps).state = st /\ At(st, ps).msgs = ps
BY DEF PumpRec, At

\* Goto changes the place of a loop only.
LEMMA GotoFacts ==
  ASSUME Shape, NEW i \in Loops, NEW st \in LoopStates, Goto(i, st)
  PROVE  /\ loop' \in [Loops -> LoopRec]
         /\ loop'[i].state = st /\ loop'[i].attempts = loop[i].attempts
         /\ loop'[i].msgs = loop[i].msgs
         /\ \A j \in Loops : j # i => loop'[j] = loop[j]
<1> DEFINE r == [loop[i] EXCEPT !.state = st]
<1>1. loop[i] \in LoopRec
  BY RecFacts
<1>2. r \in LoopRec /\ r.state = st /\ r.attempts = loop[i].attempts /\ r.msgs = loop[i].msgs
  BY <1>1 DEF LoopRec
<1>3. loop' = [loop EXCEPT ![i] = r]
  BY DEF Goto
<1> HIDE DEF r
<1> QED
  BY <1>2, <1>3, LoopFacts

\* Hand changes its place and what it has in its hands.
LEMMA HandFacts ==
  ASSUME Shape, NEW i \in Loops, NEW st \in LoopStates, NEW ps \in Seq(Prompts), Hand(i, st, ps)
  PROVE  /\ loop' \in [Loops -> LoopRec]
         /\ loop'[i].state = st /\ loop'[i].attempts = loop[i].attempts /\ loop'[i].msgs = ps
         /\ \A j \in Loops : j # i => loop'[j] = loop[j]
<1> DEFINE r == [loop[i] EXCEPT !.state = st, !.msgs = ps]
<1>1. loop[i] \in LoopRec
  BY RecFacts
<1>2. r \in LoopRec /\ r.state = st /\ r.attempts = loop[i].attempts /\ r.msgs = ps
  BY <1>1 DEF LoopRec
<1>3. loop' = [loop EXCEPT ![i] = r]
  BY DEF Hand
<1> HIDE DEF r
<1> QED
  BY <1>2, <1>3, LoopFacts

-----------------------------------------------------------------------------
(* Every step moves a prompt from one place to another.                    *)

\* The control stream puts a prompt into the channel, or refuses it.
LEMMA ControlKeeps ==
  ASSUME DeliveryInv, NEW p \in Prompts, ForwardControl(p) \/ PromptActive(p)
  PROVE  DeliveryInv'
<1> USE DEF DeliveryInv
<1>1. /\ p \in unsent /\ unsent' = unsent \ {p} /\ UNCHANGED <<pump, held, loop>>
  BY DEF ForwardControl, PromptActive, Counts
<1>2. p \notin Elems(queue) /\ p \notin Answered /\ queue \in Seq(Prompts)
  BY <1>1 DEF PlaceInv, Shape
<1>3. CASE queue' = Append(queue, p) /\ outcome' = outcome
  <2>1. queue' \in Seq(Prompts) /\ Elems(queue') = Elems(queue) \cup {p} /\ Distinct(queue')
    BY <1>2, <1>3, AppendFacts DEF NoCopies
  <2>2. Answered' = Answered /\ OneOutcome' /\ \A i \in Loops : InHands(i)' = InHands(i)
    BY <1>1, <1>3 DEF Answered, OneOutcome, InHands
  <2>3. Shape' /\ NoCopies' /\ PumpInv'
    BY <1>1, <1>3, <2>1 DEF Shape, NoCopies, PumpInv
  <2>4. PlaceInv'
    BY <1>1, <1>2, <2>1, <2>2 DEF PlaceInv
  <2> QED
    BY <2>2, <2>3, <2>4
<1>4. CASE queue' = queue /\ Record(p, "failed")
  <2>1. outcome' \in [Prompts -> Seq(Outcomes)] /\ OneOutcome' /\ Answered' = Answered \cup {p}
    BY <1>2, <1>4, RecordFacts DEF Outcomes
  <2>2. \A i \in Loops : InHands(i)' = InHands(i)
    BY <1>1 DEF InHands
  <2>3. Shape' /\ NoCopies' /\ PumpInv'
    BY <1>1, <1>4, <2>1 DEF Shape, NoCopies, PumpInv
  <2>4. PlaceInv'
    BY <1>1, <1>4, <2>1, <2>2 DEF PlaceInv
  <2> QED
    BY <2>1, <2>3, <2>4
<1> QED
  BY <1>3, <1>4 DEF ForwardControl, PromptActive

\* The pump takes a prompt out of the channel and keeps or holds it.
LEMMA RouteKeeps ==
  ASSUME DeliveryInv, Route
  PROVE  DeliveryInv'
<1> USE DEF DeliveryInv
<1> DEFINE p == Head(queue)
<1>1. /\ queue \in Seq(Prompts) /\ queue # <<>> /\ queue' = Tail(queue)
      /\ UNCHANGED <<unsent, loop, outcome>> /\ held \in Seq(Prompts)
  BY DEF Route, Shape
<1>2. /\ p \in Prompts /\ p \in Elems(queue) /\ queue' \in Seq(Prompts)
      /\ Elems(queue') \subseteq Elems(queue) /\ Distinct(queue') /\ p \notin Elems(queue')
  BY <1>1, TailFacts DEF NoCopies
<1>3. \/ held' = held /\ (pump' = At("deliver", <<p>>) \/ pump' = At("refuse", <<p>>))
      \/ held' = Append(held, p) /\ pump' = pump
  BY DEF Route
<1> HIDE DEF p
<1>4. Answered' = Answered /\ OneOutcome' /\ \A i \in Loops : InHands(i)' = InHands(i)
  BY <1>1 DEF Answered, OneOutcome, InHands
<1>5. CASE held' = held /\ (pump' = At("deliver", <<p>>) \/ pump' = At("refuse", <<p>>))
  <2>1. /\ pump' \in PumpRec /\ pump'.msgs = <<p>> /\ <<p>> # <<>> /\ Elems(<<p>>) = {p}
        /\ Distinct(<<p>>)
    <3>1. <<p>> \in Seq(Prompts) /\ <<p>> # <<>> /\ Elems(<<p>>) = {p} /\ Distinct(<<p>>)
      BY <1>2, OneFacts
    <3> DEFINE ps == <<p>>
    <3> HIDE DEF ps
    <3>2. ps \in Seq(Prompts) /\ (pump' = At("deliver", ps) \/ pump' = At("refuse", ps))
      BY <1>5, <3>1 DEF ps
    <3>3. pump' \in PumpRec /\ pump'.msgs = ps
      BY <3>2, AtFacts DEF PumpStates
    <3> QED
      BY <3>1, <3>3 DEF ps
  <2>2. Shape' /\ NoCopies' /\ PumpInv'
    BY <1>1, <1>2, <1>5, <2>1 DEF Shape, NoCopies, PumpInv
  <2>3. PlaceInv'
    BY <1>1, <1>2, <1>4, <1>5, <2>1 DEF PlaceInv
  <2> QED
    BY <1>4, <2>2, <2>3
<1>6. CASE held' = Append(held, p) /\ pump' = pump
  <2>1. p \notin Elems(held)
    BY <1>2 DEF PlaceInv
  <2>2. held' \in Seq(Prompts) /\ Elems(held') = Elems(held) \cup {p} /\ Distinct(held')
    BY <1>1, <1>2, <1>6, <2>1, AppendFacts DEF NoCopies
  <2>3. Shape' /\ NoCopies' /\ PumpInv'
    BY <1>1, <1>2, <1>6, <2>2 DEF Shape, NoCopies, PumpInv
  <2>4. PlaceInv'
    BY <1>1, <1>2, <1>4, <1>6, <2>2 DEF PlaceInv
  <2> QED
    BY <1>4, <2>3, <2>4
<1> QED
  BY <1>3, <1>5, <1>6

\* The pump answers a prompt in its hands and keeps at most the rest.
LEMMA PumpAnswers ==
  ASSUME DeliveryInv, pump.msgs # <<>>, NEW o \in Outcomes, Record(Head(pump.msgs), o),
         NEW st \in PumpStates, st \notin {"deliver", "refuse"}, NEW ps \in Seq(Prompts),
         ps = <<>> \/ ps = Tail(pump.msgs), pump' = At(st, ps),
         UNCHANGED <<unsent, queue, held, loop>>
  PROVE  DeliveryInv'
<1> USE DEF DeliveryInv
<1> DEFINE p == Head(pump.msgs)
<1>1. /\ p \in Prompts /\ p \in Elems(pump.msgs) /\ Elems(ps) \subseteq Elems(pump.msgs)
      /\ p \notin Elems(ps) /\ Distinct(ps)
  <2>1. pump.msgs \in Seq(Prompts) /\ Distinct(pump.msgs)
    BY RecFacts DEF NoCopies
  <2>2. p \in Prompts /\ p \in Elems(pump.msgs)
    BY <2>1, TailFacts
  <2>3. CASE ps = <<>>
    BY <2>2, <2>3, EmptyFacts
  <2>4. CASE ps = Tail(pump.msgs)
    BY <2>1, <2>2, <2>4, TailFacts
  <2> QED
    BY <2>3, <2>4
<1>2. p \notin Answered
  BY <1>1 DEF PlaceInv
<1> HIDE DEF p
<1>3. outcome' \in [Prompts -> Seq(Outcomes)] /\ OneOutcome' /\ Answered' = Answered \cup {p}
  BY <1>1, <1>2, RecordFacts DEF p
<1>4. pump' \in PumpRec /\ pump'.msgs = ps /\ pump'.state = st
  BY AtFacts
<1>5. \A i \in Loops : InHands(i)' = InHands(i)
  BY DEF InHands
<1>6. Shape' /\ NoCopies' /\ PumpInv'
  BY <1>1, <1>3, <1>4 DEF Shape, NoCopies, PumpInv
<1>7. PlaceInv'
  BY <1>1, <1>3, <1>4, <1>5 DEF PlaceInv
<1> QED
  BY <1>3, <1>6, <1>7

\* The pump stops: it takes what is held.
LEMMA StopKeeps ==
  ASSUME DeliveryInv, Stop \/ CancelRun
  PROVE  DeliveryInv'
<1> USE DEF DeliveryInv
<1>1. /\ pump' = At("stop", held) /\ held' = <<>> /\ UNCHANGED <<unsent, queue, loop, outcome>>
  BY DEF Stop, CancelRun
<1>2. pump' \in PumpRec /\ pump'.msgs = held /\ pump'.state = "stop"
  BY <1>1, AtFacts DEF Shape, PumpStates
<1>3. Answered' = Answered /\ OneOutcome' /\ \A i \in Loops : InHands(i)' = InHands(i)
  BY <1>1 DEF Answered, OneOutcome, InHands
<1>4. held' \in Seq(Prompts) /\ Elems(held') = {} /\ Distinct(held')
  BY <1>1, EmptyFacts
<1>5. Shape' /\ NoCopies' /\ PumpInv'
  BY <1>1, <1>2, <1>4 DEF Shape, NoCopies, PumpInv
<1>6. PlaceInv'
  BY <1>1, <1>2, <1>3, <1>4 DEF PlaceInv
<1> QED
  BY <1>3, <1>5, <1>6

\* The pump's other steps.
LEMMA PumpKeeps ==
  ASSUME DeliveryInv, PumpDelivers \/ PumpRefuses \/ FlushHeld
  PROVE  DeliveryInv'
<1>0. Shape /\ PumpInv
  BY DEF DeliveryInv
<1>1. CASE PumpDelivers \/ PumpRefuses
  <2>1. PICK o \in Outcomes : Record(Head(pump.msgs), o)
    BY <1>1 DEF PumpDelivers, PumpRefuses, Outcomes
  <2>2. /\ pump.msgs # <<>> /\ pump' = At("select", <<>>) /\ UNCHANGED <<unsent, queue, held, loop>>
    BY <1>0, <1>1 DEF PumpDelivers, PumpRefuses, PumpInv, Counts
  <2> QED
    BY <2>1, <2>2, PumpAnswers, EmptyFacts DEF PumpStates
<1>2. CASE FlushHeld /\ pump.msgs # <<>>
  <2>1. /\ Record(Head(pump.msgs), "failed") /\ pump' = At("stop", Tail(pump.msgs))
        /\ UNCHANGED <<unsent, queue, held, loop>> /\ "failed" \in Outcomes
    BY <1>2 DEF FlushHeld, Counts, Outcomes
  <2>2. Tail(pump.msgs) \in Seq(Prompts)
    BY <1>0, <1>2, RecFacts, TailFacts
  <2> QED
    BY <1>2, <2>1, <2>2, PumpAnswers DEF PumpStates
<1>3. CASE FlushHeld /\ pump.msgs = <<>>
  <2>1. pump' = At("done", <<>>) /\ UNCHANGED <<unsent, queue, held, loop, outcome>>
    BY <1>3 DEF FlushHeld, Counts
  <2>2. pump' \in PumpRec /\ pump'.msgs = pump.msgs /\ pump'.state = "done"
    BY <1>0, <1>3, <2>1, AtFacts, EmptyFacts DEF PumpStates
  <2>3. Answered' = Answered /\ OneOutcome' /\ \A i \in Loops : InHands(i)' = InHands(i)
    BY <2>1 DEF Answered, OneOutcome, InHands, DeliveryInv
  <2>4. Shape' /\ NoCopies' /\ PumpInv'
    BY <2>1, <2>2 DEF Shape, NoCopies, PumpInv, DeliveryInv
  <2>5. PlaceInv'
    BY <2>1, <2>2, <2>3 DEF PlaceInv, DeliveryInv
  <2> QED
    BY <2>3, <2>4, <2>5 DEF DeliveryInv
<1> QED
  BY <1>1, <1>2, <1>3

\* A new engine starts with empty hands.
LEMMA EngineKeeps ==
  ASSUME DeliveryInv, NextEngine
  PROVE  DeliveryInv'
<1> USE DEF DeliveryInv
<1>1. /\ pump' = At("select", <<>>) /\ held' = <<>> /\ loop' = [i \in Loops |-> Ready]
      /\ UNCHANGED <<unsent, queue, outcome>>
  BY DEF NextEngine
<1>2. Ready \in LoopRec /\ Ready.msgs = <<>>
  <2>1. MaxAttempts \in Nat /\ 0 \in 0 .. MaxAttempts
    BY PromptAssumption
  <2> QED
    BY <2>1, EmptyFacts DEF Ready, LoopRec, LoopStates
<1>3. pump' \in PumpRec /\ pump'.msgs = <<>> /\ pump'.state = "select"
  BY <1>1, AtFacts, EmptyFacts DEF PumpStates
<1>4. loop' \in [Loops -> LoopRec] /\ \A i \in Loops : loop'[i].msgs = <<>>
  BY <1>1, <1>2
<1>5. Elems(pump'.msgs) = {} /\ Elems(held') = {} /\ \A i \in Loops : InHands(i)' = {}
  BY <1>1, <1>3, <1>4, EmptyFacts DEF InHands
<1>6. Shape'
  BY <1>1, <1>3, <1>4, EmptyFacts DEF Shape
<1>7. NoCopies'
  BY <1>1, <1>3, <1>4, EmptyFacts DEF NoCopies
<1>8. Answered' = Answered /\ OneOutcome' /\ PumpInv'
  BY <1>1, <1>3 DEF Answered, OneOutcome, PumpInv
<1>9. PlaceInv'
  BY <1>1, <1>5, <1>8 DEF PlaceInv
<1> QED
  BY <1>6, <1>7, <1>8, <1>9

\* A loop moves on without touching a prompt.
LEMMA LoopWalks ==
  ASSUME DeliveryInv, NEW i \in Loops, loop' \in [Loops -> LoopRec],
         Elems(loop'[i].msgs) \subseteq InHands(i), Distinct(loop'[i].msgs),
         \A j \in Loops : j # i => loop'[j] = loop[j],
         UNCHANGED <<unsent, queue, pump, held, outcome>>
  PROVE  DeliveryInv'
<1> USE DEF DeliveryInv
<1>1. /\ InHands(i)' \subseteq InHands(i) /\ \A j \in Loops : j # i => InHands(j)' = InHands(j)
  BY DEF InHands
<1>2. Answered' = Answered /\ OneOutcome' /\ PumpInv'
  BY DEF Answered, OneOutcome, PumpInv
<1>3. Shape' /\ NoCopies'
  BY DEF Shape, NoCopies
<1>4. PlaceInv'
  BY <1>1, <1>2 DEF PlaceInv
<1> QED
  BY <1>2, <1>3, <1>4

\* A loop that opens a window, or ends, takes what is held.
LEMMA LoopTakes ==
  ASSUME DeliveryInv, NEW i \in Loops, loop' \in [Loops -> LoopRec], loop'[i].msgs = held,
         \A j \in Loops : j # i => loop'[j] = loop[j],
         held' = <<>>, UNCHANGED <<unsent, queue, pump, outcome>>
  PROVE  DeliveryInv'
<1> USE DEF DeliveryInv
<1>1. /\ InHands(i)' = Elems(held) /\ \A j \in Loops : j # i => InHands(j)' = InHands(j)
  BY DEF InHands
<1>2. Answered' = Answered /\ OneOutcome' /\ PumpInv'
  BY DEF Answered, OneOutcome, PumpInv
<1>3. held' \in Seq(Prompts) /\ Elems(held') = {} /\ Distinct(held')
  BY EmptyFacts
<1>4. Shape'
  BY <1>3 DEF Shape
<1>5. NoCopies'
  <2>1. ASSUME NEW j \in Loops PROVE Distinct(loop'[j].msgs)
    BY DEF NoCopies
  <2> QED
    BY <1>3, <2>1 DEF NoCopies
<1>6. PlaceInv'
  BY <1>1, <1>2, <1>3 DEF PlaceInv
<1> QED
  BY <1>2, <1>4, <1>5, <1>6

\* A loop answers the first prompt in its hands.
LEMMA LoopAnswers ==
  ASSUME DeliveryInv, NEW i \in Loops, loop[i].msgs # <<>>, NEW o \in Outcomes,
         Record(Head(loop[i].msgs), o), NEW st \in LoopStates, Hand(i, st, Tail(loop[i].msgs)),
         UNCHANGED <<unsent, queue, pump, held>>
  PROVE  DeliveryInv'
<1> USE DEF DeliveryInv
<1> DEFINE p == Head(loop[i].msgs)
           ps == Tail(loop[i].msgs)
<1>1. /\ p \in Prompts /\ p \in InHands(i) /\ Elems(ps) \subseteq InHands(i) /\ ps \in Seq(Prompts)
      /\ p \notin Elems(ps) /\ Distinct(ps)
  BY TailFacts, RecFacts DEF NoCopies, InHands
<1>2. p \notin Answered
  BY <1>1 DEF PlaceInv
<1>3. /\ loop' \in [Loops -> LoopRec] /\ loop'[i].msgs = ps
      /\ \A j \in Loops : j # i => loop'[j] = loop[j]
  BY <1>1, HandFacts
<1> HIDE DEF p, ps
<1>4. outcome' \in [Prompts -> Seq(Outcomes)] /\ OneOutcome' /\ Answered' = Answered \cup {p}
  BY <1>1, <1>2, RecordFacts DEF p
<1>5. InHands(i)' = Elems(ps) /\ \A j \in Loops : j # i => InHands(j)' = InHands(j)
  BY <1>3 DEF InHands
<1>6. Shape' /\ PumpInv'
  BY <1>3, <1>4 DEF Shape, PumpInv
<1>7. NoCopies'
  <2>1. ASSUME NEW j \in Loops PROVE Distinct(loop'[j].msgs)
    BY <1>1, <1>3 DEF NoCopies
  <2> QED
    BY <2>1 DEF NoCopies
<1>8. PlaceInv'
  <2>1. \A j \in Loops : InHands(j)' \subseteq InHands(j) /\ p \notin InHands(j)'
    BY <1>1, <1>5 DEF PlaceInv
  <2>2. p \notin unsent /\ p \notin Elems(queue) /\ p \notin Elems(pump.msgs) /\ p \notin Elems(held)
    BY <1>1 DEF PlaceInv
  <2>3. \A j, k \in Loops : j # k => InHands(j)' \cap InHands(k)' = {}
    BY <2>1 DEF PlaceInv
  <2>4. UNCHANGED <<unsent, Elems(queue), Elems(pump.msgs), Elems(held)>>
    OBVIOUS
  <2>5. \A j \in Loops : InHands(j)' \cap (unsent \cup Answered' \cup Elems(queue)
                               \cup Elems(pump.msgs) \cup Elems(held)) = {}
    BY <1>4, <2>1 DEF PlaceInv
  <2> QED
    BY <1>4, <2>2, <2>3, <2>4, <2>5 DEF PlaceInv
<1> QED
  BY <1>4, <1>6, <1>7, <1>8

\* The steps of an attempt loop.
LEMMA LoopKeeps ==
  ASSUME DeliveryInv, NEW i \in Loops, LoopStep(i)
  PROVE  DeliveryInv'
<1>0. Shape /\ NoCopies /\ loop[i].msgs \in Seq(Prompts) /\ Distinct(loop[i].msgs)
  BY RecFacts DEF DeliveryInv, NoCopies
<1>1. ASSUME NEW st \in LoopStates, Goto(i, st), UNCHANGED <<unsent, queue, pump, held, outcome>>
      PROVE  DeliveryInv'
  <2>1. /\ loop' \in [Loops -> LoopRec] /\ loop'[i].msgs = loop[i].msgs
        /\ \A j \in Loops : j # i => loop'[j] = loop[j]
    BY <1>0, <1>1, GotoFacts
  <2>2. Elems(loop'[i].msgs) \subseteq InHands(i) /\ Distinct(loop'[i].msgs)
    BY <1>0, <2>1 DEF InHands
  <2> QED
    BY <1>1, <2>1, <2>2, LoopWalks
<1>2. CASE StartLoop(i)
  BY <1>1, <1>2 DEF StartLoop, Counts, LoopStates
<1>3. CASE BeginExecute(i)
  <2> DEFINE r == [state |-> "flush", attempts |-> loop[i].attempts + 1, msgs |-> held]
  <2>1. loop[i].attempts + 1 \in 0 .. MaxAttempts /\ held \in Seq(Prompts)
    BY <1>0, <1>3, RecFacts, PromptAssumption DEF BeginExecute, Shape
  <2>2. r \in LoopRec /\ r.msgs = held
    BY <2>1 DEF LoopRec, LoopStates
  <2>3. /\ loop' = [loop EXCEPT ![i] = r] /\ held' = <<>> /\ UNCHANGED <<unsent, queue, pump, outcome>>
    BY <1>0, <1>3 DEF BeginExecute, Shape
  <2> HIDE DEF r
  <2> QED
    BY <1>0, <2>2, <2>3, LoopFacts, LoopTakes
<1>4. CASE DeliverHeld(i)
  <2>1. UNCHANGED <<unsent, queue, pump, held>>
    BY <1>4 DEF DeliverHeld, Counts
  <2>2. CASE loop[i].msgs # <<>>
    <3>1. PICK o \in Outcomes : Record(Head(loop[i].msgs), o)
      BY <1>4, <2>2 DEF DeliverHeld
    <3>2. Hand(i, "flush", Tail(loop[i].msgs)) /\ "flush" \in LoopStates
      BY <1>4, <2>2 DEF DeliverHeld, LoopStates
    <3> QED
      BY <2>1, <2>2, <3>1, <3>2, LoopAnswers
  <2>3. CASE loop[i].msgs = <<>>
    BY <1>1, <1>4, <2>1, <2>3 DEF DeliverHeld, LoopStates
  <2> QED
    BY <2>2, <2>3
<1>5. CASE EndExecute(i)
  BY <1>1, <1>5 DEF EndExecute, LoopStates
<1>6. CASE EndStep(i)
  <2>1. /\ Hand(i, "end", held) /\ held' = <<>> /\ UNCHANGED <<unsent, queue, pump, outcome>>
        /\ held \in Seq(Prompts) /\ "end" \in LoopStates
    BY <1>0, <1>6 DEF EndStep, Shape, LoopStates
  <2> QED
    BY <1>0, <2>1, HandFacts, LoopTakes
<1>7. CASE RecordNoSession(i)
  <2>1. UNCHANGED <<unsent, queue, pump, held>>
    BY <1>7 DEF RecordNoSession, Counts
  <2>2. CASE loop[i].msgs # <<>>
    <3>1. /\ Record(Head(loop[i].msgs), "failed") /\ Hand(i, "end", Tail(loop[i].msgs))
          /\ "end" \in LoopStates /\ "failed" \in Outcomes
      BY <1>7, <2>2 DEF RecordNoSession, LoopStates, Outcomes
    <3> QED
      BY <2>1, <2>2, <3>1, LoopAnswers
  <2>3. CASE loop[i].msgs = <<>>
    <3> DEFINE r == [Ready EXCEPT !.state = "over"]
    <3>1. loop' = [loop EXCEPT ![i] = r] /\ outcome' = outcome
      BY <1>7, <2>3 DEF RecordNoSession
    <3>2. MaxAttempts \in Nat /\ 0 \in 0 .. MaxAttempts
      BY PromptAssumption
    <3>3. r \in LoopRec /\ r.msgs = <<>>
      BY <3>2, EmptyFacts DEF Ready, LoopRec, LoopStates
    <3> HIDE DEF r
    <3>4. /\ loop' \in [Loops -> LoopRec] /\ loop'[i].msgs = <<>>
          /\ \A j \in Loops : j # i => loop'[j] = loop[j]
      BY <1>0, <3>1, <3>3, LoopFacts
    <3> QED
      BY <2>1, <3>1, <3>4, LoopWalks, EmptyFacts
  <2> QED
    BY <2>2, <2>3
<1> QED
  BY <1>2, <1>3, <1>4, <1>5, <1>6, <1>7 DEF LoopStep

\* A step that changes nothing.
LEMMA StutterKeeps ==
  ASSUME DeliveryInv, UNCHANGED vars
  PROVE  DeliveryInv'
BY DEF DeliveryInv, vars, Shape, NoCopies, PlaceInv, OneOutcome, PumpInv, InHands, Answered

\* Every step keeps every prompt in one place.
LEMMA DeliveryNext ==
  ASSUME DeliveryInv, [Next]_vars
  PROVE  DeliveryInv'
BY ControlKeeps, RouteKeeps, PumpKeeps, StopKeeps, EngineKeeps, LoopKeeps, StutterKeeps
   DEF Next, PumpStep

-----------------------------------------------------------------------------
(* The count of the attempts under way.                                    *)

\* MaxAttempts is a number, the tokens are finitely many.
LEMMA TokensFinite ==
  /\ MaxAttempts \in Nat /\ IsFiniteSet(Tokens) /\ Cardinality(Tokens) \in Nat
<1>1. MaxAttempts \in Nat /\ IsFiniteSet(Loops)
  BY PromptAssumption
<1>2. IsFiniteSet(1 .. MaxAttempts)
  BY <1>1, FS_Interval
<1>3. IsFiniteSet(Loops \X (1 .. MaxAttempts))
  BY <1>1, <1>2, FS_Product
<1>4. Tokens \in SUBSET (Loops \X (1 .. MaxAttempts))
  BY DEF Tokens
<1>5. IsFiniteSet(Tokens)
  BY <1>3, <1>4, FS_Subset
<1> QED
  BY <1>1, <1>5, FS_CardinalityType

\* Membership, without the pair.
LEMMA TokenFacts ==
  /\ \A t \in Tokens : \E i \in Loops, k \in 1 .. MaxAttempts : t = <<i, k>>
  /\ \A i \in Loops, k \in 1 .. MaxAttempts :
       <<i, k>> \in Tokens <=> Active(i) /\ k <= loop[i].attempts
BY DEF Tokens

\* The same after a step.
LEMMA TokenFactsNext ==
  /\ \A t \in Tokens' : \E i \in Loops, k \in 1 .. MaxAttempts : t = <<i, k>>
  /\ \A i \in Loops, k \in 1 .. MaxAttempts :
       <<i, k>> \in Tokens' <=> Active(i)' /\ k <= loop'[i].attempts
BY DEF Tokens

\* A step that leaves every loop active with the attempts it had.
LEMMA TokensStay ==
  ASSUME \A i \in Loops : /\ Active(i)' <=> Active(i)
                          /\ Active(i) => loop'[i].attempts = loop[i].attempts
  PROVE  Tokens' = Tokens
<1>1. \A i \in Loops, k \in 1 .. MaxAttempts : <<i, k>> \in Tokens' <=> <<i, k>> \in Tokens
  BY TokenFacts, TokenFactsNext
<1> QED
  BY <1>1, TokenFacts, TokenFactsNext

\* A loop that has no token may become active or cease to be.
LEMMA TokensStayZero ==
  ASSUME NEW i \in Loops, loop[i].attempts = 0, loop'[i].attempts = 0,
         \A j \in Loops : j # i => loop'[j] = loop[j]
  PROVE  Tokens' = Tokens
<1>1. \A j \in Loops : j # i => (Active(j)' <=> Active(j))
  BY DEF Active
<1>2. MaxAttempts \in Nat
  BY PromptAssumption
<1>3. ASSUME NEW j \in Loops, NEW k \in 1 .. MaxAttempts
      PROVE  <<j, k>> \in Tokens' <=> <<j, k>> \in Tokens
  <2>1. CASE j = i
    <3>1. ~(k <= 0)
      BY <1>2
    <3> QED
      BY <2>1, <3>1, TokenFacts, TokenFactsNext
  <2>2. CASE j # i
    BY <1>1, <2>2, TokenFacts, TokenFactsNext
  <2> QED
    BY <2>1, <2>2
<1> QED
  BY <1>3, TokenFacts, TokenFactsNext

\* beginExecute adds the token of the attempt it begins.
LEMMA BeginAdds ==
  ASSUME Shape, NEW i \in Loops, BeginExecute(i)
  PROVE  Cardinality(Tokens') = Cardinality(Tokens) + 1
<1> DEFINE a == loop[i].attempts
<1>1. a \in 0 .. MaxAttempts /\ a < MaxAttempts /\ MaxAttempts \in Nat
  BY RecFacts, PromptAssumption DEF BeginExecute
<1>2. /\ loop'[i] = [state |-> "flush", attempts |-> a + 1, msgs |-> held]
      /\ \A j \in Loops : j # i => loop'[j] = loop[j]
  BY DEF BeginExecute, Shape
<1>3. Active(i) /\ Active(i)' /\ loop'[i].attempts = a + 1
  BY <1>2 DEF Active, BeginExecute
<1>4. \A j \in Loops : j # i => (Active(j)' <=> Active(j))
  BY <1>2 DEF Active
<1>5. a + 1 \in 1 .. MaxAttempts /\ <<i, a + 1>> \notin Tokens
  BY <1>1, TokenFacts
<1>6. ASSUME NEW j \in Loops, NEW k \in 1 .. MaxAttempts
      PROVE  <<j, k>> \in Tokens' <=> <<j, k>> \in Tokens \cup {<<i, a + 1>>}
  <2>1. CASE j = i
    <3>1. <<i, k>> \in Tokens' <=> k <= a + 1
      BY <1>3, TokenFactsNext
    <3>2. <<i, k>> \in Tokens <=> k <= a
      BY <1>3, TokenFacts
    <3>3. k <= a + 1 <=> (k <= a \/ k = a + 1)
      BY <1>1
    <3> QED
      BY <2>1, <3>1, <3>2, <3>3
  <2>2. CASE j # i
    BY <1>2, <1>4, <2>2, TokenFacts, TokenFactsNext
  <2> QED
    BY <2>1, <2>2
<1>7. Tokens' = Tokens \cup {<<i, a + 1>>}
  BY <1>5, <1>6, TokenFacts, TokenFactsNext
<1> QED
  BY <1>5, <1>7, TokensFinite, FS_AddElement

\* The tokens of one loop.
Own(i) == {i} \X (1 .. loop[i].attempts)

\* There are as many as the loop has begun attempts.
LEMMA OwnFacts ==
  ASSUME Shape, NEW i \in Loops, Active(i)
  PROVE  /\ IsFiniteSet(Own(i)) /\ Cardinality(Own(i)) = loop[i].attempts
         /\ Own(i) \subseteq Tokens
<1> DEFINE a == loop[i].attempts
<1>1. a \in 0 .. MaxAttempts /\ MaxAttempts \in Nat /\ a \in Nat
  BY RecFacts, PromptAssumption
<1>2. IsFiniteSet(1 .. a) /\ Cardinality(1 .. a) = a
  <2> HIDE DEF a
  <2>1. a \in Int /\ 1 \in Int
    BY <1>1
  <2>2. IsFiniteSet(1 .. a) /\ Cardinality(1 .. a) = IF 1 > a THEN 0 ELSE a - 1 + 1
    BY <2>1, FS_Interval
  <2> QED
    BY <1>1, <2>2
<1>3. IsFiniteSet({i}) /\ Cardinality({i}) = 1
  BY FS_Singleton
<1>4. IsFiniteSet({i} \X (1 .. a)) /\ Cardinality({i} \X (1 .. a)) = 1 * a
  BY <1>2, <1>3, FS_Product
<1>5. ASSUME NEW t \in {i} \X (1 .. a) PROVE t \in Tokens
  <2>1. PICK k \in 1 .. a : t = <<i, k>>
    OBVIOUS
  <2>2. k \in 1 .. MaxAttempts /\ k <= a
    BY <1>1
  <2> QED
    BY <2>1, <2>2, TokenFacts
<1> QED
  BY <1>1, <1>4, <1>5 DEF Own

\* endStep takes away the tokens of its loop, no more and no fewer: the count
\* is not cut off at zero.
LEMMA EndTakes ==
  ASSUME Shape, CountInv, NEW i \in Loops, EndStep(i)
  PROVE  inFlight' = Cardinality(Tokens')
<1> DEFINE a == loop[i].attempts
<1>0. a \in 0 .. MaxAttempts /\ MaxAttempts \in Nat /\ a \in Nat /\ held \in Seq(Prompts)
  BY RecFacts, PromptAssumption DEF Shape
<1>1. Active(i)
  BY DEF Active, EndStep
<1>2. loop'[i].state = "end" /\ \A j \in Loops : j # i => loop'[j] = loop[j]
  BY <1>0, HandFacts DEF EndStep, LoopStates
<1>3. ~Active(i)' /\ \A j \in Loops : j # i => (Active(j)' <=> Active(j))
  BY <1>2 DEF Active
<1>4. ASSUME NEW j \in Loops, NEW k \in 1 .. MaxAttempts
      PROVE  <<j, k>> \in Tokens' <=> <<j, k>> \in Tokens \ Own(i)
  <2>1. CASE j = i
    <3>1. <<i, k>> \notin Tokens'
      BY <1>3, TokenFactsNext
    <3>2. <<i, k>> \in Tokens => <<i, k>> \in Own(i)
      BY <1>0, TokenFacts DEF Own
    <3> QED
      BY <2>1, <3>1, <3>2
  <2>2. CASE j # i
    <3>1. <<j, k>> \notin Own(i)
      BY <2>2 DEF Own
    <3> QED
      BY <1>2, <1>3, <2>2, <3>1, TokenFacts, TokenFactsNext
  <2> QED
    BY <2>1, <2>2
<1>5. Tokens' = Tokens \ Own(i)
  BY <1>4, TokenFacts, TokenFactsNext
<1>6. Tokens \cap Own(i) = Own(i)
  BY <1>1, OwnFacts
<1>7. Cardinality(Tokens') = Cardinality(Tokens) - a
  <2>1. Cardinality(Tokens \ Own(i)) = Cardinality(Tokens) - Cardinality(Tokens \cap Own(i))
    BY TokensFinite, FS_Difference
  <2>2. Cardinality(Own(i)) = a
    BY <1>1, OwnFacts
  <2> HIDE DEF a
  <2> QED
    BY <1>5, <1>6, <2>1, <2>2
<1>8. Cardinality(Tokens') \in Nat
  BY <1>5, TokensFinite, FS_Difference, FS_CardinalityType
<1>9. inFlight' = IF inFlight > a THEN inFlight - a ELSE 0
  BY DEF EndStep, Balance
<1> QED
  BY <1>0, <1>7, <1>8, <1>9, TokensFinite DEF CountInv

\* Every step keeps the count.
LEMMA CountNext ==
  ASSUME Shape, IdleInv, CountInv, [Next]_vars
  PROVE  CountInv'
<1>1. CASE UNCHANGED <<inFlight, loop>>
  <2>1. Tokens' = Tokens
    BY <1>1, TokensStay DEF Active
  <2> QED
    BY <1>1, <2>1 DEF CountInv
<1>2. CASE NextEngine
  <2>1. \A i \in Loops : ~Active(i)' /\ inFlight' = 0
    BY <1>2 DEF NextEngine, Active, Ready
  <2>2. Tokens' = {}
    BY <2>1, TokenFactsNext
  <2> QED
    BY <1>2, <2>2, FS_EmptySet DEF CountInv, NextEngine
<1>3. ASSUME NEW i \in Loops, BeginExecute(i)
      PROVE  CountInv'
  BY <1>3, BeginAdds DEF CountInv, BeginExecute
<1>4. ASSUME NEW i \in Loops, EndStep(i)
      PROVE  CountInv'
  BY <1>4, EndTakes DEF CountInv
<1>5. ASSUME NEW i \in Loops, DeliverHeld(i) \/ EndExecute(i)
      PROVE  CountInv'
  <2>1. /\ inFlight' = inFlight /\ Active(i)' /\ Active(i) /\ loop'[i].attempts = loop[i].attempts
        /\ \A j \in Loops : j # i => loop'[j] = loop[j]
    <3>1. CASE Goto(i, "execute") \/ Goto(i, "prepare")
      BY <1>5, <3>1, GotoFacts DEF DeliverHeld, EndExecute, Active, LoopStates, Counts
    <3>2. CASE loop[i].msgs # <<>> /\ Hand(i, "flush", Tail(loop[i].msgs))
      <4>1. Tail(loop[i].msgs) \in Seq(Prompts)
        BY <3>2, RecFacts, TailFacts
      <4> QED
        BY <1>5, <3>2, <4>1, HandFacts DEF DeliverHeld, EndExecute, Active, LoopStates, Counts
    <3> QED
      BY <1>5, <3>1, <3>2 DEF DeliverHeld, EndExecute
  <2>2. \A j \in Loops : j # i => (Active(j)' <=> Active(j))
    BY <2>1 DEF Active
  <2>3. Tokens' = Tokens
    BY <2>1, <2>2, TokensStay
  <2> QED
    BY <2>1, <2>3 DEF CountInv
<1>6. ASSUME NEW i \in Loops, RecordNoSession(i)
      PROVE  CountInv'
  <2>1. /\ inFlight' = inFlight /\ ~Active(i)' /\ ~Active(i)
        /\ \A j \in Loops : j # i => loop'[j] = loop[j]
    <3>1. CASE loop[i].msgs # <<>> /\ Hand(i, "end", Tail(loop[i].msgs))
      <4>1. Tail(loop[i].msgs) \in Seq(Prompts)
        BY <3>1, RecFacts, TailFacts
      <4> QED
        BY <1>6, <3>1, <4>1, HandFacts DEF RecordNoSession, Active, LoopStates, Counts
    <3>2. CASE loop' = [loop EXCEPT ![i] = [Ready EXCEPT !.state = "over"]]
      BY <1>6, <3>2 DEF RecordNoSession, Active, Ready, Counts, Shape
    <3> QED
      BY <1>6, <3>1, <3>2 DEF RecordNoSession
  <2>2. \A j \in Loops : j # i => (Active(j)' <=> Active(j))
    BY <2>1 DEF Active
  <2>3. Tokens' = Tokens
    BY <2>1, <2>2, TokensStay
  <2> QED
    BY <2>1, <2>3 DEF CountInv
<1>7. ASSUME NEW i \in Loops, StartLoop(i)
      PROVE  CountInv'
  <2>1. loop[i].attempts = 0
    BY <1>7 DEF StartLoop, IdleInv
  <2>2. /\ inFlight' = inFlight /\ loop'[i].attempts = 0
        /\ \A j \in Loops : j # i => loop'[j] = loop[j]
    BY <1>7, <2>1, GotoFacts DEF StartLoop, Counts, LoopStates
  <2> QED
    BY <2>1, <2>2, TokensStayZero DEF CountInv
<1>8. CASE (\E p \in Prompts : ForwardControl(p) \/ PromptActive(p)) \/ PumpStep \/ CancelRun
  BY <1>1, <1>8
     DEF ForwardControl, PromptActive, PumpStep, Route, PumpDelivers, PumpRefuses, Stop,
                    FlushHeld, CancelRun, Counts
<1>9. CASE UNCHANGED vars
  BY <1>1, <1>9 DEF vars
<1> QED
  BY <1>2, <1>3, <1>4, <1>5, <1>6, <1>7, <1>8, <1>9 DEF Next, LoopStep

\* A loop is idle only before it has begun anything.
LEMMA IdleNext ==
  ASSUME Shape, IdleInv, [Next]_vars
  PROVE  IdleInv'
<1>1. CASE UNCHANGED loop
  BY <1>1 DEF IdleInv
<1>2. CASE NextEngine
  BY <1>2 DEF NextEngine, Ready, IdleInv
<1>3. ASSUME NEW i \in Loops, loop'[i].state # "idle", \A j \in Loops : j # i => loop'[j] = loop[j]
      PROVE  IdleInv'
  BY <1>3 DEF IdleInv
<1>4. ASSUME NEW i \in Loops, LoopStep(i)
      PROVE  IdleInv'
  <2>1. ASSUME NEW st \in LoopStates, st # "idle", Goto(i, st)
        PROVE  IdleInv'
    BY <1>3, <2>1, GotoFacts
  <2>2. ASSUME NEW st \in LoopStates, st # "idle", NEW ps \in Seq(Prompts), Hand(i, st, ps)
        PROVE  IdleInv'
    BY <1>3, <2>2, HandFacts
  <2>3. CASE StartLoop(i) \/ EndExecute(i)
    BY <2>1, <2>3 DEF StartLoop, EndExecute, LoopStates
  <2>4. CASE BeginExecute(i)
    <3>1. loop'[i].state = "flush" /\ \A j \in Loops : j # i => loop'[j] = loop[j]
      BY <2>4 DEF BeginExecute, Shape
    <3> QED
      BY <1>3, <3>1
  <2>5. CASE EndStep(i)
    BY <2>2, <2>5 DEF EndStep, LoopStates, Shape
  <2>6. loop[i].msgs \in Seq(Prompts)
    BY RecFacts
  <2>7. CASE DeliverHeld(i)
    <3>1. CASE loop[i].msgs # <<>>
      BY <2>2, <2>6, <2>7, <3>1, TailFacts DEF DeliverHeld, LoopStates
    <3>2. CASE loop[i].msgs = <<>>
      BY <2>1, <2>7, <3>2 DEF DeliverHeld, LoopStates
    <3> QED
      BY <3>1, <3>2
  <2>8. CASE RecordNoSession(i)
    <3>1. CASE loop[i].msgs # <<>>
      BY <2>2, <2>6, <2>8, <3>1, TailFacts DEF RecordNoSession, LoopStates
    <3>2. CASE loop' = [loop EXCEPT ![i] = [Ready EXCEPT !.state = "over"]]
      <4>1. loop'[i].state = "over" /\ \A j \in Loops : j # i => loop'[j] = loop[j]
        BY <3>2 DEF Ready, Shape
      <4> QED
        BY <1>3, <4>1
    <3> QED
      BY <2>8, <3>1, <3>2 DEF RecordNoSession
  <2> QED
    BY <1>4, <2>3, <2>4, <2>5, <2>7, <2>8 DEF LoopStep
<1>5. CASE (\E p \in Prompts : ForwardControl(p) \/ PromptActive(p)) \/ PumpStep \/ CancelRun
  BY <1>1, <1>5
     DEF ForwardControl, PromptActive, PumpStep, Route, PumpDelivers, PumpRefuses, Stop,
                    FlushHeld, CancelRun
<1>6. CASE UNCHANGED vars
  BY <1>1, <1>6 DEF vars
<1> QED
  BY <1>2, <1>4, <1>5, <1>6 DEF Next

\* A prompt is put on hold while an attempt is in flight; whoever takes the
\* attempts away takes the held prompts with them.
LEMMA HeldNext ==
  ASSUME HeldInv, [Next]_vars
  PROVE  HeldInv'
<1>1. CASE UNCHANGED Counts
  BY <1>1 DEF HeldInv, Counts
<1>2. CASE held' = <<>>
  BY <1>2 DEF HeldInv
<1>3. CASE Route
  BY <1>3 DEF Route, HeldInv
<1>4. CASE Stop \/ CancelRun \/ NextEngine
  BY <1>2, <1>4 DEF Stop, CancelRun, NextEngine
<1>5. CASE PumpDelivers \/ PumpRefuses \/ FlushHeld
  BY <1>1, <1>5 DEF PumpDelivers, PumpRefuses, FlushHeld
<1>6. ASSUME NEW i \in Loops, StartLoop(i) \/ DeliverHeld(i) \/ RecordNoSession(i)
      PROVE  HeldInv'
  BY <1>1, <1>6 DEF StartLoop, DeliverHeld, RecordNoSession
<1>7. ASSUME NEW i \in Loops, BeginExecute(i) \/ EndStep(i)
      PROVE  HeldInv'
  BY <1>2, <1>7 DEF BeginExecute, EndStep
<1>8. ASSUME NEW i \in Loops, EndExecute(i)
      PROVE  HeldInv'
  BY <1>8 DEF EndExecute, HeldInv
<1>9. CASE \E p \in Prompts : ForwardControl(p) \/ PromptActive(p)
  BY <1>1, <1>9 DEF ForwardControl, PromptActive
<1>10. CASE UNCHANGED vars
  BY <1>1, <1>10 DEF vars, Counts
<1> QED
  BY <1>3, <1>4, <1>5, <1>6, <1>7, <1>8, <1>9, <1>10 DEF Next, PumpStep, LoopStep

-----------------------------------------------------------------------------
(* The theorems.                                                           *)

\* IInv holds at the start.
LEMMA InitIInv ==
  ASSUME Init
  PROVE  IInv
<1>1. MaxAttempts \in Nat /\ 0 \in 0 .. MaxAttempts
  BY PromptAssumption
<1>2. /\ Ready \in LoopRec /\ Ready.msgs = <<>> /\ Ready.state = "idle" /\ Ready.attempts = 0
  BY <1>1, EmptyFacts DEF Ready, LoopRec, LoopStates
<1>3. /\ loop \in [Loops -> LoopRec] /\ \A i \in Loops : loop[i] = Ready
  BY <1>2 DEF Init
<1>4. pump \in PumpRec /\ pump.msgs = <<>> /\ pump.state = "select"
  BY AtFacts, EmptyFacts DEF Init, PumpStates
<1>5. outcome \in [Prompts -> Seq(Outcomes)] /\ \A p \in Prompts : outcome[p] = <<>>
  BY EmptyFacts DEF Init
<1>6. Shape
  BY <1>3, <1>4, <1>5, EmptyFacts DEF Init, Shape
<1>7. NoCopies
  BY <1>2, <1>3, <1>4, EmptyFacts DEF Init, NoCopies
<1>8. /\ Answered = {} /\ Elems(queue) = {} /\ Elems(pump.msgs) = {} /\ Elems(held) = {}
      /\ \A i \in Loops : InHands(i) = {}
  BY <1>2, <1>3, <1>4, <1>5, EmptyFacts DEF Init, Answered, InHands
<1>9. PlaceInv
  BY <1>8 DEF PlaceInv
<1>10. OneOutcome
  BY <1>5, EmptySeq DEF OneOutcome
<1>11. PumpInv /\ IdleInv /\ HeldInv
  BY <1>2, <1>3, <1>4 DEF PumpInv, IdleInv, HeldInv, Init
<1>12. Tokens = {}
  BY <1>2, <1>3, TokenFacts DEF Active
<1>13. CountInv
  BY <1>12, FS_EmptySet DEF CountInv, Init
<1> QED
  BY <1>6, <1>7, <1>9, <1>10, <1>11, <1>13 DEF IInv, DeliveryInv

\* The inductive invariant of the prompts' way through the router.
THEOREM RouterInvariant == Spec => []IInv
<1>1. Init => IInv
  BY InitIInv
<1>2. IInv /\ [Next]_vars => IInv'
  BY DeliveryNext, IdleNext, CountNext, HeldNext DEF IInv, DeliveryInv
<1> QED
  BY <1>1, <1>2, PTL DEF Spec

\* No prompt is delivered or refused twice, nor delivered and refused:
\* whatever the pump decided before the unlock, no loop and no stop answers
\* the same prompt.
THEOREM OutcomeTheorem == Spec => []OneOutcome
<1>1. IInv => OneOutcome
  BY DEF IInv, DeliveryInv
<1> QED
  BY <1>1, RouterInvariant, PTL

\* A prompt is held only while a loop with an attempt under way is there to
\* take it, however many loops and attempts share the count.
THEOREM HeldTheorem == Spec => []HeldHasLoop
<1>1. IInv => HeldHasLoop
  <2>1. SUFFICES ASSUME IInv, held # <<>> PROVE \E i \in Loops : Between(i)
    BY DEF HeldHasLoop
  <2>2. Shape /\ Cardinality(Tokens) > 0
    BY <2>1 DEF IInv, DeliveryInv, HeldInv, CountInv
  <2>3. Tokens # {}
    BY <2>2, FS_EmptySet
  <2>4. PICK i \in Loops, k \in 1 .. MaxAttempts : <<i, k>> \in Tokens
    BY <2>3, TokenFacts
  <2>5. Active(i) /\ k <= loop[i].attempts
    BY <2>4, TokenFacts
  <2>6. loop[i].attempts > 0
    BY <2>2, <2>5, RecFacts, TokensFinite
  <2> QED
    BY <2>5, <2>6 DEF Active, Between
<1> QED
  BY <1>1, RouterInvariant, PTL

=============================================================================
