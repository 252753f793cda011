------------------------ MODULE EventPublisherProofs ------------------------
(***************************************************************************)
(* Proofs about EventPublisher, for any number of emitters, envelopes and  *)
(* streams and any capacity of sendCh: the publisher, its streams and the  *)
(* server implement RunLog, and a drain that returns by itself leaves      *)
(* nothing behind.                                                         *)
(*                                                                         *)
(* The argument follows one line of consecutive numbers.  What is          *)
(* acknowledged, pending, in hand and in sendCh is one run from 1 to       *)
(* accepted; Sent is where the part that was handed to a stream ends.  A   *)
(* stream carries a run as well: toReplay is its end, up its middle, and   *)
(* what its handler has read, Read, never lies beyond the log.  So does    *)
(* what every handler left behind still has to read, wherever it starts.   *)
(* Hence no handler can append anything but the next number.               *)
(***************************************************************************)
EXTENDS EventPublisher, FiniteSetTheorems, SequenceTheorems, TLAPS

\* s counts on from r.
Run(s, r) == \A i \in 1 .. Len(s) : s[i] = r + i

\* The last envelope that was made pending.
Sent == OwnAcked + Len(pending)

\* The number of the last acknowledged envelope of this publisher, or of the
\* last event before them.
AckedTo == prior + OwnAcked

InHand == IF hand = 0 THEN 0 ELSE 1

\* The last envelope the handler of the open stream has read.
Read == Sent - (Len(toReplay) + Len(up))

Shape ==
  /\ pc \in [Emitters -> {"idle", "publishing", "counting"}]
  /\ accepted \in Nat /\ published \in Nat /\ hand \in Nat /\ lastAckedSeq \in Nat
  /\ acked \in Nat /\ prior \in Nat
  /\ sendCh \in Seq(Nat) /\ pending \in Seq(Nat) /\ toReplay \in Seq(Nat)
  /\ up \in Seq(Nat) /\ down \in Seq(Nat) /\ log \in Seq(Nat)
  /\ stale \subseteq Seq(Nat)
  /\ link \in {"none", "up", "broken", "cancelled"}
  /\ runner \in {"running", "draining", "left"}
  /\ since \in Nat /\ replayed \in BOOLEAN

\* The line from the last acknowledgement to the end of sendCh.
LineInv ==
  /\ Run(pending, OwnAcked)
  /\ hand # 0 => hand = Sent + 1
  /\ Run(sendCh, Sent + InHand)
  /\ accepted = Sent + InHand + Len(sendCh)
  /\ OwnAcked <= acked /\ acked <= lastAckedSeq

\* The log is a prefix of what was sent and holds all that was acknowledged.
LogInv ==
  /\ Run(log, 0)
  /\ OwnAcked <= Len(log) /\ Len(log) <= Sent

\* What is left to replay is the end of what was sent.
ReplayInv ==
  /\ loop # "replaying" => toReplay = <<>>
  /\ Len(toReplay) <= Sent
  /\ Run(toReplay, Sent - Len(toReplay))

\* What is on the way comes right before it, and leaves no gap to the log.
UpInv ==
  /\ link # "up" => up = <<>> /\ down = <<>>
  /\ link = "up" => /\ Len(toReplay) + Len(up) <= Sent
                    /\ Read <= Len(log) /\ Run(up, Read)

\* Neither does what a handler left behind has to read.
StaleInv ==
  \A s \in stale : /\ s # <<>>
                   /\ \E r \in 0 .. Len(log) : Run(s, r) /\ r + Len(s) <= Sent

\* The handler has answered the header, or there was none.
Answering == since = NoHeader \/ replayed

\* Acknowledgements may be repeated and old, but none is new before all the
\* ones below it: the receiver never skips an envelope of this publisher.
\* What an earlier one left it may skip, or be told of first.
DownInv ==
  /\ \A i \in 1 .. Len(down) :
       /\ down[i] \in 1 .. LastSeq
       /\ \A m \in AckedTo + 1 .. down[i] - 1 : \E j \in 1 .. i - 1 : down[j] = m
  /\ link = "up" /\ Answering =>
       \A m \in AckedTo + 1 .. prior + Read : \E j \in 1 .. Len(down) : down[j] = m
  /\ link = "up" /\ ~Answering =>
       down = <<>> /\ since = lastAckedSeq /\ Read = OwnAcked

StreamInv == Shape /\ LineInv /\ LogInv /\ ReplayInv /\ UpInv /\ StaleInv /\ DownInv

Counting == {e \in Emitters : pc[e] = "counting"}

\* The counter lags behind by the emitters between send and count.
CountInv ==
  /\ published + Cardinality(Counting) = accepted
  /\ accepted + Publishing <= MaxEvents

DriverInv ==
  /\ runner # "running" => AllPublished
  /\ drained => runner = "left" /\ (Len(log) = accepted \/ OldAcksCounted)

IInv == StreamInv /\ CountInv /\ DriverInv

-----------------------------------------------------------------------------
(* Runs of consecutive numbers.                                            *)

\* Append adds one entry at the end.
LEMMA AppendFacts ==
  ASSUME NEW s \in Seq(Nat), NEW x \in Nat
  PROVE  /\ Append(s, x) \in Seq(Nat) /\ Len(Append(s, x)) = Len(s) + 1
         /\ Append(s, x)[Len(s) + 1] = x
         /\ \A i \in 1 .. Len(s) : Append(s, x)[i] = s[i]
BY AppendProperties

\* Tail drops the first entry.
LEMMA TailFacts ==
  ASSUME NEW s \in Seq(Nat), s # <<>>
  PROVE  /\ Len(s) \in Nat /\ Len(s) >= 1
         /\ Head(s) = s[1] /\ Head(s) \in Nat
         /\ Tail(s) \in Seq(Nat) /\ Len(Tail(s)) = Len(s) - 1
         /\ \A i \in 1 .. Len(s) - 1 : Tail(s)[i] = s[i + 1]
BY EmptySeq, LenProperties, HeadTailProperties

\* The empty sequence continues anything.
LEMMA RunEmpty == \A r : Run(<<>>, r)
BY DEF Run

\* The next number may be appended.
LEMMA RunAppend ==
  ASSUME NEW s \in Seq(Nat), NEW r \in Nat, Run(s, r)
  PROVE  Run(Append(s, r + Len(s) + 1), r)
<1> DEFINE x == r + Len(s) + 1
<1>1. Len(s) \in Nat /\ x \in Nat
  BY LenProperties
<1>2. SUFFICES ASSUME NEW i \in 1 .. Len(s) + 1
               PROVE  Append(s, x)[i] = r + i
  BY <1>1, AppendFacts DEF Run
<1>3. CASE i = Len(s) + 1
  BY <1>1, <1>3, AppendFacts
<1>4. CASE i \in 1 .. Len(s)
  BY <1>1, <1>4, AppendFacts DEF Run
<1> QED
  BY <1>1, <1>3, <1>4

\* The first number may be taken away.
LEMMA RunTail ==
  ASSUME NEW s \in Seq(Nat), s # <<>>, NEW r \in Nat, Run(s, r)
  PROVE  Head(s) = r + 1 /\ Run(Tail(s), r + 1)
<1>1. Head(s) = r + 1
  BY TailFacts DEF Run
<1>2. ASSUME NEW i \in 1 .. Len(s) - 1
      PROVE  Tail(s)[i] = (r + 1) + i
  <2>1. Len(s) \in Nat /\ i + 1 \in 1 .. Len(s) /\ i \in Nat
    BY TailFacts
  <2>2. Tail(s)[i] = s[i + 1]
    BY TailFacts
  <2>3. s[i + 1] = r + (i + 1)
    BY <2>1 DEF Run
  <2> QED
    BY <2>1, <2>2, <2>3
<1> QED
  BY <1>1, <1>2, TailFacts DEF Run

\* A prefix is a run from the same place.
LEMMA RunPrefix ==
  ASSUME NEW s \in Seq(Nat), NEW r, Run(s, r), NEW n \in 0 .. Len(s)
  PROVE  /\ SubSeq(s, 1, n) \in Seq(Nat) /\ Len(SubSeq(s, 1, n)) = n
         /\ Run(SubSeq(s, 1, n), r)
<1>1. Len(s) \in Nat /\ n \in Int /\ \A i \in 1 .. n : s[i] \in Nat
  BY LenProperties
<1>2. /\ SubSeq(s, 1, n) \in Seq(Nat)
      /\ Len(SubSeq(s, 1, n)) = IF 1 <= n THEN n - 1 + 1 ELSE 0
      /\ \A i \in 1 .. (n - 1 + 1) : SubSeq(s, 1, n)[i] = s[1 + i - 1]
  BY <1>1, SubSeqProperties
<1> QED
  BY <1>1, <1>2 DEF Run

-----------------------------------------------------------------------------
(* clearPending and the server's log.                                      *)

\* The acknowledgement of the first pending envelope cuts it off.
LEMMA ClearFirst ==
  ASSUME pending \in Seq(Nat), pending # <<>>, NEW r \in Nat, Run(pending, r)
  PROVE  /\ ClearPending(r + 1) \in Seq(Nat)
         /\ Len(ClearPending(r + 1)) = Len(pending) - 1
         /\ Run(ClearPending(r + 1), r + 1)
<1> DEFINE env == r + 1
           k == CHOOSE i \in 1 .. Len(pending) :
                  pending[i] = env /\ \A j \in 1 .. i - 1 : pending[j] # env
           rest == SubSeq(pending, 2, Len(pending))
<1>1. Len(pending) \in Nat /\ Len(pending) >= 1 /\ 1 \in 1 .. Len(pending)
  BY TailFacts
<1>2. \A i \in 1 .. Len(pending) : pending[i] = env => i = 1
  BY <1>1 DEF Run
<1>3. pending[1] = env
  BY <1>1 DEF Run
<1>4. k = 1
  <2>1. pending[1] = env /\ \A j \in 1 .. 1 - 1 : pending[j] # env
    BY <1>3
  <2> QED
    BY <2>1, <1>1, <1>2
<1>5. ClearPending(env) = SubSeq(pending, 1, k - 1) \o SubSeq(pending, k + 1, Len(pending))
  BY <1>1, <1>3 DEF ClearPending
<1>6. SubSeq(pending, 1, 0) = <<>>
  BY SubSeqEmpty
<1>7. rest = Tail(pending)
  BY TailIsSubSeq
<1>8. ClearPending(env) = <<>> \o Tail(pending)
  <2> HIDE DEF k, env, rest
  <2>1. k - 1 = 0 /\ k + 1 = 2
    BY <1>4
  <2> USE DEF rest
  <2> QED
    BY <2>1, <1>5, <1>6, <1>7
<1>9. ClearPending(env) = Tail(pending)
  <2>1. Tail(pending) \in Seq(Nat)
    BY TailFacts
  <2> QED
    BY <1>8, <2>1, ConcatEmptySeq
<1> QED
  BY <1>9, TailFacts, RunTail

\* The acknowledgement of an envelope that is not pending changes nothing.
LEMMA ClearOld ==
  ASSUME pending \in Seq(Nat), NEW r \in Nat, Run(pending, r),
         NEW env \in Nat, env <= r
  PROVE  ClearPending(env) = pending
<1>1. ~ \E i \in 1 .. Len(pending) : pending[i] = env
  BY LenProperties DEF Run
<1> QED
  BY <1>1 DEF ClearPending

\* A handler that reads the next envelope, or one the log has, keeps the log
\* a run from 1; the acknowledgement it sends is that envelope's place.
LEMMA StoredIsRun ==
  ASSUME log \in Seq(Nat), Run(log, 0), NEW env \in 1 .. Len(log) + 1,
         log' = Stored(env)
  PROVE  /\ log' \in Seq(Nat) /\ Run(log', 0)
         /\ log' = log \/ log' = Append(log, Len(log) + 1)
         /\ Len(log') = IF env = Len(log) + 1 THEN Len(log) + 1 ELSE Len(log)
         /\ (CHOOSE i \in DOMAIN log' : log'[i] = env) = env
<1>1. Len(log) \in Nat /\ DOMAIN log = 1 .. Len(log)
  BY LenProperties
<1>2. /\ log' \in Seq(Nat) /\ Run(log', 0)
      /\ log' = log \/ log' = Append(log, Len(log) + 1)
      /\ Len(log') = IF env = Len(log) + 1 THEN Len(log) + 1 ELSE Len(log)
  <2>1. CASE env \in 1 .. Len(log)
    <3>1. log[env] = env
      BY <2>1, <1>1 DEF Run
    <3>2. log' = log
      BY <3>1, <2>1, <1>1 DEF Stored
    <3> QED
      <4>1. env # Len(log) + 1
        BY <2>1, <1>1
      <4> QED
        BY <3>2, <4>1
  <2>2. CASE env = Len(log) + 1
    <3>1. ~ \E i \in DOMAIN log : log[i] = env
      BY <2>2, <1>1 DEF Run
    <3>2. log' = Append(log, Len(log) + 1)
      BY <3>1, <2>2 DEF Stored
    <3>3. Run(Append(log, 0 + Len(log) + 1), 0)
      BY RunAppend
    <3>4. 0 + Len(log) + 1 = Len(log) + 1 /\ Len(log) + 1 \in Nat
      BY <1>1
    <3> QED
      BY <3>2, <3>3, <3>4, <2>2, AppendFacts
  <2> QED
    BY <2>1, <2>2, <1>1
<1>3. DOMAIN log' = 1 .. Len(log') /\ env \in 1 .. Len(log')
  BY <1>1, <1>2, LenProperties
<1>4. \A i \in 1 .. Len(log') : log'[i] = i
  BY <1>2, <1>1 DEF Run
<1> QED
  BY <1>2, <1>3, <1>4

\* The acknowledgements of everything above the header.
LEMMA ReplayedAcks ==
  ASSUME NEW n \in Nat, NEW a \in Nat
  PROVE  /\ <<>> \o [i \in 1 .. n |-> a + i] = [i \in 1 .. n |-> a + i]
         /\ [i \in 1 .. n |-> a + i] \in Seq(Nat)
         /\ <<>> \o [i \in 1 .. n |-> a + i] \in Seq(Nat)
         /\ Len(<<>> \o [i \in 1 .. n |-> a + i]) = n
<1> DEFINE s == [i \in 1 .. n |-> a + i]
<1>1. s \in [1 .. n -> Nat]
  OBVIOUS
<1>2. s \in Seq(Nat)
  BY <1>1, SeqDef
<1>3. Len(s) = n
  BY <1>1, <1>2, LenProperties
<1>4. <<>> \o s = s
  BY <1>2, ConcatEmptySeq
<1> QED
  BY <1>2, <1>3, <1>4

-----------------------------------------------------------------------------
(* Every step keeps the picture of the stream.                             *)

\* Lengths are numbers.
LEMMA Lengths ==
  ASSUME Shape
  PROVE  /\ Len(pending) \in Nat /\ Len(sendCh) \in Nat /\ Len(toReplay) \in Nat
         /\ Len(up) \in Nat /\ Len(down) \in Nat /\ Len(log) \in Nat
         /\ OwnAcked \in Nat /\ prior \in Nat /\ AckedTo \in Nat /\ LastSeq \in Nat
         /\ Sent \in Nat /\ InHand \in Nat /\ Read \in Int
<1>1. /\ Len(pending) \in Nat /\ Len(sendCh) \in Nat /\ Len(toReplay) \in Nat
      /\ Len(up) \in Nat /\ Len(down) \in Nat /\ Len(log) \in Nat
  BY LenProperties DEF Shape
<1>2. OwnAcked \in Nat /\ prior \in Nat
  BY PublisherAssumption DEF Shape, OwnAcked
<1> QED
  BY <1>1, <1>2 DEF Shape, Sent, InHand, Read, AckedTo, LastSeq

\* What lies above the larger number lies above the smaller one.
LEMMA Between ==
  ASSUME NEW a \in Nat, NEW b \in Nat, a <= b, NEW c \in Int, NEW m \in b + 1 .. c
  PROVE  m \in a + 1 .. c /\ m > b /\ m \in Nat
OBVIOUS

\* What a handler left behind has to read stays readable as the log and the
\* line grow.
LEMMA StaleLater ==
  ASSUME StaleInv, stale' = stale, Len(log) \in Nat, Len(log') \in Nat, Len(log) <= Len(log'),
         Sent \in Nat, Sent' \in Nat, Sent <= Sent', stale \subseteq Seq(Nat)
  PROVE  StaleInv'
<1>1. SUFFICES ASSUME NEW s \in stale
               PROVE  s # <<>> /\ \E r \in 0 .. Len(log') : Run(s, r) /\ r + Len(s) <= Sent'
  BY DEF StaleInv
<1>2. s # <<>> /\ Len(s) \in Nat
  BY LenProperties DEF StaleInv
<1>3. PICK r \in 0 .. Len(log) : Run(s, r) /\ r + Len(s) <= Sent
  BY DEF StaleInv
<1> QED
  BY <1>2, <1>3

\* Nothing happens.
LEMMA StutterKeeps ==
  ASSUME StreamInv, UNCHANGED vars
  PROVE  StreamInv'
<1> USE DEF StreamInv
<1>1. Shape'
  BY DEF Shape, vars, emitVars, ackVars, streamVars, driverVars
<1>2. LineInv'
  BY DEF Shape, LineInv, InHand, Sent, OwnAcked, vars, emitVars, ackVars, streamVars, driverVars
<1>3. LogInv'
  BY DEF Shape, LogInv, Sent, OwnAcked, vars, emitVars, ackVars, streamVars, driverVars
<1>4. ReplayInv'
  BY DEF Shape, ReplayInv, Sent, OwnAcked, vars, emitVars, ackVars, streamVars, driverVars
<1>5. UpInv'
  BY DEF Shape, UpInv, Read, Sent, OwnAcked, vars, emitVars, ackVars, streamVars, driverVars
<1>6. StaleInv'
  BY DEF Shape, StaleInv, Sent, OwnAcked, vars, emitVars, ackVars, streamVars, driverVars
<1>7. DownInv'
  BY DEF Shape, DownInv, AckedTo, LastSeq, Read, Sent, OwnAcked, Answering, vars, emitVars, ackVars, streamVars, driverVars
<1> QED
  BY <1>1, <1>2, <1>3, <1>4, <1>5, <1>6, <1>7

\* An emitter calls Publish, or counts what it has published.
LEMMA EmitKeeps ==
  ASSUME StreamInv, NEW e \in Emitters, Emit(e) \/ Count(e)
  PROVE  StreamInv'
<1> USE DEF StreamInv
<1>1. Shape'
  <2>1. pc' \in [Emitters -> {"idle", "publishing", "counting"}] /\ published' \in Nat
    <3>1. CASE Emit(e)
      BY <3>1 DEF Shape, Emit
    <3>2. CASE Count(e)
      BY <3>2 DEF Shape, Count
    <3> QED
      BY <3>1, <3>2
  <2> QED
    BY <2>1 DEF Shape, Emit, Count, emitVars, ackVars, streamVars, driverVars
<1>2. LineInv'
  <2>1. UNCHANGED <<prior, pending, lastAckedSeq, OwnAcked, hand, sendCh, accepted, acked>>
    BY DEF Emit, Count, emitVars, ackVars, streamVars, driverVars, OwnAcked
  <2> QED
    BY <2>1 DEF LineInv, InHand, Sent, OwnAcked
<1>3. LogInv'
  BY DEF Shape, LogInv, Sent, OwnAcked, Emit, Count, emitVars, ackVars, streamVars, driverVars
<1>4. ReplayInv'
  BY DEF Shape, ReplayInv, Sent, OwnAcked, Emit, Count, emitVars, ackVars, streamVars, driverVars
<1>5. UpInv'
  BY DEF Shape, UpInv, Read, Sent, OwnAcked, Emit, Count, emitVars, ackVars, streamVars, driverVars
<1>6. StaleInv'
  BY DEF Shape, StaleInv, Sent, OwnAcked, Emit, Count, emitVars, ackVars, streamVars, driverVars
<1>7. DownInv'
  <2>1. UNCHANGED <<prior, pending, lastAckedSeq, OwnAcked, toReplay, up, down, log, link, since, replayed>>
    BY DEF Emit, Count, emitVars, ackVars, streamVars, driverVars, OwnAcked
  <2> QED
    BY <2>1 DEF DownInv, AckedTo, LastSeq, Read, Sent, OwnAcked, Answering
<1> QED
  BY <1>1, <1>2, <1>3, <1>4, <1>5, <1>6, <1>7

\* An envelope joins the end of the line.
LEMMA EnqueueKeeps ==
  ASSUME StreamInv, NEW e \in Emitters, Enqueue(e)
  PROVE  StreamInv'
<1> USE DEF StreamInv
<1>1. Shape'
  <2>1. pc' \in [Emitters -> {"idle", "publishing", "counting"}] /\ accepted' \in Nat
    BY DEF Shape, Enqueue
  <2>2. sendCh' \in Seq(Nat)
    BY AppendFacts DEF Shape, Enqueue
  <2> QED
    BY <2>1, <2>2 DEF Shape, Enqueue, ackVars, streamVars, driverVars
<1>2. LineInv'
  <2> DEFINE from == Sent + InHand
  <2>1. from \in Nat /\ sendCh \in Seq(Nat) /\ Len(sendCh) \in Nat
    BY Lengths DEF Shape
  <2>2. accepted + 1 = from + Len(sendCh) + 1
    BY <2>1 DEF LineInv
  <2>3. Run(Append(sendCh, from + Len(sendCh) + 1), from)
    BY <2>1, RunAppend DEF LineInv
  <2>4. sendCh' = Append(sendCh, from + Len(sendCh) + 1) /\ accepted' = from + Len(sendCh) + 1
    BY <2>2 DEF Enqueue
  <2>5. Len(sendCh') = Len(sendCh) + 1
    BY <2>1, <2>4, AppendFacts
  <2>6. UNCHANGED <<prior, pending, lastAckedSeq, OwnAcked, hand, acked, Sent, InHand>>
    BY DEF Enqueue, ackVars, Sent, OwnAcked, InHand, driverVars
  <2>7. Run(sendCh', from)
    BY <2>3, <2>4
  <2>8. accepted' = from + Len(sendCh')
    BY <2>1, <2>4, <2>5
  <2> QED
    BY <2>6, <2>7, <2>8 DEF LineInv
<1>3. LogInv'
  BY DEF Shape, LogInv, Sent, OwnAcked, Enqueue, emitVars, ackVars, streamVars, driverVars
<1>4. ReplayInv'
  BY DEF Shape, ReplayInv, Sent, OwnAcked, Enqueue, emitVars, ackVars, streamVars, driverVars
<1>5. UpInv'
  BY DEF Shape, UpInv, Read, Sent, OwnAcked, Enqueue, emitVars, ackVars, streamVars, driverVars
<1>6. StaleInv'
  BY DEF Shape, StaleInv, Sent, OwnAcked, Enqueue, emitVars, ackVars, streamVars, driverVars
<1>7. DownInv'
  <2>1. UNCHANGED <<prior, pending, lastAckedSeq, OwnAcked, toReplay, up, down, log, link, since, replayed>>
    BY DEF Enqueue, emitVars, ackVars, streamVars, driverVars, OwnAcked
  <2> QED
    BY <2>1 DEF DownInv, AckedTo, LastSeq, Read, Sent, OwnAcked, Answering
<1> QED
  BY <1>1, <1>2, <1>3, <1>4, <1>5, <1>6, <1>7

\* A new stream replays everything pending.
LEMMA OpenKeeps ==
  ASSUME StreamInv, OpenStream
  PROVE  StreamInv'
<1> USE DEF StreamInv
<1>1. Shape'
  <2>1. since' \in Nat
    BY PublisherAssumption DEF OpenStream, Shape, NoHeader
  <2> QED
    BY <2>1, EmptySeq DEF Shape, OpenStream, emitVars, ackVars, driverVars
<1>2. LineInv'
  BY DEF Shape, LineInv, InHand, Sent, OwnAcked, OpenStream, emitVars, ackVars, streamVars, driverVars
<1>3. LogInv'
  BY DEF Shape, LogInv, Sent, OwnAcked, OpenStream, emitVars, ackVars, streamVars, driverVars
<1>4. ReplayInv'
  <2>1. toReplay' = pending /\ UNCHANGED <<prior, pending, lastAckedSeq, OwnAcked>> /\ loop' = "replaying"
    BY DEF OpenStream, ackVars, OwnAcked, driverVars
  <2>2. Sent' = Sent /\ Sent - Len(pending) = OwnAcked /\ Len(pending) <= Sent
    BY <2>1, Lengths DEF Sent, OwnAcked, Shape
  <2> QED
    BY <2>1, <2>2 DEF ReplayInv, LineInv
<1>5. UpInv'
  <2>1. /\ toReplay' = pending /\ up' = <<>> /\ link' = "up"
        /\ UNCHANGED <<prior, pending, lastAckedSeq, OwnAcked, log>>
    BY DEF OpenStream, ackVars, OwnAcked, driverVars
  <2>2. Read' = OwnAcked /\ (Len(toReplay) + Len(up) <= Sent)'
    BY <2>1, Lengths DEF Read, Sent, OwnAcked, Shape
  <2> QED
    BY <2>1, <2>2, RunEmpty DEF UpInv, LogInv
<1>6. StaleInv'
  BY DEF Shape, StaleInv, Sent, OwnAcked, OpenStream, emitVars, ackVars, streamVars, driverVars
<1>7. DownInv'
  <2>1. /\ toReplay' = pending /\ up' = <<>> /\ down' = <<>>
        /\ UNCHANGED <<prior, pending, lastAckedSeq, OwnAcked, log>> /\ replayed' = FALSE
    BY DEF OpenStream, ackVars, OwnAcked, driverVars
  <2>2. Read' = OwnAcked
    BY <2>1, Lengths DEF Read, Sent, OwnAcked, Shape
  <2>3. ~ Answering' => since' = lastAckedSeq
    BY <2>1, PublisherAssumption DEF OpenStream, Answering, Shape, NoHeader
  <2>4. \A m \in AckedTo' + 1 .. prior' + Read' : FALSE
    BY <2>1, <2>2, Lengths DEF AckedTo
  <2>5. Len(down') = 0
    BY <2>1, EmptySeq
  <2> QED
    BY <2>1, <2>2, <2>3, <2>4, <2>5 DEF DownInv
<1> QED
  BY <1>1, <1>2, <1>3, <1>4, <1>5, <1>6, <1>7

\* The loop moves on.
LEMMA LoopKeeps ==
  ASSUME StreamInv, EndLoop \/ ReplayDone
  PROVE  StreamInv'
<1> USE DEF StreamInv
<1>1. Shape'
  BY DEF Shape, EndLoop, ReplayDone, emitVars, ackVars, streamVars, driverVars
<1>2. LineInv'
  BY
     DEF Shape, LineInv, InHand, Sent, OwnAcked, EndLoop, ReplayDone, emitVars, ackVars, streamVars,
         driverVars
<1>3. LogInv'
  BY DEF Shape, LogInv, Sent, OwnAcked, EndLoop, ReplayDone, emitVars, ackVars, streamVars, driverVars
<1>4. ReplayInv'
  BY DEF Shape, ReplayInv, Sent, OwnAcked, EndLoop, ReplayDone, emitVars, ackVars, streamVars, driverVars
<1>5. UpInv'
  BY DEF Shape, UpInv, Read, Sent, OwnAcked, EndLoop, ReplayDone, emitVars, ackVars, streamVars, driverVars
<1>6. StaleInv'
  BY DEF Shape, StaleInv, Sent, OwnAcked, EndLoop, ReplayDone, emitVars, ackVars, streamVars, driverVars
<1>7. DownInv'
  <2>1. UNCHANGED <<prior, pending, lastAckedSeq, OwnAcked, toReplay, up, down, log, link, since, replayed>>
    BY DEF EndLoop, ReplayDone, emitVars, ackVars, streamVars, driverVars, OwnAcked
  <2> QED
    BY <2>1 DEF DownInv, AckedTo, LastSeq, Read, Sent, OwnAcked, Answering
<1> QED
  BY <1>1, <1>2, <1>3, <1>4, <1>5, <1>6, <1>7

\* A replayed envelope is the one the stream expects next.
LEMMA ReplayKeeps ==
  ASSUME StreamInv, Replay
  PROVE  StreamInv'
<1> USE DEF StreamInv
<1>1. Shape'
  <2>1. Head(toReplay) \in Nat /\ Tail(toReplay) \in Seq(Nat)
    BY TailFacts DEF Shape, Replay
  <2>2. Append(up, Head(toReplay)) \in Seq(Nat) /\ up \in Seq(Nat)
    BY <2>1, AppendFacts DEF Shape
  <2>3. up' \in Seq(Nat)
    BY <2>2 DEF Replay, SendOK
  <2> QED
    BY <2>1, <2>3 DEF Shape, Replay, emitVars, ackVars, driverVars
<1>2. LineInv'
  BY DEF Shape, LineInv, InHand, Sent, OwnAcked, Replay, SendOK, emitVars, ackVars, streamVars, driverVars
<1>3. LogInv'
  BY DEF Shape, LogInv, Sent, OwnAcked, Replay, SendOK, emitVars, ackVars, streamVars, driverVars
<1>4. ReplayInv'
  <2> DEFINE from == Sent - Len(toReplay)
  <2>1. from \in Nat /\ toReplay \in Seq(Nat) /\ toReplay # <<>> /\ loop = "replaying"
    BY Lengths DEF Shape, ReplayInv, Replay
  <2>2. Run(Tail(toReplay), from + 1) /\ Len(Tail(toReplay)) = Len(toReplay) - 1
    BY <2>1, RunTail, TailFacts DEF ReplayInv
  <2>3. toReplay' = Tail(toReplay) /\ Sent' = Sent /\ loop' = loop
    BY DEF Replay, Sent, OwnAcked, ackVars, driverVars
  <2>4. Sent' - Len(toReplay') = from + 1 /\ Len(toReplay') <= Sent'
    <3>1. Sent \in Nat /\ Len(toReplay) \in Nat /\ Len(toReplay) <= Sent
      BY Lengths DEF ReplayInv
    <3>2. Len(toReplay') = Len(toReplay) - 1
      BY <2>2, <2>3
    <3>3. Sent' = Sent
      BY <2>3
    <3> QED
      BY <3>1, <3>2, <3>3
  <2> QED
    BY <2>1, <2>2, <2>3, <2>4 DEF ReplayInv
<1>5. UpInv'
  <2> DEFINE from == Sent - Len(toReplay)
  <2>1. from \in Nat /\ toReplay \in Seq(Nat) /\ toReplay # <<>> /\ up \in Seq(Nat)
    BY Lengths DEF Shape, ReplayInv, Replay
  <2>2. Head(toReplay) = from + 1 /\ Len(Tail(toReplay)) = Len(toReplay) - 1
    BY <2>1, RunTail, TailFacts DEF ReplayInv
  <2>3. /\ toReplay' = Tail(toReplay) /\ Sent' = Sent
        /\ UNCHANGED <<down, link, log>>
    BY DEF Replay, Sent, OwnAcked, ackVars, driverVars
  <2>4. CASE link = "up"
    <3>1. up' = Append(up, from + 1)
      BY <2>2, <2>4 DEF Replay, SendOK
    <3>2. Read \in Nat /\ from + 1 = Read + Len(up) + 1 /\ Run(up, Read)
      BY <2>4, Lengths DEF Read, UpInv
    <3>3. Run(up', Read)
      BY <2>1, <3>1, <3>2, RunAppend
    <3>4. Len(up') = Len(up) + 1
      BY <2>1, <3>1, AppendFacts
    <3>5. Len(toReplay') + Len(up') = Len(toReplay) + Len(up) /\ Read' = Read
      <4>1. Len(toReplay') = Len(toReplay) - 1
        BY <2>2, <2>3
      <4>2. Sent' = Sent
        BY <2>3
      <4> QED
        BY <3>4, <4>1, <4>2, Lengths DEF Read
    <3> QED
      BY <2>3, <2>4, <3>3, <3>5 DEF UpInv
  <2>5. CASE link # "up"
    <3>1. up' = up
      BY <2>5 DEF Replay, SendOK
    <3> QED
      BY <2>3, <2>5, <3>1 DEF UpInv
  <2> QED
    BY <2>4, <2>5
<1>6. StaleInv'
  BY DEF Shape, StaleInv, Sent, OwnAcked, Replay, SendOK, emitVars, ackVars, streamVars, driverVars
<1>7. DownInv'
  <2>1. UNCHANGED <<down, prior, OwnAcked, lastAckedSeq, log, link, since, replayed, Sent>>
    BY DEF Replay, Sent, OwnAcked, ackVars, driverVars
  <2>2. CASE link = "up"
    <3>1. /\ up' = Append(up, Head(toReplay)) /\ toReplay' = Tail(toReplay)
          /\ up \in Seq(Nat) /\ toReplay \in Seq(Nat) /\ toReplay # <<>>
      BY <2>2 DEF Replay, SendOK, Shape
    <3>2. Len(up') = Len(up) + 1 /\ Len(toReplay') = Len(toReplay) - 1
      BY <3>1, AppendFacts, TailFacts
    <3>3. Read' = Read
      BY <2>1, <3>2, Lengths DEF Read
    <3> QED
      BY <2>1, <3>3 DEF DownInv, AckedTo, LastSeq, Answering
  <2>3. CASE link # "up"
    BY <2>1, <2>3 DEF DownInv, AckedTo, LastSeq
  <2> QED
    BY <2>2, <2>3
<1> QED
  BY <1>1, <1>2, <1>3, <1>4, <1>5, <1>6, <1>7

\* The stream is given up between two envelopes.
LEMMA GiveUpKeeps ==
  ASSUME StreamInv, loop' # "replaying", Abandon,
         UNCHANGED <<emitVars, sendCh, hand, ackVars, log, prior, runner>>
  PROVE  StreamInv'
<1> USE DEF StreamInv
<1>1. Shape'
  <2>1. stale' \subseteq Seq(Nat)
    BY DEF Abandon, Shape
  <2> QED
    BY <2>1, EmptySeq DEF Abandon, Shape, emitVars, ackVars
<1>2. LineInv'
  <2>1. UNCHANGED <<prior, pending, lastAckedSeq, OwnAcked, hand, sendCh, accepted, acked>>
    BY DEF Abandon, emitVars, ackVars, streamVars, driverVars, OwnAcked
  <2> QED
    BY <2>1 DEF LineInv, InHand, Sent, OwnAcked
<1>3. LogInv'
  BY DEF Shape, LogInv, Sent, OwnAcked, Abandon, emitVars, ackVars, streamVars, driverVars
<1>4. ReplayInv'
  <2>1. toReplay' = <<>> /\ Sent' = Sent
    BY DEF Abandon, Sent, OwnAcked, ackVars
  <2> QED
    BY <2>1, RunEmpty, Lengths DEF ReplayInv
<1>5. UpInv'
  BY DEF Shape, UpInv, Read, Sent, OwnAcked, Abandon, emitVars, ackVars, streamVars, driverVars
<1>6. StaleInv'
  <2>1. Sent' = Sent /\ log' = log
    BY DEF Sent, OwnAcked, ackVars
  <2>2. CASE link = "up" /\ up # <<>>
    <3>1. stale' = stale \cup {up}
      BY <2>2 DEF Abandon
    <3>2. Read \in 0 .. Len(log) /\ Run(up, Read) /\ Read + Len(up) <= Sent
      BY <2>2, Lengths DEF UpInv, Read
    <3> QED
      BY <2>1, <2>2, <3>1, <3>2 DEF StaleInv
  <2>3. CASE ~(link = "up" /\ up # <<>>)
    BY <2>1, <2>3 DEF Abandon, StaleInv
  <2> QED
    BY <2>2, <2>3
<1>7. DownInv'
  <2>1. down' = <<>> /\ link' = "none"
    BY DEF Abandon
  <2> QED
    BY <2>1 DEF DownInv, AckedTo, LastSeq
<1> QED
  BY <1>1, <1>2, <1>3, <1>4, <1>5, <1>6, <1>7

\* The loop takes the next envelope.
LEMMA DequeueKeeps ==
  ASSUME StreamInv, Dequeue
  PROVE  StreamInv'
<1> USE DEF StreamInv
<1>1. Shape'
  BY DEF Shape, Dequeue, emitVars, ackVars, streamVars, driverVars
<1>2. LineInv'
  <2> DEFINE from == Sent + InHand
  <2>1. /\ from = Sent /\ from \in Nat /\ sendCh \in Seq(Nat) /\ sendCh # <<>>
        /\ hand = 0 /\ InHand = 0
    BY Lengths DEF Shape, Dequeue, InHand
  <2>2. /\ Head(sendCh) = Sent + 1 /\ Run(Tail(sendCh), Sent + 1)
        /\ Len(Tail(sendCh)) = Len(sendCh) - 1
    BY <2>1, RunTail, TailFacts DEF LineInv
  <2>3. /\ hand' = Head(sendCh) /\ sendCh' = Tail(sendCh)
        /\ UNCHANGED <<prior, pending, lastAckedSeq, OwnAcked, accepted, acked, Sent>>
    BY DEF Dequeue, ackVars, emitVars, Sent, OwnAcked, driverVars
  <2>4. hand' = Sent' + 1 /\ InHand' = 1 /\ Sent' \in Nat
    BY <2>1, <2>2, <2>3 DEF InHand
  <2>5. accepted = Sent + Len(sendCh)
    BY <2>1, Lengths DEF LineInv
  <2>6. accepted' = Sent' + InHand' + Len(sendCh')
    BY <2>1, <2>2, <2>3, <2>4, <2>5, Lengths
  <2>7. Run(sendCh', Sent' + InHand')
    BY <2>2, <2>3, <2>4
  <2> QED
    BY <2>3, <2>4, <2>6, <2>7 DEF LineInv
<1>3. LogInv'
  BY DEF Shape, LogInv, Sent, OwnAcked, Dequeue, emitVars, ackVars, streamVars, driverVars
<1>4. ReplayInv'
  BY DEF Shape, ReplayInv, Sent, OwnAcked, Dequeue, emitVars, ackVars, streamVars, driverVars
<1>5. UpInv'
  BY DEF Shape, UpInv, Read, Sent, OwnAcked, Dequeue, emitVars, ackVars, streamVars, driverVars
<1>6. StaleInv'
  BY DEF Shape, StaleInv, Sent, OwnAcked, Dequeue, emitVars, ackVars, streamVars, driverVars
<1>7. DownInv'
  BY DEF Shape, DownInv, AckedTo, LastSeq, Read, Sent, OwnAcked, Answering, Dequeue, emitVars, ackVars, streamVars, driverVars
<1> QED
  BY <1>1, <1>2, <1>3, <1>4, <1>5, <1>6, <1>7

\* What was sent and is not yet in sendCh grows by the envelope in hand.
LEMMA SendLine ==
  ASSUME StreamInv, Send
  PROVE  /\ hand = Sent + 1 /\ Sent' = Sent + 1 /\ Len(pending') = Len(pending) + 1
         /\ pending' \in Seq(Nat) /\ LineInv' /\ LogInv'
<1> USE DEF StreamInv
<1>1. /\ hand = Sent + 1 /\ InHand = 1 /\ Sent \in Nat /\ pending \in Seq(Nat)
      /\ OwnAcked \in Nat /\ Len(pending) \in Nat
      /\ hand = OwnAcked + Len(pending) + 1
  BY Lengths DEF Send, LineInv, InHand, Sent, Shape
<1>2. /\ pending' = Append(pending, OwnAcked + Len(pending) + 1) /\ hand' = 0
      /\ UNCHANGED <<sendCh, lastAckedSeq, OwnAcked, accepted, acked, log>>
  BY <1>1 DEF Send, OwnAcked, emitVars, driverVars
<1>3. /\ pending' \in Seq(Nat) /\ Len(pending') = Len(pending) + 1
      /\ Run(pending', OwnAcked)
  BY <1>1, <1>2, AppendFacts, RunAppend DEF LineInv
<1>4. Sent' = Sent + 1 /\ InHand' = 0
  BY <1>1, <1>2, <1>3 DEF Sent, InHand
<1>5. Sent' + InHand' = Sent + InHand
  BY <1>1, <1>4
<1>6. LineInv'
  BY <1>2, <1>3, <1>5 DEF LineInv
<1>7. LogInv'
  BY <1>1, <1>2, <1>4, Lengths DEF LogInv
<1> QED
  BY <1>1, <1>3, <1>4, <1>6, <1>7

\* An envelope that becomes pending is the one the stream expects next.
LEMMA SendKeeps ==
  ASSUME StreamInv, Send
  PROVE  StreamInv'
<1> USE DEF StreamInv
<1>1. /\ hand = Sent + 1 /\ Sent' = Sent + 1 /\ pending' \in Seq(Nat) /\ Sent \in Nat
      /\ toReplay = <<>> /\ Len(toReplay) = 0
  BY SendLine, Lengths, EmptySeq DEF Send, ReplayInv
<1>2. UNCHANGED <<accepted, published, pc, sendCh, lastAckedSeq, OwnAcked, prior, acked, log, runner,
                since, replayed>>
  BY DEF Send, Abandon, OwnAcked, emitVars, driverVars
<1>3. LineInv' /\ LogInv'
  BY SendLine
<1>4. toReplay' = <<>> /\ Len(toReplay') = 0
  BY <1>1, EmptySeq DEF Send, Abandon
<1>5. ReplayInv'
  BY <1>1, <1>4, RunEmpty DEF ReplayInv
<1>6. CASE link = "up"
  <2>1. up' = Append(up, Sent + 1) /\ UNCHANGED <<link, down, stale>>
    BY <1>1, <1>6 DEF Send, SendOK
  <2>2. up \in Seq(Nat) /\ up' \in Seq(Nat) /\ Len(up') = Len(up) + 1
    BY <1>1, <2>1, AppendFacts DEF Shape
  <2>3. Read \in Nat /\ Sent + 1 = Read + Len(up) + 1 /\ Run(up, Read)
    BY <1>1, <1>6, Lengths DEF Read, UpInv
  <2>4. Run(up', Read)
    BY <2>1, <2>2, <2>3, RunAppend
  <2>5. Read' = Read /\ (Len(toReplay) + Len(up) <= Sent)'
    BY <1>1, <1>4, <1>6, <2>2, <2>3, Lengths DEF Read
  <2>6. UpInv'
    BY <1>2, <1>6, <2>1, <2>4, <2>5 DEF UpInv
  <2>7. DownInv'
    BY <1>2, <2>1, <2>5 DEF DownInv, AckedTo, LastSeq, Answering
  <2>8. StaleInv'
    BY <1>1, <1>2, <2>1, StaleLater, Lengths DEF Shape
  <2>9. Shape'
    BY <1>1, <1>2, <1>4, <2>1, <2>2, EmptySeq DEF Shape, Send
  <2> QED
    BY <1>3, <1>5, <2>6, <2>7, <2>8, <2>9
<1>7. CASE link # "up"
  <2>1. up' = <<>> /\ down' = <<>> /\ stale' = stale /\ link' # "up"
    BY <1>7 DEF Send, SendOK, Abandon, UpInv
  <2>2. UpInv' /\ DownInv'
    BY <2>1, EmptySeq DEF UpInv, DownInv, AckedTo, LastSeq
  <2>3. StaleInv'
    BY <1>1, <1>2, <2>1, StaleLater, Lengths DEF Shape
  <2>4. link' \in {"none", "up", "broken", "cancelled"} /\ hand' \in Nat
    BY DEF Send, Abandon, Shape
  <2>5. Shape'
    BY <1>1, <1>2, <1>4, <2>1, <2>4, EmptySeq DEF Shape
  <2> QED
    BY <1>3, <1>5, <2>2, <2>3, <2>5
<1> QED
  BY <1>6, <1>7

\* An acknowledgement that is not old is the next one, and clears the first
\* pending envelope; one for an event of an earlier publisher clears nothing.
LEMMA AckLine ==
  ASSUME StreamInv, ReceiveAck
  PROVE  /\ Sent' = Sent /\ pending' \in Seq(Nat) /\ lastAckedSeq' \in Nat /\ acked' \in Nat
         /\ Run(pending', OwnAcked') /\ OwnAcked' \in Nat
         /\ OwnAcked' <= acked' /\ acked' <= lastAckedSeq'
         /\ OwnAcked' <= Len(log)
         /\ OwnAcked <= OwnAcked' /\ Head(down) <= prior + OwnAcked'
         /\ acked > OwnAcked => acked' > OwnAcked'
<1> USE DEF StreamInv
<1> DEFINE seq == Head(down)
<1>1. down \in Seq(Nat) /\ down # <<>> /\ seq = down[1] /\ 1 \in 1 .. Len(down)
  BY TailFacts, Lengths DEF Shape, ReceiveAck
<1>2. seq \in 1 .. prior + Len(log) /\ seq \in Nat
  BY <1>1, Lengths DEF DownInv, LastSeq
<1>3. \A m \in AckedTo + 1 .. seq - 1 : FALSE
  <2>1. \A m \in AckedTo + 1 .. down[1] - 1 : \E j \in 1 .. 1 - 1 : down[j] = m
    BY <1>1 DEF DownInv
  <2> QED
    BY <1>1, <2>1
<1>4. seq <= prior + OwnAcked + 1
  <2>1. AckedTo + 1 \notin AckedTo + 1 .. seq - 1
    BY <1>3
  <2>2. AckedTo \in Nat
    BY Lengths
  <2>3. seq <= AckedTo + 1
    BY <1>2, <2>1, <2>2
  <2> QED
    BY <2>3 DEF AckedTo
<1>5. seq > prior => log[seq - prior] = seq - prior
  BY <1>2, Lengths DEF LogInv, Run
<1>6. /\ lastAckedSeq' = IF seq > lastAckedSeq THEN seq ELSE lastAckedSeq
      /\ acked' = IF seq > lastAckedSeq THEN acked + 1 ELSE acked
      /\ pending' = IF seq > prior THEN ClearPending(seq - prior) ELSE pending
      /\ prior' = prior
  BY <1>5 DEF ReceiveAck, driverVars
<1> HIDE DEF seq
<1>7. /\ pending \in Seq(Nat) /\ lastAckedSeq \in Nat /\ acked \in Nat /\ Run(pending, OwnAcked)
      /\ OwnAcked <= acked /\ acked <= lastAckedSeq /\ OwnAcked <= Len(log) /\ Len(log) <= Sent
      /\ OwnAcked \in Nat /\ prior \in Nat /\ Len(log) \in Nat /\ Len(pending) \in Nat
      /\ OwnAcked = IF lastAckedSeq > prior THEN lastAckedSeq - prior ELSE 0
      /\ OwnAcked' = IF lastAckedSeq' > prior THEN lastAckedSeq' - prior ELSE 0
  BY <1>6, Lengths DEF Shape, LineInv, LogInv, OwnAcked
<1>8. CASE seq = prior + OwnAcked + 1
  <2>1. Len(pending) >= 1
    BY <1>2, <1>7, <1>8, Lengths DEF Sent
  <2>2. pending # <<>>
    BY <2>1, EmptySeq
  <2>3. seq - prior = OwnAcked + 1 /\ seq > prior /\ seq > lastAckedSeq
    BY <1>7, <1>8
  <2>4. /\ pending' \in Seq(Nat) /\ Len(pending') = Len(pending) - 1
        /\ Run(pending', OwnAcked + 1)
    BY <1>6, <1>7, <2>2, <2>3, ClearFirst
  <2>5. /\ lastAckedSeq' = seq /\ acked' = acked + 1 /\ OwnAcked' = OwnAcked + 1
        /\ OwnAcked + 1 <= Len(log)
    BY <1>2, <1>6, <1>7, <1>8, <2>3
  <2>6. Sent' = Sent
    <3>1. OwnAcked \in Nat /\ Len(pending) \in Nat
      BY <1>7
    <3>2. OwnAcked' = OwnAcked + 1 /\ Len(pending') = Len(pending) - 1
      BY <2>4, <2>5
    <3> QED
      BY <3>1, <3>2 DEF Sent
  <2>7. Run(pending', OwnAcked') /\ seq <= prior + OwnAcked'
    BY <1>7, <1>8, <2>4, <2>5
  <2>8. OwnAcked' <= acked' /\ acked' <= lastAckedSeq' /\ (acked > OwnAcked => acked' > OwnAcked')
    BY <1>2, <1>7, <2>3, <2>5
  <2>9. OwnAcked' \in Nat /\ acked' \in Nat /\ lastAckedSeq' \in Nat /\ OwnAcked <= OwnAcked'
    BY <1>2, <1>7, <2>5
  <2> QED
    BY <2>4, <2>5, <2>6, <2>7, <2>8, <2>9 DEF seq
<1>9. CASE seq <= prior + OwnAcked
  <2>1. pending' = pending
    <3>1. CASE seq > prior
      <4>1. seq - prior \in Nat /\ seq - prior <= OwnAcked
        BY <1>2, <1>7, <1>9, <3>1
      <4> QED
        BY <1>6, <1>7, <3>1, <4>1, ClearOld
    <3>2. CASE seq <= prior
      BY <1>2, <1>6, <1>7, <3>2
    <3> QED
      BY <1>2, <1>7, <3>1, <3>2
  <2>2. OwnAcked' = OwnAcked
    BY <1>2, <1>6, <1>7, <1>9
  <2>3. /\ lastAckedSeq' \in Nat /\ acked' \in Nat /\ acked <= acked' /\ acked' <= lastAckedSeq'
    BY <1>2, <1>6, <1>7
  <2>4. Sent' = Sent
    BY <2>1, <2>2 DEF Sent
  <2> QED
    <3>1. Run(pending', OwnAcked') /\ seq <= prior + OwnAcked' /\ OwnAcked' <= Len(log)
      BY <1>7, <1>9, <2>1, <2>2
    <3>2. OwnAcked' <= acked' /\ (acked > OwnAcked => acked' > OwnAcked')
      <4>1. OwnAcked \in Nat /\ acked \in Nat /\ OwnAcked <= acked
        BY <1>7
      <4>2. acked' \in Nat /\ acked <= acked'
        BY <2>3
      <4> QED
        BY <2>2, <4>1, <4>2
    <3>3. OwnAcked' \in Nat /\ OwnAcked <= OwnAcked' /\ pending' \in Seq(Nat)
      BY <1>7, <2>1, <2>2
    <3> QED
      BY <2>3, <2>4, <3>1, <3>2, <3>3 DEF seq
<1> QED
  BY <1>2, <1>4, <1>7, <1>8, <1>9

\* What is on its way stays in order when an acknowledgement is received.
LEMMA AckKeeps ==
  ASSUME StreamInv, ReceiveAck
  PROVE  StreamInv'
<1> USE DEF StreamInv
<1>1. /\ down \in Seq(Nat) /\ down # <<>> /\ Len(down) \in Nat /\ Head(down) = down[1]
      /\ down' \in Seq(Nat) /\ Len(down') = Len(down) - 1
      /\ \A i \in 1 .. Len(down') : down'[i] = down[i + 1]
  BY TailFacts DEF Shape, ReceiveAck
<1>2. /\ UNCHANGED <<accepted, published, pc, sendCh, hand, loop, toReplay, since, link, up,
                     replayed, stale, log, prior, runner>>
      /\ link = "up"
  BY DEF ReceiveAck, emitVars, driverVars
<1>3. Shape'
  BY <1>1, <1>2, AckLine DEF Shape
<1>4. LineInv'
  BY <1>2, AckLine DEF LineInv, InHand
<1>5. LogInv'
  BY <1>2, AckLine DEF LogInv
<1>6. ReplayInv' /\ StaleInv'
  BY <1>2, AckLine DEF ReplayInv, StaleInv
<1>7. Read' = Read
  BY <1>2, AckLine DEF Read
<1>8. UpInv'
  BY <1>2, <1>7, AckLine DEF UpInv
<1>9. AckedTo \in Nat /\ AckedTo' \in Nat /\ AckedTo <= AckedTo'
  <2>1. prior \in Nat /\ OwnAcked \in Nat
    BY Lengths
  <2>2. OwnAcked' \in Nat /\ OwnAcked <= OwnAcked' /\ prior' = prior
    BY <1>2, AckLine
  <2>3. AckedTo = prior + OwnAcked /\ AckedTo' = prior + OwnAcked'
    BY <2>2 DEF AckedTo
  <2>4. \A a, b, c \in Nat : b <= c => a + b \in Nat /\ a + c \in Nat /\ a + b <= a + c
    OBVIOUS
  <2> QED
    BY <2>1, <2>2, <2>3, <2>4
<1>a. down[1] <= AckedTo'
  BY <1>1, <1>2, AckLine DEF AckedTo
<1>b. LastSeq' = LastSeq /\ LastSeq \in Nat
  BY <1>2, Lengths DEF LastSeq
<1>10. Answering
  BY <1>1, <1>2 DEF DownInv
<1>11. ASSUME NEW i \in 1 .. Len(down')
       PROVE  /\ down'[i] \in 1 .. LastSeq
              /\ \A m \in AckedTo' + 1 .. down'[i] - 1 :
                   \E j \in 1 .. i - 1 : down'[j] = m
  <2>1. i + 1 \in 1 .. Len(down) /\ down'[i] = down[i + 1] /\ i \in Nat
    BY <1>1
  <2>2. down[i + 1] \in 1 .. LastSeq
    BY <2>1 DEF DownInv
  <2>3. ASSUME NEW m \in AckedTo' + 1 .. down'[i] - 1
        PROVE  \E j \in 1 .. i - 1 : down'[j] = m
    <3>1. m \in AckedTo + 1 .. down[i + 1] - 1 /\ m \in Nat /\ m > AckedTo'
      <4> DEFINE c == down[i + 1] - 1
      <4>1. LastSeq \in Nat
        BY <1>b
      <4>2. m \in AckedTo' + 1 .. c /\ c \in Int
        BY <2>1, <2>2, <4>1
      <4> HIDE DEF c
      <4>3. m \in AckedTo + 1 .. c /\ m > AckedTo' /\ m \in Nat
        BY <1>9, <4>2, Between
      <4> QED
        BY <4>3 DEF c
    <3>2. PICK j \in 1 .. (i + 1) - 1 : down[j] = m
      BY <2>1, <3>1 DEF DownInv
    <3>3. j # 1
      BY <1>9, <1>a, <3>1, <3>2
    <3>4. j - 1 \in 1 .. i - 1 /\ j - 1 \in 1 .. Len(down') /\ (j - 1) + 1 = j
      BY <1>1, <2>1, <3>2, <3>3
    <3>5. down'[j - 1] = m
      BY <1>1, <3>2, <3>4
    <3> QED
      BY <3>4, <3>5
  <2> QED
    BY <2>1, <2>2, <2>3
<1>12. ASSUME NEW m \in AckedTo' + 1 .. prior + Read
       PROVE  \E j \in 1 .. Len(down') : down'[j] = m
  <2>1. m \in AckedTo + 1 .. prior + Read /\ m > AckedTo' /\ m \in Nat
    <3>1. prior + Read \in Int
      BY Lengths
    <3> QED
      BY <1>9, <3>1, Between
  <2>2. PICK j \in 1 .. Len(down) : down[j] = m
    BY <1>2, <1>10, <2>1 DEF DownInv
  <2>3. j # 1
    BY <1>9, <1>a, <2>1, <2>2
  <2>4. j - 1 \in 1 .. Len(down') /\ (j - 1) + 1 = j
    BY <1>1, <2>2, <2>3
  <2>5. down'[j - 1] = m
    BY <1>1, <2>2, <2>4
  <2> QED
    BY <2>4, <2>5
<1>13. DownInv'
  BY <1>2, <1>7, <1>b, <1>10, <1>11, <1>12 DEF DownInv, Answering
<1> QED
  BY <1>3, <1>4, <1>5, <1>6, <1>8, <1>13

\* The receiver cancels the broken stream.
LEMMA CancelKeeps ==
  ASSUME StreamInv, ReceiverCancels
  PROVE  StreamInv'
<1> USE DEF StreamInv
<1>1. Shape'
  BY DEF Shape, ReceiverCancels, emitVars, ackVars, streamVars, driverVars
<1>2. LineInv'
  BY DEF Shape, LineInv, InHand, Sent, OwnAcked, ReceiverCancels, emitVars, ackVars, streamVars, driverVars
<1>3. LogInv'
  BY DEF Shape, LogInv, Sent, OwnAcked, ReceiverCancels, emitVars, ackVars, streamVars, driverVars
<1>4. ReplayInv'
  BY DEF Shape, ReplayInv, Sent, OwnAcked, ReceiverCancels, emitVars, ackVars, streamVars, driverVars
<1>5. UpInv'
  BY DEF Shape, UpInv, Read, Sent, OwnAcked, ReceiverCancels, emitVars, ackVars, streamVars, driverVars
<1>6. StaleInv'
  BY DEF Shape, StaleInv, Sent, OwnAcked, ReceiverCancels, emitVars, ackVars, streamVars, driverVars
<1>7. DownInv'
  BY
     DEF Shape, DownInv, AckedTo, LastSeq, Read, Sent, OwnAcked, Answering, ReceiverCancels, emitVars, ackVars, streamVars,
         driverVars
<1> QED
  BY <1>1, <1>2, <1>3, <1>4, <1>5, <1>6, <1>7

\* The handler answers the since_seq header.
LEMMA ReplayAcksKeeps ==
  ASSUME StreamInv, ReplayAcks
  PROVE  StreamInv'
<1> USE DEF StreamInv
<1>1. Shape'
  <2>1. down = <<>> /\ since = lastAckedSeq
    BY DEF ReplayAcks, DownInv, AckedTo, LastSeq, Answering
  <2> DEFINE n == LastSeq - lastAckedSeq
  <2>2. n \in Nat /\ down' = <<>> \o [i \in 1 .. n |-> lastAckedSeq + i]
    BY <2>1, Lengths DEF ReplayAcks, Shape, LogInv, LastSeq, OwnAcked
  <2>3. down' \in Seq(Nat)
    BY <2>2, ReplayedAcks DEF Shape
  <2> QED
    BY <2>3 DEF Shape, ReplayAcks, emitVars, ackVars, driverVars
<1>2. LineInv'
  BY DEF Shape, LineInv, InHand, Sent, OwnAcked, ReplayAcks, emitVars, ackVars, streamVars, driverVars
<1>3. LogInv'
  BY DEF Shape, LogInv, Sent, OwnAcked, ReplayAcks, emitVars, ackVars, streamVars, driverVars
<1>4. ReplayInv'
  BY DEF Shape, ReplayInv, Sent, OwnAcked, ReplayAcks, emitVars, ackVars, streamVars, driverVars
<1>5. UpInv'
  BY DEF Shape, UpInv, Read, Sent, OwnAcked, ReplayAcks, emitVars, ackVars, streamVars, driverVars
<1>6. StaleInv'
  BY DEF Shape, StaleInv, Sent, OwnAcked, ReplayAcks, emitVars, ackVars, streamVars, driverVars
<1>7. DownInv'
  <2> DEFINE n == LastSeq - lastAckedSeq
  <2>1. /\ link = "up" /\ ~Answering /\ down = <<>> /\ since = lastAckedSeq /\ Read = OwnAcked
        /\ n \in Nat /\ lastAckedSeq <= AckedTo /\ AckedTo \in Nat /\ LastSeq \in Nat
        /\ lastAckedSeq \in Nat
    BY Lengths DEF ReplayAcks, DownInv, AckedTo, LastSeq, Answering, LogInv, OwnAcked, Shape
  <2>2. UNCHANGED <<AckedTo, LastSeq, prior, link, Read>> /\ Answering'
    BY DEF ReplayAcks, Read, Sent, OwnAcked, AckedTo, LastSeq, ackVars, driverVars, Answering
  <2>3. down' = <<>> \o [i \in 1 .. n |-> lastAckedSeq + i]
    BY <2>1, Lengths DEF ReplayAcks, Shape
  <2>4. down' = [i \in 1 .. n |-> lastAckedSeq + i] /\ Len(down') = n
    BY <2>1, <2>3, ReplayedAcks DEF Shape
  <2>5. \A i \in 1 .. n : down'[i] = lastAckedSeq + i
    BY <2>4
  <2>6. ASSUME NEW i \in 1 .. Len(down')
        PROVE  /\ down'[i] \in 1 .. LastSeq
               /\ \A m \in AckedTo + 1 .. down'[i] - 1 :
                    \E j \in 1 .. i - 1 : down'[j] = m
    <3>1. down'[i] = lastAckedSeq + i /\ i \in 1 .. n
      BY <2>4, <2>5
    <3>2. down'[i] \in 1 .. LastSeq
      BY <2>1, <3>1, Lengths DEF Shape
    <3>3. ASSUME NEW m \in AckedTo + 1 .. down'[i] - 1
          PROVE  \E j \in 1 .. i - 1 : down'[j] = m
      <4>1. m - lastAckedSeq \in 1 .. i - 1 /\ m - lastAckedSeq \in 1 .. n
        BY <2>1, <3>1 DEF Shape
      <4>2. down'[m - lastAckedSeq] = m
        BY <2>5, <4>1 DEF Shape
      <4> QED
        BY <4>1, <4>2
    <3> QED
      BY <3>2, <3>3
  <2>7. \A m \in AckedTo + 1 .. prior + Read : FALSE
    BY <2>1 DEF AckedTo
  <2> QED
    BY <2>1, <2>2, <2>6, <2>7 DEF DownInv
<1> QED
  BY <1>1, <1>2, <1>3, <1>4, <1>5, <1>6, <1>7

\* The handler of the stream reads the next envelope and answers it.
LEMMA PersistKeeps ==
  ASSUME StreamInv, Persist
  PROVE  StreamInv'
<1> USE DEF StreamInv
<1>1. /\ up \in Seq(Nat) /\ up # <<>> /\ Len(up) \in Nat /\ Len(up) >= 1
      /\ up' = Tail(up) /\ up' \in Seq(Nat) /\ Len(up') = Len(up) - 1
      /\ link = "up" /\ Answering /\ log \in Seq(Nat) /\ Len(log) \in Nat
  BY TailFacts, Lengths DEF Shape, Persist, Answering
<1>2. Read \in Nat /\ Read <= Len(log) /\ Run(up, Read) /\ Read + 1 <= Sent
  BY <1>1, Lengths DEF UpInv, Read
<1>3. Head(up) = Read + 1 /\ Run(up', Read + 1)
  BY <1>1, <1>2, RunTail
<1>4. Read + 1 \in 1 .. Len(log) + 1 /\ log' = Stored(Read + 1)
  BY <1>1, <1>2, <1>3 DEF Persist
<1>5. /\ log' \in Seq(Nat) /\ Run(log', 0)
      /\ Len(log') = IF Read + 1 = Len(log) + 1 THEN Len(log) + 1 ELSE Len(log)
      /\ (CHOOSE i \in DOMAIN log' : log'[i] = Read + 1) = Read + 1
  BY <1>1, <1>4, StoredIsRun DEF LogInv
<1>6. down' = Append(down, prior + (Read + 1)) /\ down \in Seq(Nat)
  BY <1>3, <1>5 DEF Persist, Shape
<1>7. /\ down' \in Seq(Nat) /\ Len(down') = Len(down) + 1 /\ Len(down) \in Nat
      /\ down'[Len(down) + 1] = prior + (Read + 1) /\ prior \in Nat
      /\ \A i \in 1 .. Len(down) : down'[i] = down[i]
  BY <1>2, <1>6, AppendFacts, Lengths
<1>8. UNCHANGED <<accepted, published, pc, sendCh, hand, pending, lastAckedSeq, acked, loop,
                  toReplay, since, link, replayed, stale, runner, prior, OwnAcked, AckedTo, Sent>>
  BY DEF Persist, emitVars, ackVars, driverVars, Sent, OwnAcked, AckedTo
<1>9. Read' = Read + 1
  BY <1>1, <1>8, Lengths DEF Read
<1>10. Len(log') \in Nat /\ Len(log) <= Len(log') /\ Read + 1 <= Len(log') /\ Len(log') <= Sent
  <2>1. Len(log) \in Nat /\ Len(log) <= Sent /\ Sent \in Nat
    BY Lengths DEF LogInv
  <2> QED
    BY <1>2, <1>5, <2>1
<1>11. Shape'
  BY <1>1, <1>5, <1>7, <1>8 DEF Shape
<1>12. LineInv' /\ ReplayInv'
  BY <1>8 DEF LineInv, ReplayInv, InHand
<1>13. LogInv'
  <2>1. OwnAcked \in Nat /\ OwnAcked <= Len(log) /\ Len(log) \in Nat
    BY Lengths DEF LogInv
  <2>2. OwnAcked <= Len(log')
    BY <1>10, <2>1
  <2> QED
    BY <1>5, <1>8, <1>10, <2>2 DEF LogInv
<1>14. UpInv'
  <2>1. Len(toReplay') + Len(up') <= Sent'
    BY <1>1, <1>8, Lengths DEF UpInv
  <2> QED
    BY <1>1, <1>3, <1>8, <1>9, <1>10, <2>1 DEF UpInv
<1>15. StaleInv'
  BY <1>1, <1>8, <1>10, StaleLater, Lengths DEF Shape
<1>a. LastSeq' = prior + Len(log') /\ LastSeq = prior + Len(log) /\ AckedTo \in Nat
  BY <1>8, Lengths DEF LastSeq
<1>16. \A m \in AckedTo + 1 .. prior + Read : \E j \in 1 .. Len(down) : down'[j] = m
  BY <1>1, <1>7 DEF DownInv
<1>17. ASSUME NEW i \in 1 .. Len(down')
       PROVE  /\ down'[i] \in 1 .. LastSeq'
              /\ \A m \in AckedTo + 1 .. down'[i] - 1 :
                   \E j \in 1 .. i - 1 : down'[j] = m
  <2>1. CASE i \in 1 .. Len(down)
    <3>1. down[i] \in 1 .. LastSeq /\ down'[i] = down[i]
      BY <1>7, <2>1 DEF DownInv
    <3>2. \A m \in AckedTo + 1 .. down[i] - 1 : \E j \in 1 .. i - 1 : down[j] = m
      BY <2>1 DEF DownInv
    <3>3. \A j \in 1 .. i - 1 : down'[j] = down[j]
      BY <1>7, <2>1
    <3>4. down'[i] \in 1 .. LastSeq'
      BY <1>1, <1>7, <1>10, <1>a, <3>1
    <3>5. \A m \in AckedTo + 1 .. down'[i] - 1 : \E j \in 1 .. i - 1 : down'[j] = m
      BY <3>1, <3>2, <3>3
    <3> QED
      BY <3>4, <3>5
  <2>2. CASE i = Len(down) + 1
    <3>1. down'[i] = prior + (Read + 1) /\ (prior + (Read + 1)) - 1 = prior + Read /\ i - 1 = Len(down)
      BY <1>2, <1>7, <2>2
    <3>2. prior + (Read + 1) \in 1 .. LastSeq'
      BY <1>2, <1>7, <1>10, <1>a
    <3> QED
      BY <1>16, <3>1, <3>2
  <2> QED
    BY <1>7, <2>1, <2>2
<1>18. ASSUME NEW m \in AckedTo + 1 .. prior + (Read + 1)
       PROVE  \E j \in 1 .. Len(down') : down'[j] = m
  <2>1. CASE m = prior + (Read + 1)
    BY <1>7, <2>1
  <2>2. CASE m \in AckedTo + 1 .. prior + Read
    BY <1>7, <1>16, <2>2
  <2> QED
    BY <1>2, <1>7, <1>a, <2>1, <2>2
<1>19. DownInv'
  BY <1>1, <1>8, <1>9, <1>17, <1>18 DEF DownInv, Answering
<1> QED
  BY <1>11, <1>12, <1>13, <1>14, <1>15, <1>19

\* A handler left behind reads its next envelope; nobody hears its answer.
LEMMA StaleKeeps ==
  ASSUME StreamInv, NEW s \in stale, PersistStale(s)
  PROVE  StreamInv'
<1> USE DEF StreamInv
<1>1. s \in Seq(Nat) /\ s # <<>> /\ log \in Seq(Nat) /\ Len(log) \in Nat
  BY Lengths DEF Shape, StaleInv
<1>2. PICK r \in 0 .. Len(log) : Run(s, r) /\ r + Len(s) <= Sent
  BY DEF StaleInv
<1>3. /\ Head(s) = r + 1 /\ Run(Tail(s), r + 1) /\ Tail(s) \in Seq(Nat)
      /\ Len(Tail(s)) = Len(s) - 1 /\ Len(s) \in Nat /\ Len(s) >= 1
  BY <1>1, <1>2, RunTail, TailFacts
<1>4. r + 1 \in 1 .. Len(log) + 1 /\ log' = Stored(r + 1) /\ r + 1 <= Sent
  BY <1>1, <1>2, <1>3, Lengths DEF PersistStale
<1>5. /\ log' \in Seq(Nat) /\ Run(log', 0)
      /\ Len(log') = IF r + 1 = Len(log) + 1 THEN Len(log) + 1 ELSE Len(log)
  BY <1>1, <1>4, StoredIsRun DEF LogInv
<1>6. Len(log') \in Nat /\ Len(log) <= Len(log') /\ r + 1 <= Len(log') /\ Len(log') <= Sent
  <2>1. Len(log) <= Sent /\ Sent \in Nat
    BY Lengths DEF LogInv
  <2> QED
    BY <1>1, <1>2, <1>4, <1>5, <2>1
<1>7. UNCHANGED <<accepted, published, pc, sendCh, hand, pending, lastAckedSeq, acked, loop,
                  toReplay, since, link, up, down, replayed, runner, prior, OwnAcked, AckedTo,
                  Sent, Read>>
  BY DEF PersistStale, emitVars, ackVars, driverVars, Sent, OwnAcked, AckedTo, Read
<1>8. stale' = (stale \ {s}) \cup (IF Len(s) > 1 THEN {Tail(s)} ELSE {})
  BY DEF PersistStale
<1>9. Shape'
  BY <1>3, <1>5, <1>7, <1>8 DEF Shape
<1>10. LineInv' /\ ReplayInv'
  BY <1>7 DEF LineInv, ReplayInv, InHand
<1>11. LogInv'
  <2>1. OwnAcked \in Nat /\ OwnAcked <= Len(log) /\ Len(log) \in Nat
    BY Lengths DEF LogInv
  <2>2. OwnAcked <= Len(log')
    BY <1>6, <2>1
  <2> QED
    BY <1>5, <1>6, <1>7, <2>2 DEF LogInv
<1>12. UpInv'
  BY <1>1, <1>6, <1>7, Lengths DEF UpInv
<1>13. DownInv'
  <2>1. LastSeq \in Nat /\ LastSeq' \in Nat /\ LastSeq <= LastSeq'
    <3>1. prior \in Nat /\ Len(log) \in Nat
      BY Lengths
    <3>2. Len(log') \in Nat /\ Len(log) <= Len(log') /\ prior' = prior
      BY <1>6, <1>7
    <3> QED
      BY <3>1, <3>2 DEF LastSeq
  <2>2. \A i \in 1 .. Len(down) : down[i] \in 1 .. LastSeq'
    BY <2>1 DEF DownInv
  <2> QED
    BY <1>7, <2>2 DEF DownInv, Answering
<1>14. StaleInv'
  <2>1. ASSUME NEW t \in stale', t # Tail(s) \/ Len(s) <= 1
        PROVE  t # <<>> /\ \E q \in 0 .. Len(log') : Run(t, q) /\ q + Len(t) <= Sent'
    <3>1. t \in stale
      BY <1>3, <1>8, <2>1
    <3>2. t # <<>> /\ \E q \in 0 .. Len(log) : Run(t, q) /\ q + Len(t) <= Sent
      BY <3>1 DEF StaleInv
    <3> QED
      BY <1>1, <1>6, <1>7, <3>2
  <2>2. ASSUME Len(s) > 1
        PROVE  Tail(s) # <<>> /\ \E q \in 0 .. Len(log') : Run(Tail(s), q) /\ q + Len(Tail(s)) <= Sent'
    <3>1. Tail(s) # <<>>
      <4>1. Len(Tail(s)) # 0
        BY <1>3, <2>2
      <4> QED
        BY <4>1, EmptySeq
    <3>2. r + 1 \in 0 .. Len(log') /\ (r + 1) + Len(Tail(s)) <= Sent'
      BY <1>2, <1>3, <1>6, <1>7, Lengths
    <3> QED
      BY <1>3, <3>1, <3>2
  <2>3. ASSUME NEW t \in stale'
        PROVE  t # <<>> /\ \E q \in 0 .. Len(log') : Run(t, q) /\ q + Len(t) <= Sent'
    <3>1. CASE t # Tail(s) \/ Len(s) <= 1
      BY <2>1, <3>1
    <3>2. CASE t = Tail(s) /\ Len(s) > 1
      BY <2>2, <3>2
    <3> QED
      BY <1>3, <3>1, <3>2
  <2> QED
    BY <2>3 DEF StaleInv
<1> QED
  BY <1>9, <1>10, <1>11, <1>12, <1>13, <1>14

\* The stream breaks.
LEMMA BreakKeeps ==
  ASSUME StreamInv, StreamBreaks
  PROVE  StreamInv'
<1> USE DEF StreamInv
<1>b. \/ stale' = stale
      \/ \E s \in Seq(Nat) : /\ s # <<>> /\ stale' = stale \cup {s}
                             /\ \E r \in 0 .. Len(log) : Run(s, r) /\ r + Len(s) <= Sent
  <2>1. PICK n \in 0 .. Len(up) :
          stale' = IF n = 0 THEN stale ELSE stale \cup {SubSeq(up, 1, n)}
    BY DEF StreamBreaks
  <2>2. CASE n = 0
    BY <2>1, <2>2
  <2>3. CASE n # 0
    <3>1. up \in Seq(Nat) /\ Read \in 0 .. Len(log) /\ Run(up, Read) /\ Read + Len(up) <= Sent
      BY Lengths DEF StreamBreaks, UpInv, Read, Shape
    <3> DEFINE s == SubSeq(up, 1, n)
    <3>2. s \in Seq(Nat) /\ Len(s) = n /\ Run(s, Read)
      BY <3>1, RunPrefix
    <3>3. stale' = stale \cup {s}
      BY <2>1, <2>3
    <3> HIDE DEF s
    <3>4. s # <<>> /\ Read + Len(s) <= Sent
      BY <2>3, <3>1, <3>2, EmptySeq, Lengths
    <3> QED
      BY <3>1, <3>2, <3>3, <3>4
  <2> QED
    BY <2>2, <2>3
<1>1. Shape'
  <2>1. stale' \subseteq Seq(Nat)
    BY <1>b DEF Shape
  <2> QED
    BY <2>1 DEF StreamBreaks, Shape, emitVars, ackVars, driverVars
<1>2. LineInv'
  BY DEF Shape, LineInv, InHand, Sent, OwnAcked, StreamBreaks, emitVars, ackVars, streamVars, driverVars
<1>3. LogInv'
  BY DEF Shape, LogInv, Sent, OwnAcked, StreamBreaks, emitVars, ackVars, streamVars, driverVars
<1>4. ReplayInv'
  BY DEF Shape, ReplayInv, Sent, OwnAcked, StreamBreaks, emitVars, ackVars, streamVars, driverVars
<1>5. UpInv'
  BY DEF Shape, UpInv, Read, Sent, OwnAcked, StreamBreaks, emitVars, ackVars, streamVars, driverVars
<1>6. StaleInv'
  <2>1. Sent' = Sent /\ log' = log
    BY DEF StreamBreaks, Sent, OwnAcked, ackVars, driverVars
  <2> QED
    BY <2>1, <1>b DEF StaleInv
<1>7. DownInv'
  BY
     DEF Shape, DownInv, AckedTo, LastSeq, Read, Sent, OwnAcked, Answering, StreamBreaks, emitVars, ackVars, streamVars,
         driverVars
<1> QED
  BY <1>1, <1>2, <1>3, <1>4, <1>5, <1>6, <1>7

\* The context is cancelled.
LEMMA ContextKeeps ==
  ASSUME StreamInv, CancelContext
  PROVE  StreamInv'
<1> USE DEF StreamInv
<1>b. \/ stale' = stale
      \/ /\ up # <<>> /\ stale' = stale \cup {up}
         /\ Read \in 0 .. Len(log) /\ Run(up, Read) /\ Read + Len(up) <= Sent
  BY Lengths DEF CancelContext, UpInv, Read
<1>1. Shape'
  <2>1. stale' \subseteq Seq(Nat)
    BY <1>b DEF Shape
  <2> QED
    BY <2>1, EmptySeq DEF CancelContext, Shape, emitVars, ackVars
<1>2. LineInv'
  BY DEF Shape, LineInv, InHand, Sent, OwnAcked, CancelContext, emitVars, ackVars, streamVars, driverVars
<1>3. LogInv'
  BY DEF Shape, LogInv, Sent, OwnAcked, CancelContext, emitVars, ackVars, streamVars, driverVars
<1>4. ReplayInv'
  BY DEF Shape, ReplayInv, Sent, OwnAcked, CancelContext, emitVars, ackVars, streamVars, driverVars
<1>5. UpInv'
  BY DEF Shape, UpInv, Read, Sent, OwnAcked, CancelContext, emitVars, ackVars, streamVars, driverVars
<1>6. StaleInv'
  <2>1. Sent' = Sent /\ log' = log
    BY DEF CancelContext, Sent, OwnAcked, ackVars
  <2> QED
    BY <2>1, <1>b DEF StaleInv
<1>7. DownInv'
  <2>1. CASE link = "up"
    BY <2>1 DEF CancelContext, DownInv, AckedTo, LastSeq
  <2>2. CASE link # "up"
    <3>1. UNCHANGED <<prior, pending, lastAckedSeq, OwnAcked, toReplay, up, down, log, link, since, replayed>>
      BY <2>2 DEF CancelContext, ackVars, OwnAcked, driverVars
    <3> QED
      BY <3>1 DEF DownInv, AckedTo, LastSeq, Read, Sent, OwnAcked, Answering
  <2> QED
    BY <2>1, <2>2
<1> QED
  BY <1>1, <1>2, <1>3, <1>4, <1>5, <1>6, <1>7

\* The driver only touches its own state.
LEMMA DriverKeeps ==
  ASSUME StreamInv, (\E ok \in BOOLEAN : RunReturns(ok)) \/ DrainReturns \/ DrainTimesOut
  PROVE  StreamInv'
<1> USE DEF StreamInv
<1>1. Shape'
  BY DEF Shape, RunReturns, DrainReturns, DrainTimesOut, emitVars, ackVars, streamVars, driverVars
<1>2. LineInv'
  BY
     DEF Shape, LineInv, InHand, Sent, OwnAcked, RunReturns, DrainReturns, DrainTimesOut, emitVars, ackVars,
         streamVars, driverVars
<1>3. LogInv'
  BY
     DEF Shape, LogInv, Sent, OwnAcked, RunReturns, DrainReturns, DrainTimesOut, emitVars, ackVars,
         streamVars, driverVars
<1>4. ReplayInv'
  BY
     DEF Shape, ReplayInv, Sent, OwnAcked, RunReturns, DrainReturns, DrainTimesOut, emitVars, ackVars,
         streamVars, driverVars
<1>5. UpInv'
  BY
     DEF Shape, UpInv, Read, Sent, OwnAcked, RunReturns, DrainReturns, DrainTimesOut, emitVars, ackVars,
         streamVars, driverVars
<1>6. StaleInv'
  BY
     DEF Shape, StaleInv, Sent, OwnAcked, RunReturns, DrainReturns, DrainTimesOut, emitVars, ackVars,
         streamVars, driverVars
<1>7. DownInv'
  <2>1. UNCHANGED <<prior, pending, lastAckedSeq, OwnAcked, toReplay, up, down, log, link, since, replayed>>
    BY DEF RunReturns, DrainReturns, DrainTimesOut, emitVars, ackVars, streamVars, driverVars, OwnAcked
  <2> QED
    BY <2>1 DEF DownInv, AckedTo, LastSeq, Read, Sent, OwnAcked, Answering
<1> QED
  BY <1>1, <1>2, <1>3, <1>4, <1>5, <1>6, <1>7

\* Every action keeps the picture of the stream.
LEMMA StreamNext ==
  ASSUME StreamInv, [Next]_vars
  PROVE  StreamInv'
<1>1. ASSUME NEW e \in Emitters, Emit(e) \/ Enqueue(e) \/ Count(e)
      PROVE  StreamInv'
  BY <1>1, EmitKeeps, EnqueueKeeps
<1>2. CASE ReplayFails \/ LeaveSendLoop
  <2>1. /\ loop' # "replaying" /\ Abandon
        /\ UNCHANGED <<emitVars, sendCh, hand, ackVars, log, prior, runner>>
    BY <1>2 DEF ReplayFails, LeaveSendLoop, driverVars
  <2> QED
    BY <2>1, GiveUpKeeps
<1>3. CASE LoopStep
  BY <1>2, <1>3, OpenKeeps, LoopKeeps, ReplayKeeps, DequeueKeeps, SendKeeps DEF LoopStep
<1>4. CASE ReceiveAck \/ ReceiverCancels
  BY <1>4, AckKeeps, CancelKeeps
<1>5. CASE ServerStep \/ StreamBreaks
  BY <1>5, ReplayAcksKeeps, PersistKeeps, BreakKeeps DEF ServerStep
<1>6. ASSUME NEW s \in stale, PersistStale(s)
      PROVE  StreamInv'
  BY <1>6, StaleKeeps
<1>7. CASE CancelContext
  BY <1>7, ContextKeeps
<1>8. CASE (\E ok \in BOOLEAN : RunReturns(ok)) \/ DrainReturns \/ DrainTimesOut
  BY <1>8, DriverKeeps
<1>9. CASE UNCHANGED vars
  BY <1>9, StutterKeeps
<1> QED
  BY <1>1, <1>3, <1>4, <1>5, <1>6, <1>7, <1>8, <1>9 DEF Next

-----------------------------------------------------------------------------
(* The counters.                                                           *)

\* An emitter that changes its place is added to, or leaves, one set.
LEMMA CountMoves ==
  ASSUME NEW S, IsFiniteSet(S), NEW e
  PROVE  /\ e \notin S => Cardinality(S \cup {e}) = Cardinality(S) + 1
         /\ e \in S => Cardinality(S \ {e}) = Cardinality(S) - 1
         /\ Cardinality(S) \in Nat
BY FS_AddElement, FS_RemoveElement, FS_CardinalityType

\* Both sets of emitters are finite.
LEMMA FiniteEmitters ==
  IsFiniteSet(Counting) /\ IsFiniteSet({e \in Emitters : pc[e] = "publishing"})
<1>1. Counting \in SUBSET Emitters /\ {e \in Emitters : pc[e] = "publishing"} \in SUBSET Emitters
  BY DEF Counting
<1> QED
  BY <1>1, PublisherAssumption, FS_Subset

\* What was accepted is what was counted and what is about to be.
LEMMA CountNext ==
  ASSUME Shape, CountInv, [Next]_vars
  PROVE  CountInv'
<1> DEFINE P == {e \in Emitters : pc[e] = "publishing"}
           C == Counting
<1>0. /\ IsFiniteSet(C) /\ IsFiniteSet(P) /\ Cardinality(C) \in Nat /\ Cardinality(P) \in Nat
      /\ accepted \in Nat /\ published \in Nat /\ MaxEvents \in Nat
      /\ published + Cardinality(C) = accepted /\ accepted + Cardinality(P) <= MaxEvents
  BY FiniteEmitters, FS_CardinalityType, PublisherAssumption DEF Shape, CountInv, Publishing
<1>1. ASSUME NEW e \in Emitters, Emit(e)
      PROVE  CountInv'
  <2>1. P' = P \cup {e} /\ e \notin P /\ C' = C
    BY <1>1 DEF Emit, Shape, Counting
  <2>2. Cardinality(P') = Cardinality(P) + 1 /\ accepted + Cardinality(P) < MaxEvents
    BY <1>0, <1>1, <2>1, CountMoves DEF Emit, Publishing
  <2>3. UNCHANGED <<accepted, published>>
    BY <1>1 DEF Emit
  <2> HIDE DEF P, C
  <2>4. published' + Cardinality(C') = accepted' /\ accepted' + Cardinality(P') <= MaxEvents
    BY <1>0, <2>1, <2>2, <2>3
  <2> QED
    BY <2>4 DEF CountInv, Publishing, P, C
<1>2. ASSUME NEW e \in Emitters, Enqueue(e)
      PROVE  CountInv'
  <2>1. P' = P \ {e} /\ e \in P /\ C' = C \cup {e} /\ e \notin C
    BY <1>2 DEF Enqueue, Shape, Counting
  <2>2. Cardinality(P') = Cardinality(P) - 1 /\ Cardinality(C') = Cardinality(C) + 1
    BY <1>0, <2>1, CountMoves
  <2>3. accepted' = accepted + 1 /\ published' = published
    BY <1>2 DEF Enqueue
  <2> HIDE DEF P, C
  <2>4. published' + Cardinality(C') = accepted' /\ accepted' + Cardinality(P') <= MaxEvents
    BY <1>0, <2>2, <2>3
  <2> QED
    BY <2>4 DEF CountInv, Publishing, P, C
<1>3. ASSUME NEW e \in Emitters, Count(e)
      PROVE  CountInv'
  <2>1. P' = P /\ C' = C \ {e} /\ e \in C
    BY <1>3 DEF Count, Shape, Counting
  <2>2. Cardinality(C') = Cardinality(C) - 1
    BY <1>0, <2>1, CountMoves
  <2>3. accepted' = accepted /\ published' = published + 1
    BY <1>3 DEF Count
  <2> HIDE DEF P, C
  <2>4. published' + Cardinality(C') = accepted' /\ accepted' + Cardinality(P') <= MaxEvents
    BY <1>0, <2>1, <2>2, <2>3
  <2> QED
    BY <2>4 DEF CountInv, Publishing, P, C
<1>4. CASE UNCHANGED emitVars
  BY <1>4 DEF CountInv, Publishing, Counting, emitVars
<1>5. CASE LoopStep
  BY <1>4, <1>5
     DEF LoopStep, OpenStream, EndLoop, Replay, ReplayFails, ReplayDone, Dequeue, Send,
         LeaveSendLoop
<1>6. CASE ReceiveAck \/ ReceiverCancels \/ ServerStep \/ StreamBreaks
  BY <1>4, <1>6 DEF ReceiveAck, ReceiverCancels, ServerStep, ReplayAcks, Persist, StreamBreaks
<1>7. CASE \/ \E s \in stale : PersistStale(s)
           \/ CancelContext \/ (\E ok \in BOOLEAN : RunReturns(ok)) \/ DrainReturns \/ DrainTimesOut
  BY <1>4, <1>7 DEF PersistStale, CancelContext, RunReturns, DrainReturns, DrainTimesOut
<1>8. CASE UNCHANGED vars
  BY <1>4, <1>8 DEF vars
<1> QED
  BY <1>1, <1>2, <1>3, <1>5, <1>6, <1>7, <1>8 DEF Next

-----------------------------------------------------------------------------
(* The driver.                                                             *)

\* The log never loses an entry, and holds no more than was accepted.
LEMMA LogBounds ==
  ASSUME StreamInv
  PROVE  /\ Len(log) \in Nat /\ OwnAcked \in Nat /\ accepted \in Nat
         /\ OwnAcked <= Len(log) /\ Len(log) <= accepted
<1>1. Shape /\ LineInv /\ LogInv
  BY DEF StreamInv
<1>2. accepted = Sent + InHand + Len(sendCh) /\ OwnAcked <= Len(log) /\ Len(log) <= Sent
  BY <1>1 DEF LineInv, LogInv
<1> QED
  BY <1>1, <1>2, Lengths DEF Shape

\* One step changes the log not at all, or appends the next number.
LEMMA LogStep ==
  ASSUME StreamInv, [Next]_vars
  PROVE  log' = log \/ (log' = Append(log, Len(log) + 1) /\ accepted' = accepted)
<1> USE DEF StreamInv
<1>1. CASE Persist
  <2>1. /\ up \in Seq(Nat) /\ up # <<>> /\ Len(up) >= 1 /\ log \in Seq(Nat) /\ accepted' = accepted
        /\ Read \in 0 .. Len(log) /\ Run(up, Read)
    <3>1. /\ up \in Seq(Nat) /\ up # <<>> /\ log \in Seq(Nat) /\ accepted' = accepted
          /\ link = "up"
      BY <1>1 DEF Persist, Shape, emitVars
    <3>2. Len(up) >= 1
      BY <3>1, TailFacts
    <3>3. Read \in 0 .. Len(log) /\ Run(up, Read)
      <4>1. /\ Len(toReplay) + Len(up) <= Sent /\ Read <= Len(log) /\ Run(up, Read)
        BY <3>1 DEF UpInv
      <4>2. Len(toReplay) \in Nat /\ Len(up) \in Nat /\ Sent \in Nat /\ Len(log) \in Nat
        BY Lengths
      <4> QED
        BY <4>1, <4>2 DEF Read
    <3> QED
      BY <3>1, <3>2, <3>3
  <2>2. Head(up) = Read + 1
    BY <2>1, RunTail
  <2>3. Read + 1 \in 1 .. Len(log) + 1 /\ log' = Stored(Read + 1)
    BY <1>1, <2>1, <2>2, Lengths DEF Persist
  <2> QED
    BY <2>1, <2>3, StoredIsRun DEF LogInv
<1>2. ASSUME NEW s \in stale, PersistStale(s)
      PROVE  log' = log \/ (log' = Append(log, Len(log) + 1) /\ accepted' = accepted)
  <2>1. s \in Seq(Nat) /\ s # <<>> /\ log \in Seq(Nat) /\ accepted' = accepted
    BY <1>2 DEF PersistStale, Shape, StaleInv, emitVars
  <2>2. PICK r \in 0 .. Len(log) : Run(s, r)
    BY DEF StaleInv
  <2>3. Head(s) = r + 1
    BY <2>1, <2>2, RunTail
  <2>4. r + 1 \in 1 .. Len(log) + 1 /\ log' = Stored(r + 1)
    BY <1>2, <2>2, <2>3, Lengths DEF PersistStale
  <2> QED
    BY <2>1, <2>4, StoredIsRun DEF LogInv
<1>3. CASE UNCHANGED log
  BY <1>3
<1>4. CASE LoopStep
  BY <1>3, <1>4
     DEF LoopStep, OpenStream, EndLoop, Replay, ReplayFails, ReplayDone, Dequeue, Send,
         LeaveSendLoop
<1>5. CASE ReceiveAck \/ ReceiverCancels \/ ReplayAcks \/ StreamBreaks
  BY <1>3, <1>5 DEF ReceiveAck, ReceiverCancels, ReplayAcks, StreamBreaks
<1>6. CASE CancelContext \/ (\E ok \in BOOLEAN : RunReturns(ok)) \/ DrainReturns \/ DrainTimesOut
  BY <1>3, <1>6 DEF CancelContext, RunReturns, DrainReturns, DrainTimesOut
<1>7. CASE \E e \in Emitters : Emit(e) \/ Enqueue(e) \/ Count(e)
  BY <1>3, <1>7 DEF Emit, Enqueue, Count
<1>8. CASE UNCHANGED vars
  BY <1>3, <1>8 DEF vars
<1> QED
  BY <1>1, <1>2, <1>4, <1>5, <1>6, <1>7, <1>8 DEF Next, ServerStep

\* accepted grows by one, or stays; only an emitter in the select raises it.
LEMMA AcceptStep ==
  ASSUME Shape, [Next]_vars
  PROVE  \/ accepted' = accepted
         \/ (accepted' = accepted + 1 /\ log' = log /\ ~AllPublished /\ UNCHANGED <<drained, runner>>)
<1>1. ASSUME NEW e \in Emitters, Enqueue(e)
      PROVE  accepted' = accepted + 1 /\ log' = log /\ ~AllPublished /\ UNCHANGED <<drained, runner>>
  BY <1>1 DEF Enqueue, AllPublished, driverVars
<1>2. CASE UNCHANGED accepted
  BY <1>2
<1>3. CASE \E e \in Emitters : Emit(e) \/ Count(e)
  BY <1>2, <1>3 DEF Emit, Count
<1>4. CASE LoopStep
  BY <1>2, <1>4
     DEF LoopStep, OpenStream, EndLoop, Replay, ReplayFails, ReplayDone, Dequeue, Send,
         LeaveSendLoop, emitVars
<1>5. CASE ReceiveAck \/ ReceiverCancels \/ ServerStep \/ StreamBreaks
  BY <1>2, <1>5
     DEF ReceiveAck, ReceiverCancels, ServerStep, ReplayAcks, Persist, StreamBreaks, emitVars
<1>6. CASE \/ \E s \in stale : PersistStale(s)
           \/ CancelContext \/ (\E ok \in BOOLEAN : RunReturns(ok)) \/ DrainReturns \/ DrainTimesOut
  BY <1>2, <1>6 DEF PersistStale, CancelContext, RunReturns, DrainReturns, DrainTimesOut, emitVars
<1>7. CASE UNCHANGED vars
  BY <1>2, <1>7 DEF vars, emitVars
<1> QED
  BY <1>1, <1>3, <1>4, <1>5, <1>6, <1>7 DEF Next

\* The driver leaves "running" only when every emitter is done.
LEMMA IdleStep ==
  ASSUME Shape, DriverInv, [Next]_vars
  PROVE  /\ runner' # "running" => AllPublished'
         /\ drained' => runner' = "left"
<1>1. CASE \E e \in Emitters : Emit(e) \/ Enqueue(e) \/ Count(e)
  <2>1. PICK e \in Emitters : Emit(e) \/ Enqueue(e) \/ Count(e)
    BY <1>1
  <2>2. UNCHANGED <<runner, drained>> /\ (runner # "running" => FALSE)
    BY <2>1 DEF Emit, Enqueue, Count, DriverInv, AllPublished, driverVars
  <2> QED
    BY <2>2 DEF DriverInv
<1>2. CASE UNCHANGED <<pc, runner, drained>>
  BY <1>2 DEF DriverInv, AllPublished
<1>3. CASE LoopStep
  BY <1>2, <1>3 DEF LoopStep, OpenStream, EndLoop, Replay, ReplayFails, ReplayDone, Dequeue, Send,
                    LeaveSendLoop, emitVars, driverVars
<1>4. CASE ReceiveAck \/ ReceiverCancels \/ ServerStep \/ StreamBreaks
  BY <1>2, <1>4 DEF ReceiveAck, ReceiverCancels, ServerStep, ReplayAcks, Persist, StreamBreaks,
                    emitVars, driverVars
<1>5. CASE (\E s \in stale : PersistStale(s)) \/ CancelContext
  BY <1>2, <1>5 DEF PersistStale, CancelContext, emitVars, driverVars
<1>6. CASE (\E ok \in BOOLEAN : RunReturns(ok)) \/ DrainReturns \/ DrainTimesOut
  BY <1>6 DEF RunReturns, DrainReturns, DrainTimesOut, DriverInv, AllPublished, emitVars
<1>7. CASE UNCHANGED vars
  BY <1>2, <1>7 DEF vars, emitVars, driverVars
<1> QED
  BY <1>1, <1>3, <1>4, <1>5, <1>6, <1>7 DEF Next

\* drained is set by DrainReturns alone.
LEMMA OnlyDrainReturns ==
  ASSUME [Next]_vars, ~drained, drained'
  PROVE  DrainReturns
<1>1. CASE UNCHANGED drained
  BY <1>1
<1>2. CASE \E e \in Emitters : Emit(e) \/ Enqueue(e) \/ Count(e)
  BY <1>1, <1>2 DEF Emit, Enqueue, Count, driverVars
<1>3. CASE LoopStep
  BY <1>1, <1>3 DEF LoopStep, OpenStream, EndLoop, Replay, ReplayFails, ReplayDone, Dequeue, Send,
                    LeaveSendLoop, driverVars
<1>4. CASE ReceiveAck \/ ReceiverCancels \/ ServerStep \/ StreamBreaks
  BY <1>1, <1>4 DEF ReceiveAck, ReceiverCancels, ServerStep, ReplayAcks, Persist, StreamBreaks,
                    driverVars
<1>5. CASE \/ \E s \in stale : PersistStale(s)
           \/ CancelContext \/ (\E ok \in BOOLEAN : RunReturns(ok)) \/ DrainTimesOut
  BY <1>1, <1>5 DEF PersistStale, CancelContext, RunReturns, DrainTimesOut, driverVars
<1>6. CASE UNCHANGED vars
  BY <1>1, <1>6 DEF vars, driverVars
<1> QED
  BY <1>2, <1>3, <1>4, <1>5, <1>6 DEF Next

\* A counter that is too high stays too high.
LEMMA OldAcksStay ==
  ASSUME StreamInv, OldAcksCounted, [Next]_vars
  PROVE  OldAcksCounted'
<1>1. CASE UNCHANGED <<acked, lastAckedSeq, prior>>
  BY <1>1 DEF OldAcksCounted, OwnAcked
<1>2. CASE ReceiveAck
  BY <1>2, AckLine DEF OldAcksCounted
<1>3. CASE \E e \in Emitters : Emit(e) \/ Enqueue(e) \/ Count(e)
  BY <1>1, <1>3 DEF Emit, Enqueue, Count, ackVars, driverVars
<1>4. CASE LoopStep
  BY <1>1, <1>4 DEF LoopStep, OpenStream, EndLoop, Replay, ReplayFails, ReplayDone, Dequeue, Send,
                    LeaveSendLoop, ackVars, driverVars
<1>5. CASE ReceiverCancels \/ ServerStep \/ StreamBreaks
  BY <1>1, <1>5 DEF ReceiverCancels, ServerStep, ReplayAcks, Persist, StreamBreaks, ackVars,
                    driverVars
<1>6. CASE \/ \E s \in stale : PersistStale(s)
           \/ CancelContext \/ (\E ok \in BOOLEAN : RunReturns(ok)) \/ DrainReturns \/ DrainTimesOut
  BY <1>1, <1>6 DEF PersistStale, CancelContext, RunReturns, DrainReturns, DrainTimesOut, ackVars,
                    driverVars
<1>7. CASE UNCHANGED vars
  BY <1>1, <1>7 DEF vars, ackVars, driverVars
<1> QED
  BY <1>2, <1>3, <1>4, <1>5, <1>6, <1>7 DEF Next

\* A drain that comes to its end finds everything in the log, unless old
\* acknowledgements were counted.
LEMMA DriverNext ==
  ASSUME StreamInv, CountInv, DriverInv, [Next]_vars
  PROVE  DriverInv'
<1>0. Shape /\ StreamInv'
  BY StreamNext DEF StreamInv
<1>1. SUFFICES ASSUME drained' PROVE Len(log') = accepted' \/ OldAcksCounted'
  BY <1>0, IdleStep DEF DriverInv
<1>4. CASE drained /\ OldAcksCounted
  BY <1>4, OldAcksStay
<1>2. CASE drained /\ ~OldAcksCounted
  <2>1. Len(log) = accepted /\ AllPublished /\ Len(log) \in Nat /\ log \in Seq(Nat)
    BY <1>0, <1>2, Lengths DEF DriverInv, Shape
  <2>2. accepted' = accepted
    BY <1>0, <2>1, AcceptStep
  <2>3. Len(log') <= accepted'
    <3>1. (Len(log) <= accepted)'
      BY <1>0, LogBounds, PTL
    <3> QED
      BY <3>1
  <2>4. CASE log' = log
    BY <2>1, <2>2, <2>4
  <2>5. CASE log' = Append(log, Len(log) + 1)
    <3>1. Len(log') = Len(log) + 1
      BY <2>1, <2>5, AppendFacts
    <3> QED
      BY <2>1, <2>2, <2>3, <3>1
  <2> QED
    BY <2>4, <2>5, LogStep
<1>3. CASE ~drained
  <2>1. DrainReturns
    BY <1>1, <1>3, OnlyDrainReturns
  <2>2. UNCHANGED <<log, accepted>> /\ published = acked /\ AllPublished
    BY <1>0, <2>1 DEF DrainReturns, Drained, emitVars, DriverInv
  <2>3. Counting = {}
    BY <2>2 DEF AllPublished, Counting
  <2>4. published + 0 = accepted
    BY <2>3, FS_EmptySet DEF CountInv
  <2>5. OwnAcked <= acked /\ acked \in Nat /\ UNCHANGED <<acked, OwnAcked>>
    BY <2>1 DEF StreamInv, LineInv, Shape, DrainReturns, ackVars, OwnAcked
  <2> QED
    BY <1>0, <2>2, <2>4, <2>5, LogBounds DEF Shape, OldAcksCounted
<1> QED
  BY <1>2, <1>3, <1>4

-----------------------------------------------------------------------------
(* The theorems.                                                           *)

\* IInv holds at the start.
LEMMA InitIInv ==
  ASSUME Init
  PROVE  IInv
<1>1. Len(<<>>) = 0 /\ \A S : <<>> \in Seq(S)
  BY EmptySeq
<1>2. Shape
  <2>1. since \in Nat
    BY PublisherAssumption DEF Init, NoHeader
  <2>2. pc \in [Emitters -> {"idle", "publishing", "counting"}]
    BY DEF Init
  <2>3. stale \subseteq Seq(Nat)
    BY DEF Init
  <2>4. /\ accepted \in Nat /\ published \in Nat /\ hand \in Nat /\ lastAckedSeq \in Nat
        /\ acked \in Nat
        /\ link \in {"none", "up", "broken", "cancelled"}
        /\ runner \in {"running", "draining", "left"} /\ replayed \in BOOLEAN
    BY DEF Init
  <2>6. prior \in Nat
    <3>1. prior \in {0} \/ prior \in 0 .. MaxPrior
      BY DEF Init
    <3> QED
      BY <3>1, PublisherAssumption
  <2>5. /\ sendCh \in Seq(Nat) /\ pending \in Seq(Nat) /\ toReplay \in Seq(Nat)
        /\ up \in Seq(Nat) /\ down \in Seq(Nat) /\ log \in Seq(Nat)
    BY <1>1 DEF Init
  <2> QED
    BY <2>1, <2>2, <2>3, <2>4, <2>5, <2>6 DEF Shape
<1>3. Sent = 0 /\ InHand = 0 /\ Read = 0 /\ OwnAcked = 0
  <2>1. Len(pending) = 0 /\ Len(toReplay) = 0 /\ Len(up) = 0 /\ hand = 0 /\ lastAckedSeq = 0
    BY <1>1 DEF Init
  <2>2. OwnAcked = 0
    BY <1>2, <2>1, PublisherAssumption DEF OwnAcked, Shape
  <2> QED
    BY <2>1, <2>2 DEF Sent, InHand, Read
<1>4. LineInv /\ LogInv /\ ReplayInv /\ UpInv /\ StaleInv
  BY <1>1, <1>3, RunEmpty DEF Init, LineInv, LogInv, ReplayInv, UpInv, StaleInv
<1>5. DownInv
  BY <1>1 DEF Init, DownInv, AckedTo, LastSeq
<1>6. Counting = {} /\ {e \in Emitters : pc[e] = "publishing"} = {}
  BY DEF Init, Counting
<1>7. CountInv
  <2>1. Cardinality(Counting) = 0 /\ Publishing = 0
    BY <1>6, FS_EmptySet DEF Publishing
  <2>2. published = 0 /\ accepted = 0
    BY DEF Init
  <2> QED
    BY <2>1, <2>2, PublisherAssumption DEF CountInv
<1>8. DriverInv
  BY DEF Init, DriverInv
<1> QED
  BY <1>2, <1>4, <1>5, <1>7, <1>8 DEF IInv, StreamInv

\* Every step keeps IInv.
LEMMA NextIInv ==
  ASSUME IInv, [Next]_vars
  PROVE  IInv'
<1>1. StreamInv /\ CountInv /\ DriverInv /\ Shape
  BY DEF IInv, StreamInv
<1>2. StreamInv'
  BY <1>1, StreamNext
<1>3. CountInv'
  BY <1>1, CountNext
<1>4. DriverInv'
  BY <1>1, DriverNext
<1> QED
  BY <1>2, <1>3, <1>4 DEF IInv, StreamInv

\* The inductive invariant of the publisher, its streams and its server: line,
\* stream, handlers left behind and acknowledgements are runs of consecutive
\* numbers that fit together.
THEOREM PublisherInvariant == Spec => []IInv
<1>1. Init => IInv
  BY InitIInv
<1>2. IInv /\ [Next]_vars => IInv'
  BY NextIInv
<1> QED
  BY <1>1, <1>2, PTL DEF Spec

\* Drain returns by itself only when everything Publish took is in the log,
\* or when recvAcks has counted acknowledgements of an earlier publisher.
THEOREM DrainTheorem == Spec => []DrainMeansLogged
<1>1. IInv => DrainMeansLogged
  BY DEF IInv, DriverInv, DrainMeansLogged
<1> QED
  BY <1>1, PublisherInvariant, PTL

\* The publisher of a run the server holds nothing of has no such exception,
\* whatever its streams go through.
THEOREM FreshDrainTheorem == Spec => [](prior = 0 => DrainIsNeverEarly)
<1>1. IInv => (prior = 0 => DrainIsNeverEarly)
  <2>1. SUFFICES ASSUME IInv, prior = 0, drained
                 PROVE  Len(log) = accepted
    BY DEF DrainIsNeverEarly
  <2>2. acked <= lastAckedSeq /\ lastAckedSeq \in Nat /\ acked \in Nat
    BY <2>1 DEF IInv, StreamInv, LineInv, Shape
  <2>3. ~OldAcksCounted
    BY <2>1, <2>2 DEF OldAcksCounted, OwnAcked
  <2> QED
    BY <2>1, <2>3 DEF IInv, DriverInv
<1> QED
  BY <1>1, PublisherInvariant, PTL

\* A step of the publisher is a step of the promise, or changes nothing of it.
LEMMA StepRefines ==
  ASSUME IInv, [Next]_vars
  PROVE  [Promise!Next]_<<accepted, log>>
<1>1. StreamInv /\ Shape /\ StreamInv'
  BY StreamNext DEF IInv, StreamInv
<1>2. log \in Seq(Nat) /\ Len(log) \in Nat
  BY <1>1, Lengths DEF Shape
<1>3. CASE accepted' = accepted /\ log' = log
  BY <1>3
<1>4. CASE accepted' = accepted /\ log' = Append(log, Len(log) + 1)
  <2>1. (Len(log) <= accepted /\ accepted \in Nat)'
    BY <1>1, LogBounds, PTL
  <2>2. Len(log') = Len(log) + 1
    BY <1>2, <1>4, AppendFacts
  <2>3. Len(log) < accepted
    BY <1>2, <1>4, <2>1, <2>2
  <2> QED
    BY <1>4, <2>3 DEF Promise!Next, Promise!Persist
<1>5. CASE accepted' = accepted + 1 /\ log' = log
  BY <1>5 DEF Promise!Next, Promise!Accept
<1>6. accepted' = accepted \/ (accepted' = accepted + 1 /\ log' = log)
  BY <1>1, AcceptStep
<1> QED
  BY <1>1, <1>3, <1>4, <1>5, <1>6, LogStep

\* The publisher implements RunLog: whatever breaks, is replayed or is read
\* by a handler of an earlier stream, the log receives the envelopes in the
\* order Publish took them, without a gap and without a second copy.
THEOREM RefinementTheorem == Spec => ImplementsRunLog
<1>1. Init => Promise!Init
  BY DEF Init, Promise!Init
<1>2. IInv /\ [Next]_vars => [Promise!Next]_<<accepted, log>>
  BY StepRefines
<1> QED
  BY <1>1, <1>2, PublisherInvariant, PTL DEF Spec, ImplementsRunLog, Promise!Spec

=============================================================================
