--------------------------- MODULE EventPublisher ---------------------------
(***************************************************************************)
(* The event path of a server run: the sink's goroutines hand envelopes to *)
(* a RunPublisher, whose loop keeps a SubmitEvents stream open, replays    *)
(* what is not acknowledged after a reconnect and counts acknowledgements; *)
(* the process that drives the run drains the publisher and closes it      *)
(* (internal/transport/server/run_publisher.go, internal/run/sink.go,      *)
(* executeServerRun, runAndDrain and drainAndCleanup in internal/cli).     *)
(* The server is the one of the repository's own tests                     *)
(* (internal/cli/applytest/fakeserver.go): it deduplicates on the          *)
(* correlation id and acknowledges again what it already has.              *)
(*                                                                         *)
(* An envelope is its place in the order in which Publish took them.  An   *)
(* acknowledgement is the sequence number the server gave the envelope.    *)
(* A run that is taken up again, by a reattached apply or by an agent that *)
(* recovers it, has a new publisher, while the server still numbers on     *)
(* from the events the earlier one left: log is what this publisher adds   *)
(* to them, so that log[i] has the number prior + i.  A stream that breaks *)
(* leaves a handler behind at the server, which may still work through a   *)
(* prefix of what was sent.                                                *)
(***************************************************************************)
EXTENDS Naturals, Sequences, FiniteSets

CONSTANTS
  Emitters,    \* goroutines of the run that publish: steps, pumps, routers
  MaxEvents,   \* bound on the envelopes of a run
  Buffer,      \* capacity of sendCh
  MaxStreams,  \* bound on the streams opened
  MaxPrior,    \* bound on the events an earlier publisher of the run left
  Modes        \* the drivers considered: "apply", "agent", "reattach"

ASSUME PublisherAssumption ==
  /\ IsFiniteSet(Emitters)
  /\ MaxEvents \in Nat /\ Buffer \in Nat /\ MaxStreams \in Nat /\ MaxPrior \in Nat
  /\ Modes \subseteq {"apply", "agent", "reattach"}

VARIABLES
  mode,       \* which driver runs this publisher
  prior,      \* events of the run the server already holds at the start
  pc,         \* emitter -> "idle", "publishing" (in the select), "counting"
  accepted,   \* envelopes that have entered sendCh
  sendCh,     \* the channel
  published,  \* the counter, raised after the send
  hand,       \* the envelope the loop has taken and not yet made pending, or 0
  pending,    \* envelopes sent and not acknowledged
  lastAckedSeq,
  acked,      \* the counter of acknowledgements
  loop,       \* publishLoop
  toReplay,   \* the rest of the pending snapshot of this stream
  since,      \* the since_seq header of this stream, or NoHeader
  link,       \* "none", "up", "broken", or "cancelled" once the receiver saw it
  up,         \* envelopes on the way to the server
  down,       \* acknowledgements on the way back
  replayed,   \* the handler has answered the since_seq header
  stale,      \* what handlers of broken streams still have to read
  opened,     \* streams opened
  log,        \* what the server's log of the run has received since
  ctxDone,    \* the context the driver runs under is cancelled
  runner,     \* the driver: "running", "draining", "left"
  timedOut,   \* the drain window ran out
  drained,    \* the driver came through Drain before it left
  closed

emitVars   == <<pc, accepted, published>>
ackVars    == <<pending, lastAckedSeq, acked>>
streamVars == <<toReplay, since, link, up, down, replayed, stale, opened>>
driverVars == <<mode, prior, ctxDone, runner, timedOut, drained, closed>>
vars == <<emitVars, sendCh, hand, ackVars, loop, streamVars, log, driverVars>>

NoHeader == MaxPrior + MaxEvents + 1

Init ==
  /\ mode \in Modes /\ prior \in (IF mode = "apply" THEN {0} ELSE 0 .. MaxPrior)
  /\ pc = [e \in Emitters |-> "idle"] /\ accepted = 0 /\ published = 0
  /\ sendCh = <<>> /\ hand = 0
  /\ pending = <<>> /\ lastAckedSeq = 0 /\ acked = 0
  /\ loop = "idle" /\ toReplay = <<>> /\ since = NoHeader
  /\ link = "none" /\ up = <<>> /\ down = <<>> /\ replayed = FALSE /\ stale = {}
  /\ opened = 0 /\ log = <<>>
  /\ ctxDone = FALSE /\ runner = "running" /\ timedOut = FALSE /\ drained = FALSE
  /\ closed = FALSE

-----------------------------------------------------------------------------
(* The sink.  Every On... method publishes one envelope, under a context   *)
(* that is never done: Publish waits for room, or for a close that comes   *)
(* only after the run has returned.                                        *)

Publishing == Cardinality({e \in Emitters : pc[e] = "publishing"})

Emit(e) ==
  /\ runner = "running" /\ pc[e] = "idle" /\ accepted + Publishing < MaxEvents
  /\ pc' = [pc EXCEPT ![e] = "publishing"]
  /\ UNCHANGED <<accepted, published, sendCh, hand, ackVars, loop, streamVars, log, driverVars>>

Enqueue(e) ==
  /\ pc[e] = "publishing" /\ Len(sendCh) < Buffer
  /\ accepted' = accepted + 1
  /\ sendCh' = Append(sendCh, accepted + 1)
  /\ pc' = [pc EXCEPT ![e] = "counting"]
  /\ UNCHANGED <<published, hand, ackVars, loop, streamVars, log, driverVars>>

Count(e) ==
  /\ pc[e] = "counting"
  /\ published' = published + 1
  /\ pc' = [pc EXCEPT ![e] = "idle"]
  /\ UNCHANGED <<accepted, sendCh, hand, ackVars, loop, streamVars, log, driverVars>>

-----------------------------------------------------------------------------
(* publishLoop.                                                            *)

LoopMustEnd == ctxDone \/ closed

\* Mutant: a reconnect starts with new envelopes only.
OpenStreamForgetting ==
  /\ loop = "idle" /\ ~LoopMustEnd /\ opened < MaxStreams
  /\ loop' = "sending" /\ opened' = opened + 1
  /\ toReplay' = <<>> /\ since' = NoHeader
  /\ link' = "up" /\ up' = <<>> /\ down' = <<>> /\ replayed' = FALSE
  /\ UNCHANGED <<emitVars, sendCh, hand, ackVars, stale, log, driverVars>>

OpenStream ==
  /\ loop = "idle" /\ ~LoopMustEnd /\ opened < MaxStreams
  /\ loop' = "replaying" /\ opened' = opened + 1
  /\ toReplay' = pending
  /\ since' = IF lastAckedSeq > 0 THEN lastAckedSeq
              ELSE IF pending # <<>> THEN 0 ELSE NoHeader
  /\ link' = "up" /\ up' = <<>> /\ down' = <<>> /\ replayed' = FALSE
  /\ UNCHANGED <<emitVars, sendCh, hand, ackVars, stale, log, driverVars>>

EndLoop ==
  /\ loop = "idle" /\ LoopMustEnd
  /\ loop' = "ended"
  /\ UNCHANGED <<emitVars, sendCh, hand, ackVars, streamVars, log, driverVars>>

\* Send of one envelope: on a broken stream it fails, or it is swallowed by a
\* local buffer; on a cancelled one it fails.
SendOK(env) ==
  \/ link = "up" /\ up' = Append(up, env)
  \/ link = "broken" /\ UNCHANGED up

SendFails == link \in {"broken", "cancelled"} /\ UNCHANGED up

\* The stream is given up; its handler keeps what it has not read yet.
Abandon ==
  /\ link' = "none" /\ up' = <<>> /\ down' = <<>> /\ toReplay' = <<>>
  /\ stale' = IF link = "up" /\ up # <<>> THEN stale \cup {up} ELSE stale
  /\ UNCHANGED <<since, replayed, opened>>

Replay ==
  /\ loop = "replaying" /\ toReplay # <<>>
  /\ SendOK(Head(toReplay))
  /\ toReplay' = Tail(toReplay)
  /\ UNCHANGED <<emitVars, sendCh, hand, ackVars, loop, since, link, down, replayed, stale,
                 opened, log, driverVars>>

\* A replayed Send that fails ends runSubmitEvents with its error.  Once the
\* receiver has cancelled the stream that error is context.Canceled, which
\* publishLoop takes for the end of the run: the loop is left for good.
ReplayFails ==
  /\ loop = "replaying" /\ toReplay # <<>> /\ link \in {"broken", "cancelled"}
  /\ loop' = IF link = "cancelled" THEN "ended" ELSE "idle"
  /\ Abandon
  /\ UNCHANGED <<emitVars, sendCh, hand, ackVars, log, driverVars>>

ReplayDone ==
  /\ loop = "replaying" /\ toReplay = <<>>
  /\ loop' = "sending"
  /\ UNCHANGED <<emitVars, sendCh, hand, ackVars, streamVars, log, driverVars>>

Dequeue ==
  /\ loop = "sending" /\ hand = 0 /\ sendCh # <<>>
  /\ hand' = Head(sendCh) /\ sendCh' = Tail(sendCh)
  /\ UNCHANGED <<emitVars, ackVars, loop, streamVars, log, driverVars>>

\* Mutant: an envelope becomes pending only when its Send has succeeded.
SendLate ==
  /\ loop = "sending" /\ hand # 0 /\ hand' = 0
  /\ \/ /\ SendOK(hand) /\ pending' = Append(pending, hand)
        /\ UNCHANGED <<loop, toReplay, link, down, stale, since, replayed, opened>>
     \/ SendFails /\ UNCHANGED <<pending, loop, toReplay, link, down, stale, since, replayed, opened>>
  /\ UNCHANGED <<emitVars, sendCh, lastAckedSeq, acked, log, driverVars>>

\* appendPending, then Send; a failure leaves sendLoop.
Send ==
  /\ loop = "sending" /\ hand # 0 /\ hand' = 0
  /\ pending' = Append(pending, hand)
  /\ \/ SendOK(hand) /\ UNCHANGED <<loop, toReplay, link, down, stale, since, replayed, opened>>
     \/ link \in {"broken", "cancelled"} /\ loop' = "idle" /\ Abandon
  /\ UNCHANGED <<emitVars, sendCh, lastAckedSeq, acked, log, driverVars>>

\* sendLoop sees the cancelled stream or the close.
LeaveSendLoop ==
  /\ loop = "sending" /\ hand = 0 /\ (link = "cancelled" \/ closed)
  /\ loop' = "idle" /\ Abandon
  /\ UNCHANGED <<emitVars, sendCh, hand, ackVars, log, driverVars>>

-----------------------------------------------------------------------------
(* recvAcks.                                                               *)

\* What is left of pending when the first envelope equal to env is cut out.
ClearPending(env) ==
  IF \E i \in 1 .. Len(pending) : pending[i] = env
    THEN LET i == CHOOSE i \in 1 .. Len(pending) :
                    pending[i] = env /\ \A j \in 1 .. i - 1 : pending[j] # env
         IN  SubSeq(pending, 1, i - 1) \o SubSeq(pending, i + 1, Len(pending))
    ELSE pending

ReceiveAck ==
  /\ loop \in {"replaying", "sending"} /\ link = "up" /\ down # <<>>
  /\ LET seq == Head(down)
     IN  /\ lastAckedSeq' = IF seq > lastAckedSeq THEN seq ELSE lastAckedSeq
         /\ acked' = IF seq > lastAckedSeq THEN acked + 1 ELSE acked
         /\ pending' = IF seq > prior THEN ClearPending(log[seq - prior]) ELSE pending
  /\ down' = Tail(down)
  /\ UNCHANGED <<emitVars, sendCh, hand, loop, toReplay, since, link, up, replayed, stale,
                 opened, log, driverVars>>

\* The receiver sees the failure and cancels the stream's context.
ReceiverCancels ==
  /\ link = "broken" /\ link' = "cancelled"
  /\ UNCHANGED <<emitVars, sendCh, hand, ackVars, loop, toReplay, since, up, down, replayed,
                 stale, opened, log, driverVars>>

-----------------------------------------------------------------------------
(* The server and the network.                                             *)

\* The number of the last event of the run.
LastSeq == prior + Len(log)

\* The first envelope of a stream with a since_seq header is answered with
\* the acknowledgements of everything above it.
ReplayAcks ==
  /\ link = "up" /\ up # <<>> /\ since # NoHeader /\ ~replayed
  /\ replayed' = TRUE
  /\ down' = down \o [i \in 1 .. (IF LastSeq > since THEN LastSeq - since ELSE 0) |-> since + i]
  /\ UNCHANGED <<emitVars, sendCh, hand, ackVars, loop, toReplay, since, link, up, stale,
                 opened, log, driverVars>>

\* Deduplication on the correlation id.
Stored(env) == IF \E i \in DOMAIN log : log[i] = env THEN log ELSE Append(log, env)

Persist ==
  /\ link = "up" /\ up # <<>> /\ (since = NoHeader \/ replayed)
  /\ log' = Stored(Head(up)) /\ up' = Tail(up)
  /\ down' = Append(down, prior + CHOOSE i \in DOMAIN log' : log'[i] = Head(up))
  /\ UNCHANGED <<emitVars, sendCh, hand, ackVars, loop, toReplay, since, link, replayed, stale,
                 opened, driverVars>>

\* The handler of a broken stream reads on; its answers go nowhere.
PersistStale(s) ==
  /\ s \in stale
  /\ log' = Stored(Head(s))
  /\ stale' = (stale \ {s}) \cup (IF Len(s) > 1 THEN {Tail(s)} ELSE {})
  /\ UNCHANGED <<emitVars, sendCh, hand, ackVars, loop, toReplay, since, link, up, down,
                 replayed, opened, driverVars>>

\* The connection is lost: some of what was sent arrived, the answers did not.
StreamBreaks ==
  /\ link = "up" /\ opened < MaxStreams
  /\ \E n \in 0 .. Len(up) :
       stale' = IF n = 0 THEN stale ELSE stale \cup {SubSeq(up, 1, n)}
  /\ link' = "broken" /\ up' = <<>> /\ down' = <<>>
  /\ UNCHANGED <<emitVars, sendCh, hand, ackVars, loop, toReplay, since, replayed, opened, log,
                 driverVars>>

-----------------------------------------------------------------------------
(* The driver.                                                             *)

\* A signal or run.cancel.  An agent's publisher runs under a context of its
\* own, the streams of the other drivers under the one that is cancelled.
CancelContext ==
  /\ runner = "running" /\ ~ctxDone /\ mode # "agent"
  /\ ctxDone' = TRUE
  /\ IF link = "up"
       THEN /\ link' = "cancelled" /\ up' = <<>> /\ down' = <<>>
            /\ stale' = IF up = <<>> THEN stale ELSE stale \cup {up}
       ELSE UNCHANGED <<link, up, down, stale>>
  /\ UNCHANGED <<emitVars, sendCh, hand, ackVars, loop, toReplay, since, replayed, opened, log,
                 mode, prior, runner, timedOut, drained, closed>>

AllPublished == \A e \in Emitters : pc[e] = "idle"

\* executeServerRun returns the error of the first engine run at once.
LeavesAtOnce(ok) == mode = "apply" /\ ~ok

\* The engine returns; the error of a cancelled run is not nil.
RunReturns(ok) ==
  /\ runner = "running" /\ AllPublished /\ accepted > 0 /\ (ctxDone => ~ok)
  /\ IF LeavesAtOnce(ok) THEN runner' = "left" /\ closed' = TRUE
                         ELSE runner' = "draining" /\ UNCHANGED closed
  /\ UNCHANGED <<emitVars, sendCh, hand, ackVars, loop, streamVars, log, mode, prior,
                 ctxDone, timedOut, drained>>

\* Mutant: Drain looks at the buffers only.
DrainedBuffers == pending = <<>> /\ sendCh = <<>>

Drained == published = acked /\ pending = <<>> /\ sendCh = <<>>

\* Drain returns and the driver closes the publisher on its way out.
DrainReturns ==
  /\ runner = "draining" /\ Drained
  /\ runner' = "left" /\ drained' = TRUE /\ closed' = TRUE
  /\ UNCHANGED <<emitVars, sendCh, hand, ackVars, loop, streamVars, log, mode, prior,
                 ctxDone, timedOut>>

DrainTimesOut ==
  /\ runner = "draining"
  /\ runner' = "left" /\ timedOut' = TRUE /\ closed' = TRUE
  /\ UNCHANGED <<emitVars, sendCh, hand, ackVars, loop, streamVars, log, mode, prior,
                 ctxDone, drained>>

-----------------------------------------------------------------------------

LoopStep ==
  \/ OpenStream \/ EndLoop \/ Replay \/ ReplayFails \/ ReplayDone
  \/ Dequeue \/ Send \/ LeaveSendLoop

ServerStep == ReplayAcks \/ Persist

Next ==
  \/ \E e \in Emitters : Emit(e) \/ Enqueue(e) \/ Count(e)
  \/ LoopStep \/ ReceiveAck \/ ReceiverCancels
  \/ ServerStep \/ StreamBreaks \/ \E s \in stale : PersistStale(s)
  \/ CancelContext \/ \E ok \in BOOLEAN : RunReturns(ok)
  \/ DrainReturns \/ DrainTimesOut

Spec == Init /\ [][Next]_vars

\* Goroutines that can run do run, a reachable server answers, an engine that
\* is cancelled returns.  Nothing makes a stream break, a context be
\* cancelled or a drain window run out.
Fairness ==
  /\ \A e \in Emitters : WF_vars(Enqueue(e)) /\ WF_vars(Count(e))
  /\ WF_vars(LoopStep) /\ WF_vars(ReceiveAck) /\ WF_vars(ReceiverCancels)
  /\ WF_vars(ServerStep) /\ WF_vars(DrainReturns)
  /\ WF_vars(ctxDone /\ RunReturns(FALSE))

FairSpec == Spec /\ Fairness

-----------------------------------------------------------------------------
(* Properties.                                                             *)

Ids == 1 .. MaxEvents

TypeOK ==
  /\ mode \in Modes /\ prior \in 0 .. MaxPrior
  /\ pc \in [Emitters -> {"idle", "publishing", "counting"}]
  /\ accepted \in 0 .. MaxEvents /\ published \in 0 .. accepted
  /\ sendCh \in Seq(Ids) /\ Len(sendCh) <= Buffer /\ hand \in 0 .. MaxEvents
  /\ pending \in Seq(Ids) /\ lastAckedSeq \in 0 .. LastSeq /\ acked \in 0 .. LastSeq
  /\ loop \in {"idle", "replaying", "sending", "ended"}
  /\ toReplay \in Seq(Ids) /\ since \in 0 .. NoHeader
  /\ link \in {"none", "up", "broken", "cancelled"}
  /\ up \in Seq(Ids) /\ down \in Seq(1 .. LastSeq) /\ replayed \in BOOLEAN
  /\ stale \subseteq Seq(Ids) /\ opened \in 0 .. MaxStreams
  /\ log \in Seq(Ids)
  /\ ctxDone \in BOOLEAN /\ runner \in {"running", "draining", "left"}
  /\ timedOut \in BOOLEAN /\ drained \in BOOLEAN /\ closed \in BOOLEAN

Promise == INSTANCE RunLog WITH accepted <- accepted, log <- log

\* The publisher implements the promise of RunLog: through broken streams,
\* replays, lost acknowledgements and handlers that outlive their stream the
\* log receives the envelopes in the order Publish took them, without a gap
\* and without a second copy (appendPending before Send, the replayed
\* snapshot, deduplication by correlation id).
ImplementsRunLog == Promise!Spec

\* The envelopes of this publisher that are acknowledged.
OwnAcked == IF lastAckedSeq > prior THEN lastAckedSeq - prior ELSE 0

\* A stream opened with since_seq 0, because the first one broke before any
\* acknowledgement, has had the events of the earlier publisher acknowledged
\* too, and recvAcks has counted them as if they were this publisher's.
OldAcksCounted == acked > OwnAcked

\* Drain returns by itself only when everything Publish took is in the log:
\* an envelope between sendCh and pending is not overlooked.  The exception
\* is a counter that old acknowledgements have raised.
DrainMeansLogged == drained => Len(log) = accepted \/ OldAcksCounted

\* The same without the exception: "Drain waits until the two counters match
\* so that an event which has left sendCh but not yet been added to pending
\* (or whose ack is in flight) is not mistaken for an empty publisher".
DrainIsNeverEarly == drained => Len(log) = accepted

\* As long as publishLoop lives, a drain that does not run out of time comes
\* to its end: the two counters meet however many acknowledgements were lost
\* or repeated, unless old ones have raised acked beyond published.
DrainCompletes ==
  runner = "draining" ~> (drained \/ timedOut \/ loop = "ended" \/ OldAcksCounted)

\* Publish "blocks (bounded by ctx and publisher shutdown)": a cancelled run
\* returns.
CancelledRunReturns == ctxDone ~> runner # "running"

\* "the server receives the RunCompleted envelope regardless of success": a
\* driver that has left within its drain window has its tail in the log.
TailIsDelivered == runner = "left" /\ ~timedOut => Len(log) = accepted
=============================================================================
