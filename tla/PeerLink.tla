------------------------------ MODULE PeerLink ------------------------------
(***************************************************************************)
(* A peer and its host.  The peer (internal/peer) supervises one child     *)
(* process per hosted adapter, writes what happens to them in a bounded    *)
(* journal and phones home on one connection per scope, again and again.   *)
(* The host (internal/adapter/environment/remote) keeps a registry of the  *)
(* sessions behind those connections, hands their handles to the session   *)
(* manager's waits, and follows the journal of each session's peer to tell *)
(* a crash from an exit it asked for.                                      *)
(*                                                                         *)
(* A session is the number of the dial that made it.  A handle is the      *)
(* session behind it: every wait is for one adapter, and the handles one   *)
(* session gives for one adapter are alike to the code.  Scopes are one:   *)
(* a registry key is the adapter a connection dials for.                   *)
(***************************************************************************)
EXTENDS Naturals, Sequences, FiniteSets

CONSTANTS
  Hosted,       \* the adapters of the peer's manifest, in its order
  DialOf,       \* connection -> the adapter its identity frame names
  WantOf,       \* waiter -> the adapter it needs a handle of
  KeepAlive,    \* CRITERIA_PEER_CHILD_KEEPALIVE
  JournalLimit, \* events the journal retains
  MaxDials,     \* bound on the dials that reach the host
  MaxEvents,    \* bound on the events of one peer process
  MaxRestarts   \* bound on the peer processes that end and are replaced

Adapters == {Hosted[i] : i \in 1..Len(Hosted)}
Conns    == DOMAIN DialOf
Waiters  == DOMAIN WantOf
Dials    == 1..MaxDials

ASSUME PeerAssumption ==
  /\ DialOf \in [Conns -> Adapters] /\ WantOf \in [Waiters -> Adapters]
  /\ KeepAlive \in BOOLEAN
  /\ {JournalLimit, MaxDials, MaxEvents, MaxRestarts} \subseteq Nat

VARIABLES
  proc,      \* child -> "live", "gone" by itself, "killed" on request, "reaped"
  killReq,   \* child -> a kill_child control was accepted for it
  recorded,  \* child -> "no", "exited" (journaled, not classified), "done"
  count,     \* child -> serveCounts
  events,    \* every event of this peer process; the ring holds the last ones
  link,      \* connection -> the dial it serves, or 0 while it is down
  restarts,
  alive,     \* the dials whose transport is up
  dialed,    \* dials made so far
  sess,      \* dial -> the host's session
  peers,     \* the registry: adapter -> dial, or 0
  wait,      \* waiter -> what it does and the handles it knows
  closeReq,  \* the CloseHandle under way, or NoClose
  stopped    \* stopPeers has run

peerVars     == <<proc, killReq, recorded, count, events, link, restarts>>
registryVars == <<sess, peers, wait, closeReq, stopped>>
netVars      == <<alive, dialed>>
linkVars     == <<peerVars, netVars, registryVars>>

Event(k, a) == [kind |-> k, adapter |-> a]

NoClose == [dial |-> 0, adapter |-> Hosted[1], exact |-> FALSE]

NewSession ==
  [phase |-> "none", conn |-> CHOOSE c \in Conns : TRUE, closed |-> FALSE,
   lastSeq |-> 0, verdict |-> [a \in Adapters |-> "none"],
   old |-> 0, owed |-> {}]

\* A peer process right after Boot: every child runs.  The journal is that
\* of the terminal events; spawned, flushed and heartbeat events, which change
\* no verdict, are left out and only make the ring shorter.
Booted(pr, kr, rec, cnt, jrn, lnk) ==
  /\ pr = [a \in Adapters |-> "live"]
  /\ kr = [a \in Adapters |-> FALSE]
  /\ rec = [a \in Adapters |-> "no"]
  /\ cnt = [a \in Adapters |-> 0]
  /\ jrn = <<>>
  /\ lnk = [c \in Conns |-> 0]

LinkInit ==
  /\ Booted(proc, killReq, recorded, count, events, link)
  /\ restarts = 0
  /\ alive = {} /\ dialed = 0
  /\ sess = [d \in Dials |-> NewSession]
  /\ peers = [a \in Adapters |-> 0]
  /\ wait = [w \in Waiters |-> [state |-> "idle", stale |-> 0, handle |-> 0]]
  /\ closeReq = NoClose
  /\ stopped = FALSE

-----------------------------------------------------------------------------
(* The journal: gapless numbers, and a ring that forgets the oldest.       *)

Append1(k, a) == events' = Append(events, Event(k, a))

Retained(i) == i \in 1..Len(events) /\ i > Len(events) - JournalLimit

\* Replay(since): the events after since the ring still holds.
Replay(since) == {i \in 1..Len(events) : i > since /\ Retained(i)}

-----------------------------------------------------------------------------
(* The peer's connections.                                                 *)

\* serveClosed: the counts go down; without keepalive a child whose count is
\* at zero is killed, whoever was counted.
CountAfter(a) == IF count[a] > 0 THEN count[a] - 1 ELSE 0

ServeClosed ==
  /\ count' = [a \in Adapters |-> CountAfter(a)]
  /\ proc' = [a \in Adapters |->
       IF ~KeepAlive /\ CountAfter(a) = 0 /\ proc[a] = "live"
       THEN "reaped" ELSE proc[a]]

\* serveOnce up to Serve: the dial and its identity frame reach the host, and
\* the connection is counted for every child.
Dial(c) ==
  /\ link[c] = 0 /\ dialed < MaxDials
  /\ dialed' = dialed + 1
  /\ alive' = alive \cup {dialed'}
  /\ link' = [link EXCEPT ![c] = dialed']
  /\ count' = [a \in Adapters |-> count[a] + 1]
  /\ sess' = [sess EXCEPT ![dialed'] = [NewSession EXCEPT !.phase = "dialed", !.conn = c]]
  /\ UNCHANGED <<proc, killReq, recorded, events, restarts, peers, wait, closeReq, stopped>>

\* The dial or the frame fails: serveOnce returns before it has counted the
\* connection, and the loop calls serveCountAdjust all the same.
DialFails(c) ==
  /\ link[c] = 0 /\ dialed < MaxDials
  /\ ServeClosed
  /\ UNCHANGED <<killReq, recorded, events, link, restarts, netVars, registryVars>>

\* Serve returns because the transport is gone.
ServeEnds(c) ==
  /\ link[c] # 0 /\ link[c] \notin alive
  /\ ServeClosed
  /\ link' = [link EXCEPT ![c] = 0]
  /\ UNCHANGED <<killReq, recorded, events, restarts, netVars, registryVars>>

\* The network drops a connection.
TransportLost(d) ==
  /\ d \in alive
  /\ alive' = alive \ {d}
  /\ UNCHANGED <<peerVars, dialed, registryVars>>

-----------------------------------------------------------------------------
(* The peer's children.                                                    *)

ChildExits(a) ==
  /\ proc[a] = "live"
  /\ proc' = [proc EXCEPT ![a] = "gone"]
  /\ UNCHANGED <<killReq, recorded, count, events, link, restarts, netVars, registryVars>>

\* The end of the grace period of an accepted kill_child.
KillLands(a) ==
  /\ killReq[a] /\ proc[a] = "live"
  /\ proc' = [proc EXCEPT ![a] = "killed"]
  /\ UNCHANGED <<killReq, recorded, count, events, link, restarts, netVars, registryVars>>

\* Mutant: the exit is graceful only once the kill itself has landed.
GracefulIfKilled(a) == proc[a] = "killed"

\* Control marks the kill as asked for before it signals the process.
Graceful(a) == killReq[a]

\* recordExit: the watcher finds the process gone and journals the exit.
RecordExit(a) ==
  /\ proc[a] # "live" /\ recorded[a] = "no" /\ Len(events) < MaxEvents
  /\ recorded' = [recorded EXCEPT ![a] = IF Graceful(a) THEN "done" ELSE "exited"]
  /\ Append1("exited", a)
  /\ UNCHANGED <<proc, killReq, count, link, restarts, netVars, registryVars>>

\* classifyUnexpectedExit: a second event, after the lock was given back.
ClassifyUnexpectedExit(a) ==
  /\ recorded[a] = "exited" /\ Len(events) < MaxEvents
  /\ recorded' = [recorded EXCEPT ![a] = "done"]
  /\ Append1("crash", a)
  /\ UNCHANGED <<proc, killReq, count, link, restarts, netVars, registryVars>>

\* Shutdown, or the end of the process without one, and the boot of its
\* replacement.  The journal is in memory: it ends with the process.
PeerRestarts ==
  /\ restarts < MaxRestarts
  /\ restarts' = restarts + 1
  /\ alive' = {}
  /\ Booted(proc', killReq', recorded', count', events', link')
  /\ UNCHANGED <<dialed, registryVars>>

-----------------------------------------------------------------------------
(* The host's registry.                                                    *)

KeyOf(d) == DialOf[sess[d].conn]
Registered(d) == \E a \in Adapters : peers[a] = d

\* close: cancels the supervision and the transport, once.  What a closed
\* session had learned is of no use to the rest of the model.
Closed(ss, d) ==
  IF d = 0 THEN ss
  ELSE [ss EXCEPT ![d].closed = TRUE, ![d].lastSeq = 0,
                  ![d].verdict = NewSession.verdict]

Waiting(a) == {w \in Waiters : wait[w].state = "waiting" /\ WantOf[w] = a}

\* A woken wait returns with the handle.
Wake(ws, d) ==
  [w \in Waiters |-> IF w \in ws /\ wait[w].state \in {"waiting", "taken"}
                     THEN [state |-> "held", stale |-> 0, handle |-> d]
                     ELSE wait[w]]

\* The store itself.
SwapIn(d) ==
  /\ sess' = [sess EXCEPT ![d].phase = "stored", ![d].old = peers[KeyOf(d)],
                          ![d].owed = Waiting(KeyOf(d))]
  /\ peers' = [peers EXCEPT ![KeyOf(d)] = d]
  /\ wait' = [w \in Waiters |-> IF w \in Waiting(KeyOf(d))
                THEN [wait[w] EXCEPT !.state = "taken"] ELSE wait[w]]
  /\ UNCHANGED <<peerVars, netVars, closeReq, stopped>>

\* Mutant: a dial that is accepted after the stop is stored like any other.
StoreSessionAfterStop(d) == sess[d].phase = "dialed" /\ SwapIn(d)

\* storeSession: one critical section refuses the dial after a stop, or swaps
\* the session into the registry and takes the waiters of its adapter.
StoreSession(d) ==
  /\ sess[d].phase = "dialed"
  /\ \/ ~stopped /\ SwapIn(d)
     \/ /\ stopped
        /\ sess' = Closed([sess EXCEPT ![d].phase = "refused"], d)
        /\ alive' = alive \ {d}
        /\ UNCHANGED <<peerVars, dialed, peers, wait, closeReq, stopped>>

\* Mutant: only the waiters of the adapter the connection dials for are woken.
RoutedWaitersNone(d) == {}

\* collectRoutedWaiters: the waiters of the other adapters of this peer.
RoutedWaiters(d) == UNION {Waiting(a) : a \in Adapters \ {KeyOf(d)}}

\* The rest of AcceptPeer: the second critical section, the end of the session
\* this one replaced, the wakes, and the supervision of the new session.
AcceptPeer(d) ==
  /\ sess[d].phase = "stored"
  /\ sess' = Closed([sess EXCEPT ![d].phase = "open", ![d].old = 0, ![d].owed = {}],
                    sess[d].old)
  /\ alive' = alive \ {sess[d].old}
  /\ wait' = Wake(sess[d].owed \cup RoutedWaiters(d), d)
  /\ UNCHANGED <<peerVars, dialed, peers, closeReq, stopped>>

\* The registered sessions a wait for adapter a may be given.
Candidates(a, stale) ==
  IF peers[a] \notin {0, stale} THEN {peers[a]}
  ELSE {peers[b] : b \in Adapters \ {a}} \ {0, stale}

\* WaitForFreshHandle: the look at the registry and the registration of the
\* waiter are one critical section.
WaitForFreshHandle(w) ==
  /\ wait[w].state \in {"idle", "held"}
  /\ LET stale == wait[w].handle
     IN  wait' = [wait EXCEPT ![w] =
           IF stopped THEN [state |-> "idle", stale |-> 0, handle |-> 0]
           ELSE [state |-> "waiting", stale |-> stale, handle |-> 0]]
         /\ (~stopped => Candidates(WantOf[w], stale) = {})
  /\ UNCHANGED <<peerVars, netVars, sess, peers, closeReq, stopped>>

\* The same call, when the registry has a session to give.
HandleFound(w) ==
  /\ wait[w].state \in {"idle", "held"} /\ ~stopped
  /\ \E d \in Candidates(WantOf[w], wait[w].handle) :
       wait' = [wait EXCEPT ![w] =
                  [state |-> "held", stale |-> 0, handle |-> d]]
  /\ UNCHANGED <<peerVars, netVars, sess, peers, closeReq, stopped>>

\* awaitWaiter gives up: a budget or the caller's context ends the wait.
WaitEnds(w) ==
  /\ wait[w].state \in {"waiting", "taken"}
  /\ wait' = [wait EXCEPT ![w] = [state |-> "idle", stale |-> 0, handle |-> 0]]
  /\ UNCHANGED <<peerVars, netVars, sess, peers, closeReq, stopped>>

-----------------------------------------------------------------------------
(* Supervision.                                                            *)

Supervised(d) == sess[d].phase = "open" /\ ~sess[d].closed

\* Mutant: the first terminal event stands.
VerdictFirst(v, e) ==
  IF v = "none" /\ e.kind \in {"exited", "crash"} THEN e.kind ELSE v

\* applyProcessTerminalArmLocked: an exit is a placeholder a crash overwrites.
Verdict(v, e) ==
  CASE e.kind = "exited" /\ v = "none"             -> "exited"
    [] e.kind = "crash"  /\ v \in {"none", "exited"} -> "crash"
    [] OTHER                                       -> v

\* One event of the Supervise stream.
ApplySupervisionEvent(d) ==
  /\ Supervised(d) /\ d \in alive
  /\ LET next == Replay(sess[d].lastSeq)
     IN  /\ next # {}
         /\ LET i == CHOOSE i \in next : \A j \in next : i <= j
                a == events[i].adapter
            IN  sess' = [sess EXCEPT ![d].lastSeq = i,
                                     ![d].verdict[a] = Verdict(@, events[i])]
  /\ UNCHANGED <<peerVars, netVars, peers, wait, closeReq, stopped>>

\* died: the stream failed.  peerDied removes the session only if the
\* registry still holds this one.
SuperviseFails(d) ==
  /\ Supervised(d) /\ d \notin alive
  /\ sess' = Closed(sess, d)
  /\ peers' = [a \in Adapters |-> IF peers[a] = d THEN 0 ELSE peers[a]]
  /\ UNCHANGED <<peerVars, netVars, wait, closeReq, stopped>>

-----------------------------------------------------------------------------
(* Kills and closes from the host.                                         *)

\* Control(kill_child): refused for a process that has exited.
KillAccepted(d, a) == d \in alive /\ proc[a] = "live"

KillChild(d, a) == killReq' = [killReq EXCEPT ![a] = @ \/ KillAccepted(d, a)]

\* A respawn kills the handle it replaces before it waits for a fresh one.
KillHandle(w) ==
  /\ wait[w].state = "held" /\ wait[w].handle # 0 /\ ~sess[wait[w].handle].closed
  /\ KillChild(wait[w].handle, WantOf[w])
  /\ UNCHANGED <<proc, recorded, count, events, link, restarts, netVars, registryVars>>

\* CloseHandle of an adapter the host uses, under the lock: the exact session
\* leaves the registry; else a session that routes to it is used and stays.
CloseHandle(a) ==
  /\ \E w \in Waiters : WantOf[w] = a
  /\ closeReq = NoClose /\ ~stopped
  /\ \E d \in (IF peers[a] # 0 THEN {peers[a]} ELSE {peers[b] : b \in Adapters} \ {0}) :
       closeReq' = [dial |-> d, adapter |-> a, exact |-> peers[a] # 0]
  /\ peers' = [peers EXCEPT ![a] = 0]
  /\ UNCHANGED <<peerVars, netVars, sess, wait, stopped>>

\* CloseHandle, after the unlock: kill the child, close an exact session.
CloseHandleEnds ==
  /\ closeReq # NoClose
  /\ KillChild(closeReq.dial, closeReq.adapter)
  /\ sess' = IF closeReq.exact THEN Closed(sess, closeReq.dial) ELSE sess
  /\ alive' = IF closeReq.exact THEN alive \ {closeReq.dial} ELSE alive
  /\ closeReq' = NoClose
  /\ UNCHANGED <<proc, recorded, count, events, link, restarts, dialed, peers, wait, stopped>>

\* stopPeers: every registered session is closed and every waiter is told.
StopPeers ==
  /\ ~stopped
  /\ stopped' = TRUE
  /\ sess' = [d \in Dials |-> IF Registered(d) THEN Closed(sess, d)[d] ELSE sess[d]]
  /\ alive' = {d \in alive : ~Registered(d)}
  /\ peers' = [a \in Adapters |-> 0]
  /\ wait' = [w \in Waiters |-> IF wait[w].state = "waiting"
                THEN [state |-> "idle", stale |-> 0, handle |-> 0] ELSE wait[w]]
  /\ UNCHANGED <<peerVars, dialed, closeReq>>

LinkNext ==
  \/ \E c \in Conns : Dial(c) \/ DialFails(c) \/ ServeEnds(c)
  \/ \E a \in Adapters :
       \/ ChildExits(a) \/ KillLands(a) \/ RecordExit(a) \/ ClassifyUnexpectedExit(a)
       \/ CloseHandle(a)
  \/ \E d \in Dials :
       \/ TransportLost(d) \/ StoreSession(d) \/ AcceptPeer(d)
       \/ ApplySupervisionEvent(d) \/ SuperviseFails(d)
  \/ \E w \in Waiters :
       WaitForFreshHandle(w) \/ HandleFound(w) \/ WaitEnds(w) \/ KillHandle(w)
  \/ PeerRestarts \/ CloseHandleEnds \/ StopPeers

LinkSpec == LinkInit /\ [][LinkNext]_linkVars

-----------------------------------------------------------------------------
(* Properties.                                                             *)

\* A wait is not left behind: while it waits, no session whose AcceptPeer has
\* ended is registered that could serve it, the one it calls stale apart.  The
\* accept takes its waiters in two critical sections and the wait looks and
\* registers in one (peer_session.go storeSession, collectRoutedWaiters,
\* WaitForFreshHandle).
WaiterNotForgotten ==
  \A w \in Waiters, a \in Adapters :
    (/\ wait[w].state = "waiting"
     /\ peers[a] # 0
     /\ sess[peers[a]].phase = "open") => peers[a] = wait[w].stale

\* Every session that is not closed has someone who will close it: the
\* registry, a CloseHandle under way, or the accept that replaced it.  After
\* stopPeers the registry is no such place (AcceptPeer, stoppedNow).
NoLeakedSession ==
  \A d \in Dials : Supervised(d) =>
    \/ ~stopped /\ Registered(d)
    \/ closeReq.exact /\ closeReq.dial = d
    \/ \E n \in Dials : sess[n].phase = "stored" /\ sess[n].old = d

\* A host that calls a child of a living peer crashed is right: the process
\* ended by itself, and nobody had asked for its end (recordExit,
\* Control, applyProcessTerminalArmLocked).
CrashIsReal ==
  \A d \in alive, a \in Adapters :
    Supervised(d) /\ sess[d].verdict[a] = "crash" => proc[a] = "gone" /\ ~killReq[a]

\* A session that has followed a journal that never overflowed to its end knows
\* how every child ended, whenever it was dialed and whatever it had missed
\* (EventJournal.Replay, applySupervisionEvent).
CaughtUpKnows ==
  \A d \in alive, a \in Adapters :
    (/\ Supervised(d) /\ sess[d].lastSeq = Len(events)
     /\ Len(events) <= JournalLimit /\ recorded[a] = "done")
    => sess[d].verdict[a] = IF killReq[a] THEN "exited" ELSE "crash"

\* serveClosed "kills children whose last serving conn just ended"
\* (internal/peer/child.go:688-690): a connection that served has ended in this
\* step, and none serves any more.
ReapedAfterLastConn ==
  [][\A a \in Adapters : proc[a] = "live" /\ proc'[a] = "reaped" =>
       /\ \E c \in Conns : link[c] # 0 /\ link'[c] = 0
       /\ \A c \in Conns : link'[c] = 0]_linkVars
=============================================================================
