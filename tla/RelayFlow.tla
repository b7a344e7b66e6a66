----------------------------- MODULE RelayFlow -----------------------------
(***************************************************************************)
(* RelayServer with flow control: what happens when the relay writes to a  *)
(* socket whose client does not read.                                      *)
(*                                                                         *)
(* writer.write() queues a frame in the connection's send buffer and       *)
(* `await writer.drain()` waits while the buffer is above its high-water   *)
(* mark, until the client reads it down or the connection is lost (then   *)
(* drain() raises).  Each socket is reduced to the number of frames its    *)
(* client has not read, unread[c], capped at HighWater + 1: with           *)
(* HighWater + 1 frames queued a drain() on c waits.                       *)
(*                                                                         *)
(* The code drains in two kinds of place:                                  *)
(*   - inside `async with self.lock`: the join notification of             *)
(*     _notify_session_peers and the DISCONNECT fan-out of _remove_peer    *)
(*     (client close and janitor eviction).  A drain that waits there      *)
(*     keeps the registry lock: `lock` records the task holding it and    *)
(*     the connections it waits on;                                        *)
(*   - outside the lock: the handler's own reply (_handle_client), the     *)
(*     relayed DATA and the CONNECT / PUNCH_SYNC to the target.  Only the  *)
(*     handler waits: draining[c] holds the connections it waits on.       *)
(* A lock section's effect on the registry is one RelayServer step; its    *)
(* frames are queued in that step and the lock is held afterwards until    *)
(* every socket it wrote to has room.  No task reads the registry without  *)
(* the lock, so the order of the two is unobservable.                      *)
(*                                                                         *)
(* Relay accounting (_handle_relay_data): after the target's drain the     *)
(* handler adds the relayed length to stats['total_bytes_relayed'], then   *)
(* takes the lock again to add it to the sender's record, if the sender    *)
(* still has one.  Every relayed DATA carries one byte of data.            *)
(***************************************************************************)
EXTENDS RelayServer, Naturals, FiniteSetsExt

CONSTANTS
    HighWater,   \* frames a socket buffers before drain() waits
    MaxRelayed   \* relays the model lets start: bounds total

ASSUME HighWater \in Nat /\ MaxRelayed \in Nat

VARIABLES
    unread,    \* unread[c]: frames queued to c that its client has not read
    lock,      \* the task keeping self.lock in a waiting drain(), or Unlocked
    draining,  \* draining[c]: sockets c's handler waits on outside the lock
    credit,    \* credit[c]: the relay whose record credit c's handler owes
    total,     \* stats['total_bytes_relayed']
    relayed    \* relayed[p]: relayed_bytes of p's record

flowVars == <<unread, lock, draining, credit, total, relayed>>
allVars == <<vars, flowVars>>

\* The state without `sent`, which records the frames of the last step and
\* is read by no guard: states that differ only in it behave alike.
FlowView == <<pc, handlerId, pending, peers, sessions, jpc, jstale, flowVars>>

Janitor == "janitor"
Unlocked == [task |-> "none", on |-> {}]
\* No relay owes a record credit (a value apart from every owed credit).
NoCredit == [relay |-> "none"]

FlowTypeOK ==
    /\ unread \in [Conns -> 0..(HighWater + 1)]
    /\ lock \in {Unlocked} \cup [task : Conns \cup {Janitor}, on : SUBSET Conns]
    /\ draining \in [Conns -> SUBSET Conns]
    /\ credit \in [Conns -> {NoCredit} \cup [from : Ids, counted : BOOLEAN]]
    /\ total \in Nat
    /\ relayed \in [Ids -> Nat]

-----------------------------------------------------------------------------
(* Sockets *)

\* writer.write(msg) on each connection of ds.
Queue(ds) ==
    [d \in Conns |-> IF d \in ds /\ unread[d] <= HighWater
                     THEN unread[d] + 1 ELSE unread[d]]

\* lock.on and draining[c] are the sockets a drain() still waits on.  The
\* transport wakes every drain() waiting on a socket when its buffer falls
\* back under the mark (resume_writing) or the connection is lost
\* (connection_lost); a woken drain() returns (raises) even if the buffer
\* fills again before its task runs.  So a socket leaves the waiting sets
\* in the step that wakes its waiters.

\* After this step, drain() on d waits: d's buffer is over the mark and
\* the connection has not been lost.
Waits(d) == unread'[d] > HighWater /\ pc'[d] # "closed"

\* The connections that the frames of this step are written to.
SentConns == {f.dst : f \in sent'}

\* c's handler is between two frames of its read loop: not waiting on a
\* socket, owing no relay credit, not keeping the lock.
HandlerIdle(c) ==
    /\ draining[c] = {}
    /\ credit[c] = NoCredit
    /\ lock.task # c

\* One lock section of `task` that drains ds inside the lock and whose task
\* then drains os outside it (a handler's reply, a relayed frame).
Section(task, ds, os) ==
    /\ lock = Unlocked
    /\ unread' = Queue(ds \cup os)
    /\ lock' = IF \E d \in ds : Waits(d)
               THEN [task |-> task, on |-> {d \in ds : Waits(d)}]
               ELSE Unlocked
    /\ draining' = IF task \in Conns
                   THEN [draining EXCEPT ![task] = {d \in os : Waits(d)}]
                   ELSE draining

\* A handler step outside the lock that writes os and drains it.
Outside(c, os) ==
    /\ unread' = Queue(os)
    /\ draining' = [draining EXCEPT ![c] = {d \in os : Waits(d)}]
    /\ UNCHANGED lock

\* A record that is deleted takes its relayed_bytes with it.
DropRemoved == relayed' = [p \in Ids |-> IF p \in DOMAIN peers' THEN relayed[p] ELSE 0]

-----------------------------------------------------------------------------
FlowInit ==
    /\ Init
    /\ unread = [c \in Conns |-> 0]
    /\ lock = Unlocked
    /\ draining = [c \in Conns |-> {}]
    /\ credit = [c \in Conns |-> NoCredit]
    /\ total = 0
    /\ relayed = [p \in Ids |-> 0]

-----------------------------------------------------------------------------
(* Handler steps: the RelayServer step, with its writes and drains. *)

AcceptF(c) == Accept(c) /\ UNCHANGED flowVars

\* The registering lock section; the record starts with relayed_bytes 0.
RegisterLockedF(c, id, s) ==
    /\ HandlerIdle(c)
    /\ RegisterLocked(c, id, s)
    /\ Section(c, {}, {})
    /\ relayed' = [relayed EXCEPT ![id] = 0]
    /\ UNCHANGED <<credit, total>>

\* The ERROR reply to a malformed REGISTER, drained outside the lock.
RegisterMalformedF(c) ==
    /\ HandlerIdle(c)
    /\ RegisterMalformed(c)
    /\ Outside(c, {c})
    /\ UNCHANGED <<credit, total, relayed>>

\* The join notification drains each mate inside the lock, then the
\* handler writes and drains its REGISTER_ACK.
RegisterNotifyF(c) ==
    /\ HandlerIdle(c)
    /\ RegisterNotify(c)
    /\ Section(c, SentConns, {c})
    /\ UNCHANGED <<credit, total, relayed>>

\* The PEER_LIST reply (or ERROR), drained after the lock section.
RequestPeerListF(c) ==
    /\ HandlerIdle(c)
    /\ RequestPeerList(c)
    /\ Section(c, {}, {c})
    /\ UNCHANGED <<credit, total, relayed>>

\* Mutant of RelayFailed: the record credit is owed even when the drain
\* raised, as if it stood in a finally clause.
RelayFailedCredited(cr) == [cr EXCEPT !.counted = TRUE]

\* A drain on the target raised: the except clause logs, nothing is
\* counted.
RelayFailed(cr) == NoCredit

\* After the target's drain returned: total_bytes_relayed += len(data),
\* and the handler owes the sender's record its credit.
Counted(cr) == [cr EXCEPT !.counted = TRUE]

\* DATA is written to the target and drained after the lookup section.  If
\* the target's buffer has room drain() returns at once and the length is
\* counted in the same step; if it is lost drain() raises.
RelayDataF(c, t) ==
    LET cr == [from |-> handlerId[c], counted |-> FALSE]
    IN /\ HandlerIdle(c)
       /\ total + Cardinality({d \in Conns : credit[d] # NoCredit}) < MaxRelayed
       /\ RelayData(c, t)
       /\ Section(c, {}, SentConns)
       /\ IF sent' = {} THEN UNCHANGED <<credit, total>>
          ELSE CASE pc[peers[t].conn] = "closed" ->
                      /\ credit' = [credit EXCEPT ![c] = RelayFailed(cr)]
                      /\ UNCHANGED total
                 [] draining'[c] # {} ->
                      /\ credit' = [credit EXCEPT ![c] = cr]
                      /\ UNCHANGED total
                 [] OTHER ->
                      /\ credit' = [credit EXCEPT ![c] = Counted(cr)]
                      /\ total' = total + 1
       /\ UNCHANGED relayed

\* The HEARTBEAT_ACK, drained after the lock section.
HeartbeatF(c) ==
    /\ HandlerIdle(c)
    /\ Heartbeat(c)
    /\ Section(c, {}, {c})
    /\ UNCHANGED <<credit, total, relayed>>

\* CONNECT (PUNCH_SYNC) is written to the target and drained after the
\* lookup section, then the reply to the requester.
IntroTargets(c, t) == IF sent' = {} THEN {c} ELSE {c, peers[t].conn}

ConnectRequestF(c, t) ==
    /\ HandlerIdle(c)
    /\ ConnectRequest(c, t)
    /\ Section(c, {}, IntroTargets(c, t))
    /\ UNCHANGED <<credit, total, relayed>>

PunchRequestF(c, t) ==
    /\ HandlerIdle(c)
    /\ PunchRequest(c, t)
    /\ Section(c, {}, IntroTargets(c, t))
    /\ UNCHANGED <<credit, total, relayed>>

ExternalAddrF(c) ==
    /\ HandlerIdle(c)
    /\ ExternalAddr(c)
    /\ Section(c, {}, {})
    /\ UNCHANGED <<credit, total, relayed>>

\* Connection c is lost: every drain() waiting on it raises.  A relay to
\* c that was waiting ends in the except clause.
Lost(c) ==
    /\ draining' = [x \in Conns |-> IF x = c THEN {} ELSE draining[x] \ {c}]
    /\ credit' = [x \in Conns |-> IF c \in draining[x] /\ credit[x] # NoCredit
                                 THEN RelayFailed(credit[x]) ELSE credit[x]]

\* The read loop ends: the client hung up, which also makes a drain of the
\* handler's own reply raise.  With a peer id the finally clause runs
\* _remove_peer, whose DISCONNECT fan-out drains inside the lock; then
\* writer.close().
DisconnectF(c) ==
    /\ draining[c] \subseteq {c}
    /\ credit[c] = NoCredit
    /\ lock.task # c
    /\ Disconnect(c)
    /\ IF handlerId[c] # NoId
       THEN /\ lock = Unlocked
            /\ unread' = Queue(SentConns)
            /\ lock' = IF \E d \in SentConns : Waits(d)
                       THEN [task |-> c, on |-> {d \in SentConns : Waits(d)}]
                       ELSE Unlocked
       ELSE /\ lock' = [lock EXCEPT !.on = @ \ {c}]
            /\ UNCHANGED unread
    /\ Lost(c)
    /\ DropRemoved
    /\ UNCHANGED total

\* The relay's drain() has returned: total_bytes_relayed += len(data).
DrainDone(c) ==
    /\ draining[c] = {}
    /\ credit[c] # NoCredit
    /\ ~credit[c].counted
    /\ credit' = [credit EXCEPT ![c] = Counted(@)]
    /\ total' = total + 1
    /\ sent' = {}
    /\ UNCHANGED <<pc, handlerId, pending, peers, sessions, jpc, jstale,
                   unread, lock, draining, relayed>>

\* The second lock section of _handle_relay_data: relayed_bytes += len(data)
\* on the record held under the sender's id, if there is one.
RelayCredit(c) ==
    LET from == credit[c].from
    IN /\ credit[c] # NoCredit
       /\ credit[c].counted
       /\ draining[c] = {}
       /\ lock = Unlocked
       /\ relayed' = IF from \in DOMAIN peers
                     THEN [relayed EXCEPT ![from] = @ + 1] ELSE relayed
       /\ credit' = [credit EXCEPT ![c] = NoCredit]
       /\ sent' = {}
       /\ UNCHANGED <<pc, handlerId, pending, peers, sessions, jpc, jstale,
                      unread, lock, draining, total>>

-----------------------------------------------------------------------------
(* Clients, the lock and the janitor *)

\* The client of an open connection reads one frame from its socket; when
\* the buffer falls back under the mark every drain() waiting on it wakes.
Read(c) ==
    /\ pc[c] \notin {"idle", "closed"}
    /\ unread[c] > 0
    /\ unread' = [unread EXCEPT ![c] = @ - 1]
    /\ IF unread'[c] <= HighWater
       THEN /\ lock' = [lock EXCEPT !.on = @ \ {c}]
            /\ draining' = [x \in Conns |-> draining[x] \ {c}]
       ELSE UNCHANGED <<lock, draining>>
    /\ sent' = {}
    /\ UNCHANGED <<pc, handlerId, pending, peers, sessions, jpc, jstale,
                   credit, total, relayed>>

\* Every drain() of the lock section has returned or raised: the rest of
\* the section runs and `async with` releases the lock.
ReleaseLock ==
    /\ lock # Unlocked
    /\ lock.on = {}
    /\ lock' = Unlocked
    /\ sent' = {}
    /\ UNCHANGED <<pc, handlerId, pending, peers, sessions, jpc, jstale,
                   unread, draining, credit, total, relayed>>

TickF(p) == Tick(p) /\ UNCHANGED flowVars

JanitorScanF == lock = Unlocked /\ JanitorScan /\ UNCHANGED flowVars

\* Each eviction is a _remove_peer: its fan-out drains inside the lock.
JanitorEvictF ==
    /\ JanitorEvict
    /\ Section(Janitor, SentConns, {})
    /\ DropRemoved
    /\ UNCHANGED <<credit, total>>

-----------------------------------------------------------------------------
FlowNext ==
    \/ \E c \in Conns :
         \/ AcceptF(c)
         \/ \E id \in Ids, s \in Sessions : RegisterLockedF(c, id, s)
         \/ RegisterMalformedF(c)
         \/ RegisterNotifyF(c)
         \/ RequestPeerListF(c)
         \/ HeartbeatF(c)
         \/ ExternalAddrF(c)
         \/ \E t \in Ids : RelayDataF(c, t) \/ ConnectRequestF(c, t)
                                           \/ PunchRequestF(c, t)
         \/ DisconnectF(c)
         \/ DrainDone(c)
         \/ RelayCredit(c)
         \/ Read(c)
    \/ ReleaseLock
    \/ \E p \in Ids : TickF(p)
    \/ JanitorScanF
    \/ JanitorEvictF

FlowSpec == FlowInit /\ [][FlowNext]_allVars

\* The event loop runs every task that can run: a lock section whose
\* drains all returned finishes.  asyncio.Lock hands the lock to its
\* waiters in FIFO order, so a task that waits for the lock while it is
\* released infinitely often gets it (strong fairness).  Time passes and
\* the janitor's sleep ends.
JanitorFair ==
    /\ WF_allVars(ReleaseLock)
    /\ \A p \in Ids : WF_allVars(TickF(p))
    /\ SF_allVars(JanitorScanF)
    /\ SF_allVars(JanitorEvictF)

\* The same for the handlers' relay accounting: a relay whose drain
\* returned counts it, and its second lock section runs.
ServerFair ==
    /\ JanitorFair
    /\ \A c \in Conns : WF_allVars(DrainDone(c)) /\ SF_allVars(RelayCredit(c))

\* Any client may stop reading its socket.
SlowReaderSpec == FlowSpec /\ ServerFair

\* Every client keeps reading its socket; the handlers' own progress is not
\* assumed.
ReadingSpec == FlowSpec /\ JanitorFair /\ \A c \in Conns : WF_allVars(Read(c))

-----------------------------------------------------------------------------
(* Properties *)

\* Spec section 8: relayed_bytes of the live records never add up to more
\* than stats['total_bytes_relayed'].  The per-record credit comes in a
\* second lock section after the drain, by then the sender may be gone or
\* re-registered, and a drain that raised must credit neither.
AccountingBound ==
    MapThenSumSet(LAMBDA p : relayed[p], DOMAIN peers) <= total

=============================================================================
