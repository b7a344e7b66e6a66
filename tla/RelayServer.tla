---------------------------- MODULE RelayServer ----------------------------
(***************************************************************************)
(* The SentinelFS relay server (src/relay/relay_server.py): the peer       *)
(* registry (peers, sessions), one handler task per accepted connection,   *)
(* and the janitor task that evicts peers whose heartbeat is stale.        *)
(*                                                                         *)
(* The server is one asyncio event loop.  A task runs without interruption *)
(* between two awaits, and every section under `async with self.lock`     *)
(* contains no await that gives the lock away, so each such section is one *)
(* step here.  The gaps between two lock sections of one handler (register *)
(* then notify, scan then evict) are separate steps: under lock contention *)
(* (a waiter queued while another task drained a slow socket inside the    *)
(* lock) other tasks run in them.                                          *)
(*                                                                         *)
(* Payloads, IPs, ports and timestamps are abstracted away.  What a frame  *)
(* reveals is kept: which peer it is addressed to, which peer it is about  *)
(* and the session the server attributes to that peer.                     *)
(***************************************************************************)
EXTENDS FiniteSets, Functions, TLC

CONSTANTS
    Conns,      \* connections the listener may accept
    Ids,        \* peer ids a client may register under
    Sessions,   \* session codes
    NoId,       \* the handler's peer_id is None or "" (falsy)
    NoSession,  \* no session (a frame about an unregistered sender)
    EmptyId     \* the peer id "" (a zero-length id), or NoId if Ids has none

ASSUME /\ NoId \notin Ids
       /\ NoSession \notin Sessions
       /\ EmptyId \in Ids \cup {NoId}

VARIABLES
    pc,         \* pc[c]: where the handler task of connection c is
    handlerId,  \* handlerId[c]: the local peer_id of _handle_client
    pending,    \* pending[c]: REGISTER applied to the registry, not yet notified
    peers,      \* self.peers: partial function peer id -> record
    sessions,   \* self.sessions: partial function session code -> set of ids
    jpc,        \* the janitor task: "sleep" or "evict"
    jstale,     \* the janitor's stale_peers list, not yet evicted
    sent        \* frames written to peers by the last step (observation)

vars == <<pc, handlerId, pending, peers, sessions, jpc, jstale, sent>>

-----------------------------------------------------------------------------
(* Types *)

\* PeerInfo, without the payload-only fields (ips, ports, timestamps) and
\* nat_type, which EXTERNAL_ADDR writes and no handler ever reads.
\* conn stands for the writer; stale says that now - last_heartbeat > 90.
PeerInfo == [session: Sessions, conn: Conns, stale: BOOLEAN]

NoPending == [id |-> NoId, session |-> NoSession]

\* PEER_NOTICE is the one-entry PEER_LIST that _notify_session_peers writes;
\* PEER_LIST is the reply to a PEER_LIST request.
FrameType == {"PEER_NOTICE", "PEER_LIST", "CONNECT", "CONNECT_ACK", "DATA",
              "DISCONNECT", "PUNCH_SYNC"}

\* A frame the server writes to connection dst that reveals peer subj,
\* presenting subj as a member of session subjSess.  A notice goes to the
\* writer of the addressee's record; a reply goes to the requesting
\* connection's own writer (_handle_client, line 158).
Frame == [type: FrameType, dst: Conns, subj: Ids,
          subjSess: Sessions \cup {NoSession}]

TypeOK ==
    /\ pc \in [Conns -> {"idle", "read", "notify", "closed"}]
    /\ handlerId \in [Conns -> Ids \cup {NoId}]
    /\ pending \in [Conns -> [id: Ids, session: Sessions] \cup {NoPending}]
    /\ DOMAIN peers \subseteq Ids
    /\ \A p \in DOMAIN peers : peers[p] \in PeerInfo
    /\ DOMAIN sessions \subseteq Sessions
    /\ \A s \in DOMAIN sessions : sessions[s] \subseteq Ids
    /\ jpc \in {"sleep", "evict"}
    /\ jstale \subseteq Ids
    /\ sent \subseteq Frame

-----------------------------------------------------------------------------
(* Registry helpers *)

\* sessions.get(s, set())
Members(s) == IF s \in DOMAIN sessions THEN sessions[s] ELSE {}

\* self.sessions[s].discard(p), applied only when s is a key.
DiscardFrom(sess, s, p) ==
    IF s \in DOMAIN sess THEN [sess EXCEPT ![s] = @ \ {p}] ELSE sess

\* Mutant of Displace: the old registration is overwritten without being
\* discarded from its session.
DisplaceNothing(id) == sessions

\* Remove old registration if exists: discard the id from its old session,
\* leaving the (possibly now empty) set in place.
Displace(id) ==
    IF id \in DOMAIN peers
    THEN DiscardFrom(sessions, peers[id].session, id)
    ELSE sessions

\* Add to session group, creating the set if absent.
AddTo(sess, s, p) == (s :> (IF s \in DOMAIN sess THEN sess[s] ELSE {}) \cup {p}) @@ sess

\* The registry's eviction path, _remove_peer(p): one lock section.  The
\* DISCONNECT fan-out goes to the members left in the session after p was
\* discarded and its emptied entry dropped; p's record is deleted last.
RemovePeer(p) ==
    IF p \notin DOMAIN peers
    THEN /\ sent' = {}
         /\ UNCHANGED <<peers, sessions>>
    ELSE LET s     == peers[p].session
             sess1 == DiscardFrom(sessions, s, p)
             sess2 == IF s \in DOMAIN sess1 /\ sess1[s] = {}
                      THEN Restrict(sess1, DOMAIN sess1 \ {s})
                      ELSE sess1
             mates == IF s \in DOMAIN sess2
                      THEN {o \in sess2[s] : o \in DOMAIN peers} ELSE {}
         IN /\ sessions' = sess2
            /\ sent' = {[type |-> "DISCONNECT", dst |-> peers[o].conn,
                         subj |-> p, subjSess |-> s] : o \in mates}
            /\ peers' = Restrict(peers, DOMAIN peers \ {p})

\* Mutant of IsStale: the subtraction reversed, last_heartbeat - now > 90.
IsStaleSwapped(r) == FALSE

\* The janitor's test: 90 seconds without heartbeat.
IsStale(r) == r.stale

-----------------------------------------------------------------------------
Init ==
    /\ pc = [c \in Conns |-> "idle"]
    /\ handlerId = [c \in Conns |-> NoId]
    /\ pending = [c \in Conns |-> NoPending]
    /\ peers = <<>>
    /\ sessions = <<>>
    /\ jpc = "sleep"
    /\ jstale = {}
    /\ sent = {}

-----------------------------------------------------------------------------
(* Connection handler *)

\* asyncio.start_server accepts c and starts _handle_client.
Accept(c) ==
    /\ pc[c] = "idle"
    /\ pc' = [pc EXCEPT ![c] = "read"]
    /\ sent' = {}
    /\ UNCHANGED <<handlerId, pending, peers, sessions, jpc, jstale>>

\* Mutant of RegisterLocked: a re-registration updates the existing record
\* in place and keeps its last_heartbeat.
RegisterLockedKeepHeartbeat(c, id, s) ==
    /\ pc[c] = "read"
    /\ peers' = (id :> [session |-> s, conn |-> c,
                        stale |-> id \in DOMAIN peers /\ peers[id].stale])
                @@ peers
    /\ sessions' = AddTo(Displace(id), s, id)
    /\ pc' = [pc EXCEPT ![c] = "notify"]
    /\ pending' = [pending EXCEPT ![c] = [id |-> id, session |-> s]]
    /\ sent' = {}
    /\ UNCHANGED <<handlerId, jpc, jstale>>

\* A well-formed REGISTER(id, s): parse, then the lock section that displaces
\* an old registration of id and inserts the new record.
RegisterLocked(c, id, s) ==
    /\ pc[c] = "read"
    /\ peers' = (id :> [session |-> s, conn |-> c, stale |-> FALSE])
                @@ peers
    /\ sessions' = AddTo(Displace(id), s, id)
    /\ pc' = [pc EXCEPT ![c] = "notify"]
    /\ pending' = [pending EXCEPT ![c] = [id |-> id, session |-> s]]
    /\ sent' = {}
    /\ UNCHANGED <<handlerId, jpc, jstale>>

\* A REGISTER whose payload fails to parse: the except branch returns
\* (ERROR, ""), and the handler takes "" as its new peer_id.
RegisterMalformed(c) ==
    /\ pc[c] = "read"
    /\ handlerId' = [handlerId EXCEPT ![c] = NoId]
    /\ sent' = {}
    /\ UNCHANGED <<pc, pending, peers, sessions, jpc, jstale>>

\* Mutant of RegisterNotify: the handler unpacks (ack, session_code).
RegisterNotifySwapped(c) ==
    LET id == pending[c].id
        s  == pending[c].session
    IN /\ pc[c] = "notify"
       /\ sent' = {[type |-> "PEER_NOTICE", dst |-> peers[m].conn,
                    subj |-> id, subjSess |-> s] :
                      m \in {m \in Members(s) \ {id} : m \in DOMAIN peers}}
       /\ handlerId' = [handlerId EXCEPT ![c] = s]
       /\ pc' = [pc EXCEPT ![c] = "read"]
       /\ pending' = [pending EXCEPT ![c] = NoPending]
       /\ UNCHANGED <<peers, sessions, jpc, jstale>>

\* The handler's new peer_id; "" is falsy, so the handler takes it as no
\* peer id at all.
Adopted(id) == IF id = EmptyId THEN NoId ELSE id

\* _notify_session_peers under a second lock section, then the return of
\* (ack, peer_id) that makes the handler take id as its peer_id.
RegisterNotify(c) ==
    LET id == pending[c].id
        s  == pending[c].session
    IN /\ pc[c] = "notify"
       /\ sent' = {[type |-> "PEER_NOTICE", dst |-> peers[m].conn,
                    subj |-> id, subjSess |-> s] :
                      m \in {m \in Members(s) \ {id} : m \in DOMAIN peers}}
       /\ handlerId' = [handlerId EXCEPT ![c] = Adopted(id)]
       /\ pc' = [pc EXCEPT ![c] = "read"]
       /\ pending' = [pending EXCEPT ![c] = NoPending]
       /\ UNCHANGED <<peers, sessions, jpc, jstale>>

\* Mutant of Registered: the dispatch loses its `if current_peer_id` checks.
RegisteredAny(c) == pc[c] = "read"

\* Every handler below runs only `if current_peer_id`.
Registered(c) == pc[c] = "read" /\ handlerId[c] # NoId

\* PEER_LIST request: every session mate of the requester but itself.
RequestPeerList(c) ==
    LET id == handlerId[c]
    IN /\ Registered(c)
       /\ sent' = IF id \notin DOMAIN peers THEN {}    \* ERROR Not registered
                  ELSE {[type |-> "PEER_LIST", dst |-> c, subj |-> q,
                         subjSess |-> peers[q].session] :
                        q \in {q \in Members(peers[id].session) :
                                   q # id /\ q \in DOMAIN peers}}
       /\ UNCHANGED <<pc, handlerId, pending, peers, sessions, jpc, jstale>>

\* DATA to target t: the lock section looks t up and compares sessions only
\* when the sender is itself registered; the frame is written right after.
RelayData(c, t) ==
    LET from == handlerId[c]
    IN /\ Registered(c)
       /\ sent' = IF \/ t \notin DOMAIN peers
                     \/ /\ from \in DOMAIN peers
                        /\ peers[from].session # peers[t].session
                  THEN {}
                  ELSE {[type |-> "DATA", dst |-> peers[t].conn,
                         subj |-> from,
                         subjSess |-> IF from \in DOMAIN peers
                                      THEN peers[from].session
                                      ELSE NoSession]}
       /\ UNCHANGED <<pc, handlerId, pending, peers, sessions, jpc, jstale>>

\* HEARTBEAT: refresh the record of the handler's peer id, if any.
Heartbeat(c) ==
    LET id == handlerId[c]
    IN /\ Registered(c)
       /\ peers' = IF id \in DOMAIN peers
                   THEN [peers EXCEPT ![id].stale = FALSE] ELSE peers
       /\ sent' = {}
       /\ UNCHANGED <<pc, handlerId, pending, sessions, jpc, jstale>>

\* Mutant of SessionMismatch: the session comparison left out.
SessionMismatchNever(a, b) == FALSE

\* The CONNECT session check.
SessionMismatch(a, b) == peers[a].session # peers[b].session

\* CONNECT to t: three error replies, else CONNECT to t and CONNECT_ACK back.
ConnectRequest(c, t) ==
    LET from == handlerId[c]
    IN /\ Registered(c)
       /\ sent' = IF \/ t \notin DOMAIN peers
                     \/ from \notin DOMAIN peers
                     \/ SessionMismatch(from, t)
                  THEN {}
                  ELSE {[type |-> "CONNECT", dst |-> peers[t].conn,
                         subj |-> from, subjSess |-> peers[from].session],
                        [type |-> "CONNECT_ACK", dst |-> c, subj |-> t,
                         subjSess |-> peers[t].session]}
       /\ UNCHANGED <<pc, handlerId, pending, peers, sessions, jpc, jstale>>

\* PUNCH_REQUEST to t: PUNCH_SYNC to both once both are registered.
PunchRequest(c, t) ==
    LET from == handlerId[c]
    IN /\ Registered(c)
       /\ sent' = IF t \notin DOMAIN peers \/ from \notin DOMAIN peers
                  THEN {}
                  ELSE {[type |-> "PUNCH_SYNC", dst |-> peers[t].conn,
                         subj |-> from, subjSess |-> peers[from].session],
                        [type |-> "PUNCH_SYNC", dst |-> c, subj |-> t,
                         subjSess |-> peers[t].session]}
       /\ UNCHANGED <<pc, handlerId, pending, peers, sessions, jpc, jstale>>

\* EXTERNAL_ADDR: sets nat_type (abstracted away) under the lock and replies
\* nothing; the registry the model keeps is left as it is.
ExternalAddr(c) ==
    /\ Registered(c)
    /\ sent' = {}
    /\ UNCHANGED <<pc, handlerId, pending, peers, sessions, jpc, jstale>>

\* The read loop ends (EOF, oversize length, unknown type code, any other
\* exception) and the finally clause removes the handler's peer id.
Disconnect(c) ==
    /\ pc[c] = "read"
    /\ IF handlerId[c] # NoId
       THEN RemovePeer(handlerId[c])
       ELSE sent' = {} /\ UNCHANGED <<peers, sessions>>
    /\ pc' = [pc EXCEPT ![c] = "closed"]
    /\ UNCHANGED <<handlerId, pending, jpc, jstale>>

-----------------------------------------------------------------------------
(* Time and the janitor *)

\* More than 90 seconds pass since p's last heartbeat.
Tick(p) ==
    /\ p \in DOMAIN peers
    /\ ~peers[p].stale
    /\ peers' = [peers EXCEPT ![p].stale = TRUE]
    /\ sent' = {}
    /\ UNCHANGED <<pc, handlerId, pending, sessions, jpc, jstale>>

\* After asyncio.sleep(60): collect the stale peers under the lock.
JanitorScan ==
    LET stale == {p \in DOMAIN peers : IsStale(peers[p])}
    IN /\ jpc = "sleep"
       /\ jstale' = stale
       /\ jpc' = IF stale = {} THEN "sleep" ELSE "evict"
       /\ sent' = {}
       /\ UNCHANGED <<pc, handlerId, pending, peers, sessions>>

\* Evict one collected peer through _remove_peer, without looking again.
JanitorEvict ==
    /\ jpc = "evict"
    /\ \E p \in jstale :
         /\ RemovePeer(p)
         /\ jstale' = jstale \ {p}
         /\ jpc' = IF jstale' = {} THEN "sleep" ELSE "evict"
    /\ UNCHANGED <<pc, handlerId, pending>>

-----------------------------------------------------------------------------
Next ==
    \/ \E c \in Conns :
         \/ Accept(c)
         \/ \E id \in Ids, s \in Sessions : RegisterLocked(c, id, s)
         \/ RegisterMalformed(c)
         \/ RegisterNotify(c)
         \/ RequestPeerList(c)
         \/ Heartbeat(c)
         \/ ExternalAddr(c)
         \/ \E t \in Ids : RelayData(c, t) \/ ConnectRequest(c, t)
                                          \/ PunchRequest(c, t)
         \/ Disconnect(c)
    \/ \E p \in Ids : Tick(p)
    \/ JanitorScan
    \/ JanitorEvict

Spec == Init /\ [][Next]_vars

\* Time passes for every record, and the janitor's sleep always ends.
FairSpec ==
    /\ Spec
    /\ \A p \in Ids : WF_vars(Tick(p))
    /\ WF_vars(JanitorScan)
    /\ WF_vars(JanitorEvict)


-----------------------------------------------------------------------------
(* Properties *)

\* Spec section 3, invariants 1 and 4: an id has a record iff it is in a
\* session set, and then in exactly the set of its record's session.  The
\* displacement in _handle_register, the discard-then-delete of
\* _remove_peer and the janitor's evictions all have to preserve it.
RegistryConsistent ==
    /\ \A p \in DOMAIN peers :
         /\ peers[p].session \in DOMAIN sessions
         /\ p \in sessions[peers[p].session]
    /\ \A s \in DOMAIN sessions : \A p \in sessions[s] :
         /\ p \in DOMAIN peers
         /\ peers[p].session = s

\* The registry as lookups read it: sessions.get(s, set()) does not tell an
\* empty set from a missing key.
LiveSessions == [s \in {t \in DOMAIN sessions : sessions[t] # {}} |-> sessions[s]]

Abstract == INSTANCE Registry
    WITH table <- peers, index <- LiveSessions, Handles <- Conns

\* Spec 4.3: the registry behaves as the atomic serialized operations of
\* the Registry module.  Every handler step, the two-phase REGISTER, the
\* DISCONNECT fan-out of _remove_peer and the janitor's evictions change
\* peers and sessions only as one register, remove, touch or expiry would.
RegistryRefined == Abstract!Spec

\* Spec section 3, invariant 2: the session index holds no empty set; the
\* entry of a session is dropped when its last peer leaves.
NoEmptySession ==
    \A s \in DOMAIN sessions : sessions[s] # {}

\* A frame is scoped when, in the state the server acts on, the connection
\* it is written to holds a record in the session the frame presents its
\* subject as a member of.
Scoped(f) ==
    \E p \in DOMAIN peers :
        peers[p].conn = f.dst /\ peers[p].session = f.subjSess

\* The step writes a frame of one of these types that is not scoped.
Unscoped(types) == \E f \in sent' : f.type \in types /\ ~Scoped(f)

\* Session-scoped notices (spec sections 2 and 4.4): the frames the server
\* addresses through another peer's record, the join notice, the CONNECT
\* introduction and the DISCONNECT fan-out, only reach connections
\* registered in the subject's session, also when a REGISTER's notification
\* runs after other handlers changed the registry.
IntroductionsScoped ==
    [][~Unscoped({"PEER_NOTICE", "CONNECT", "DISCONNECT"})]_vars

\* Session-scoped visibility (spec sections 1, 2 and 4.4): no frame that
\* reveals a peer, a notice or a reply to a PEER_LIST, CONNECT or
\* PUNCH_REQUEST, reaches a connection that holds no record in the peer's
\* session.  PUNCH_REQUEST has no session check, and a reply goes to the
\* requesting connection even when its id was re-registered elsewhere.
SessionScoped ==
    [][~Unscoped({"PEER_NOTICE", "PEER_LIST", "CONNECT", "CONNECT_ACK",
                  "DISCONNECT", "PUNCH_SYNC"})]_vars

\* Spec 4.4 DATA: the relay forwards only between two registered peers of
\* one session.
RelayScoped == [][~Unscoped({"DATA"})]_vars

\* Spec section 3, invariant 3: every record's send_handle belongs to an
\* open connection.
SendHandleOpen ==
    \A p \in DOMAIN peers : pc[peers[p].conn] # "closed"

Closing(c) == pc[c] # "closed" /\ pc'[c] = "closed"
Removed == DOMAIN peers \ DOMAIN peers'

\* Spec section 3 lifecycle: closing a connection destroys the record of
\* that connection, never a record another connection registered.
CloseRemovesOwnRecord ==
    [][\A c \in Conns : Closing(c) => \A p \in Removed : peers[p].conn = c]_vars

\* Spec section 4.5: when no connection closes, a record is only destroyed
\* by the janitor for staleness, so it must be stale when it goes.
EvictOnlyStale ==
    [][(\A c \in Conns : ~Closing(c)) => \A p \in Removed : peers[p].stale]_vars

\* Spec 4.3: a record whose connection has closed is cleaned up by the
\* janitor, whatever left it behind (a second or a malformed REGISTER).
ClosedConnectionReaped ==
    \A c \in Conns :
        pc[c] = "closed" ~> \A p \in DOMAIN peers : peers[p].conn # c

\* The janitor's cadence: a record that has gone 90 seconds without a
\* heartbeat is eventually evicted, unless a heartbeat or a new REGISTER of
\* its id refreshes it first.
StalePeerEvicted ==
    \A p \in Ids :
        (p \in DOMAIN peers /\ peers[p].stale)
            ~> (p \notin DOMAIN peers \/ ~peers[p].stale)

=============================================================================
