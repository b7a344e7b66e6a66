# TLA+ model of the SentinelFS relay server

This directory holds TLA+ models of `src/relay/relay_server.py`. That file is the
rendezvous/relay server: peers register under a session code, the server
introduces peers of the same session to each other, coordinates NAT hole
punching and relays opaque DATA between them. `spec.md` is its natural-language
specification. The only other source file,
`src/SentinelFS/test_folders/code_project/app.py`, is a sample Flask API.
It is kept as test data for the file-sync client, which spec section 1 puts
out of scope. It shares nothing with the relay and is not modelled.

## 1. Inventory

### Components and their state

| Component | Code | State |
|---|---|---|
| Peer registry | `RelayServer.peers`, `.sessions`, `.lock` (79-101) | `peers`: peer id -> `PeerInfo` (session, writer, endpoints, `last_heartbeat`, `nat_type`, `relayed_bytes`). `sessions`: session code -> set of ids. One `asyncio.Lock` guards both. |
| Connection handler | `_handle_client`, `_handle_message` (120-212) | One asyncio task per connection. Its local `peer_id` starts as `None` and is replaced by every REGISTER reply, including `""` after a failed parse. |
| Protocol logic | `_handle_register`, `_handle_peer_list`, `_handle_relay_data`, `_handle_connect_request`, `_handle_punch_request`, `_update_heartbeat`, `_update_external_addr`, `_notify_session_peers`, `_remove_peer` (214-560) | Reads and mutates the registry. Writes frames to the requester and to other peers' writers. |
| Janitor | `_cleanup_loop` (562-578) | Sleeps 60 s, collects ids whose heartbeat is older than 90 s under the lock, then removes each one via `_remove_peer`. |
| Stats | `self.stats`, `get_stats` (93-98, 585-591) | Monotonic counters: connections, relayed bytes, introductions, and `active_sessions`. |
| Wire codec | `_make_message`, the header read (133-144), the per-message payload parsers | Stateless. The header is 1 type byte plus a 4-byte length, capped at 10 MiB. Payloads use 1-byte length prefixes. |
| Scaffolding | `main`, argparse, logging | None. |
| Sample API | `test_folders/code_project/app.py` | Test data for the client, out of scope. |

### How the components interact

Every interaction happens inside one asyncio event loop. A task runs without
interruption between two `await`s. The registry lock serializes registry
sections. The lock sections that write notifications (`_notify_session_peers`,
`_remove_peer`) `await drain()` while they hold the lock: a slow peer keeps
the lock held, and other tasks queue on it. Cross-connection delivery is a
direct write to another peer's `writer`, found through the registry. Three
handlers first read a record under the lock and then use that copy after
releasing it:

- REGISTER: `_handle_register` updates the registry, releases the lock, and then `_notify_session_peers` takes it again.
- DATA: the target is looked up under the lock, then written to after the lock is released.
- The janitor: it collects stale ids under the lock, then evicts each one in a separate lock section.

### What makes it hard

- Peer ids are not authenticated. A second connection may register an id
  that is already registered ("displacement"). The old connection stays open
  and its handler keeps the id.
- The handler tracks its own peer id separately from the registry. Janitor
  eviction, another connection's close, a second REGISTER or a malformed
  REGISTER can each make the two disagree.
- The gaps between two lock sections of one task are interleaving points under
  contention.
- Time: the heartbeat freshness used by the janitor.

### What must hold (per component)

- Registry: spec section 3 invariants 1, 2 and 4 (agreement of the two
  indices, no empty sessions, unique identity) and invariant 3 (every
  send_handle belongs to an open connection).
- Protocol: session-scoped visibility of endpoints and relayed data.
- Lifecycle: a record is destroyed only by its own connection's close or by
  staleness. Eviction terminates the connection (section 5).
- Janitor: stale records are eventually evicted, and records left behind
  closed connections are eventually reaped.

## 2. Modules

### `RelayServer.tla`: registry, handlers and janitor

The module's state:

- `peers`: a partial function id -> `[session, conn, stale]`. `conn` stands
  for the writer. `stale` means "more than 90 s since the last heartbeat".
- `sessions`: a partial function session -> set of ids.
- `pc`, `handlerId` and `pending`, for each connection: where its task is
  (`idle`, `read`, `notify`, `closed`), its local `peer_id`, and a REGISTER
  that has been applied but not yet notified.
- `jpc` and `jstale`: the janitor's phase and its collected list.
- `sent`: an observation variable. It holds the frames the last step wrote
  that reveal one peer, as `[type, dst, subj, subjSess]`. `dst` is the
  connection written to. A notice (join notice, CONNECT to the target,
  DISCONNECT, relayed DATA) goes to the writer of the addressee's record. A
  reply (PEER_LIST, CONNECT_ACK, the requester's PUNCH_SYNC) goes to the
  requesting connection (line 158), whatever id that connection's handler
  holds. The join notice is a one-entry PEER_LIST on the wire; the model
  calls it `PEER_NOTICE` to tell it from the reply.

Each lock section is one action. Payloads, IPs, ports, timestamps and
`nat_type` are abstracted away: `nat_type` is written by EXTERNAL_ADDR and
never read.

The constant `EmptyId` names the member of `Ids` that stands for the peer id
`""` (or `NoId` when no id is empty). `_handle_register` accepts a
zero-length id (line 225) and stores a record under it. The handler then
adopts `""`, which is falsy, so it behaves as if it held no id.
`Adopted(id)` models this.

| Action | Code |
|---|---|
| `Accept(c)` | `start_server` accepts a connection. |
| `RegisterLocked(c, id, s)` | The parse and the locked section of `_handle_register`, including displacement. |
| `RegisterNotify(c)` | `_notify_session_peers`, then the handler adopting the id (`Adopted`). |
| `RegisterMalformed(c)` | The `except` path: `(ERROR, "")`, after which the handler forgets its id. |
| `RequestPeerList`, `RelayData`, `ConnectRequest`, `PunchRequest`, `Heartbeat`, `ExternalAddr` | The corresponding handlers, guarded by `if current_peer_id`. |
| `Disconnect(c)` | The read loop ends for any reason (EOF, oversize, unknown type code, exception), and the `finally` clause calls `_remove_peer(peer_id)`. |
| `Tick(p)` | 90 s pass for one record (environment). |
| `JanitorScan`, `JanitorEvict` | The two phases of `_cleanup_loop`. |

The module also defines `LiveSessions`: the session index as lookups read
it, where an empty set and a missing key look the same.
`Abstract == INSTANCE Registry WITH table <- peers, index <- LiveSessions,
Handles <- Conns` maps the server onto the abstract registry.

### `RelayFlow.tla`: socket buffers, drains and relay accounting

`RelayFlow` EXTENDS `RelayServer`. Each of its handler actions is the
`RelayServer` action conjoined with what the handler does to sockets. It
adds these variables:

- `unread[c]`: frames queued on connection c that its client has not read
  yet, capped at `HighWater + 1`. A `drain()` on c waits while c holds more
  than `HighWater` unread frames.
- `lock`: the task that keeps `self.lock` inside a waiting `drain()`, and
  the sockets it still waits on.
- `draining[c]`: the sockets that c's handler waits on outside the lock.
  These are its own reply (`_handle_client`, 158-159) and the target of
  DATA, CONNECT or PUNCH_SYNC.
- `credit[c]`: a relay whose accounting is still owed. It records the
  sender id, and whether `total_bytes_relayed` has already been counted.
- `total` and `relayed[p]`: `stats['total_bytes_relayed']` and the
  `relayed_bytes` of p's record. Every relayed DATA carries one byte.

These are the actions:

| Action | Code |
|---|---|
| `Section(task, ds, os)` | A lock section writes its frames. It keeps the lock while a `drain()` on `ds` waits (`_notify_session_peers` 521-523, `_remove_peer` 551-553). Its task then drains `os` outside the lock. |
| `RegisterNotifyF`, `DisconnectF`, `JanitorEvictF` | Lock sections that drain other peers' sockets inside the lock. |
| `RelayDataF(c, t)` | The lookup section, then the write and drain of DATA (349-351). If the target's buffer has room, `total_bytes_relayed` is counted in the same step (354). On a lost connection `drain()` raises, and the `except` at 361 counts nothing. |
| `DrainDone(c)` | The relay's `drain()` returns: `total_bytes_relayed += len(data)`. |
| `RelayCredit(c)` | The second lock section (355-357). It credits the record held under the sender id, if there is one at that moment. |
| `Read(c)` | The client reads one frame. A read that brings the buffer back under the mark wakes every `drain()` waiting on the socket (`resume_writing`). |
| `Lost(c)` (in `DisconnectF`) | The connection is lost: every `drain()` on it raises. |
| `ReleaseLock` | Every drain of the lock section has returned, so `async with` releases the lock. |

A lock section's registry effect, and all of its frames, happen in one
step. The lock is then held until every socket the section wrote to has
room. No task reads the registry without the lock, so this order is not
observable. One approximation: CONNECT and PUNCH write the requester's
reply in the same step as the frame to the target. The code writes the
reply only after the target's drain returns.

### `Registry.tla`: what the registry promises

This is the abstract specification of spec section 4.3. It has a table of
records and a session index, changed only by atomic operations:

- `Register(id, s, h)`: displaces any old record and leaves its session;
- `Remove(id)`: drops a session once it is empty;
- `Touch(id)`: a heartbeat makes the record fresh;
- `Expire(id)`: time passing makes the record stale.

`RegistryRefined == Abstract!Spec` says that every server step changes the
registry as one of these operations would. That covers the two-phase
REGISTER, the DISCONNECT fan-out of `_remove_peer` and the janitor's
evictions, and it rules out any handler touching the registry otherwise.
The refinement holds. The code's known registry bugs are all about *which*
operation runs, not about its effect: an old connection's close removes a
newer record, the janitor evicts a fresh record, and an empty set is left in
the index but is invisible to lookups. Those bugs have their own runs below.

### `Codec.tla`: the wire codec

The codec is modelled as pure operators over byte sequences, where a byte
is a natural number 0..255. Text values are sequences of Unicode code
points, as a Python `str` is, so `Len(str)` is the code's `len(s)`.
`Encode`/`Decode` are CPython's UTF-8 `str.encode()` and
`bytes.decode('utf-8')`, with the rules for overlong forms, surrogates and
truncated sequences. `Slice` is Python slicing, which truncates. An index
past the end is Python's `IndexError`. The operators are:

- `MakeMessage`: `_make_message`;
- `ReadHeader`: the header read of `_handle_client`, where an unknown type
  code raises and closes the connection, and so does a length above
  10 MiB;
- `ParseRegister`: `_handle_register`'s parser, with its offset
  arithmetic;
- `PeerEntry`, `NotifyPayload`, `RelayPayload`, `ConnectDescriptor`,
  `DisconnectPayload`: the payloads the server builds.

`MCCodec.tla` has one variable, `case`. It holds one input from a bounded
domain, and each invariant checks one kind of input. The operators are
checked against a reference written from the layouts of spec section 4.4,
in which every length prefix counts UTF-8 bytes.

`MCRelayServer.tla` instantiates the module with model values. Its symmetry
set permutes connections, peer ids and session codes, and is used only by the safety
runs.

### Runs

| Run | cfg | Expect | What it shows |
|---|---|---|---|
| safety | `MCRelayServer.cfg` | pass | `TypeOK`, `RegistryConsistent` (spec inv. 1 and 4), `IntroductionsScoped` and `RegistryRefined` hold. The frames addressed through a peer's record (join notices, CONNECT, DISCONNECT) reach only connections registered in the subject's session, also when a notification runs after other handlers changed the registry. A frame counts as scoped when the connection it is written to holds a record in the subject's session. |
| flow | `RelayFlow.cfg` | pass | Clients keep reading. `StalePeerEvicted`: a stale record is eventually evicted or refreshed, even though drains inside the lock can wait. `AccountingBound` (spec section 8): the live records' `relayed_bytes` never add up to more than `total_bytes_relayed`. This holds through drain failures, and through evictions and re-registrations between the two accounting steps. `FlowTypeOK`. |
| hol | `RelayFlow_hol.cfg` | violation | `StalePeerEvicted` fails once one client stops reading. The join notice or DISCONNECT drained inside the lock (line 523; the DISCONNECT fan-out drains the same way at 553) waits forever while holding the lock, so the janitor never runs again. Spec sections 4.3 and 9 say notifications go out after the lock is released, to avoid exactly this. In the trace a single connection registers a second id in its own session, and the notice goes to its own socket. |
| empty_session | `..._empty_session.cfg` | violation | `NoEmptySession`: re-registering under another session leaves an empty set (line 263). |
| scope | `..._scope.cfg` | violation | `SessionScoped` adds the replies and PUNCH_SYNC to the frames that must be scoped. It has two shortest violations, both 7 states long. In the first, a connection whose id was re-registered on another connection sends CONNECT and receives the id's endpoints in a CONNECT_ACK (line 158). Its PEER_LIST would likewise list the session the id moved to. In the second, PUNCH_REQUEST, which has no session check (line 436), exchanges endpoints across sessions. TLC reports one of the two. The first stays when PUNCH_REQUEST is taken out of the spec. |
| relay | `..._relay.cfg` | violation | `RelayScoped`: an evicted, still-open connection relays DATA across sessions, because the session check is skipped for an unregistered sender (line 336). |
| orphan | `..._orphan.cfg` | violation | `SendHandleOpen`: after a malformed REGISTER the handler forgets its id, so a record stays behind a closed connection (line 154). The same happens after a REGISTER of the empty id (`EmptyId = p2`, line 225), so ids are not symmetric in this run. |
| close | `..._close.cfg` | violation | `CloseRemovesOwnRecord`: an old connection's close removes the registration that displaced it (line 168). |
| evict | `..._evict.cfg` | violation | `EvictOnlyStale`: the janitor evicts a fresh re-registration using the stale list it collected before (line 578). |
| codec | `MCCodec.cfg` | pass | `FrameCodec`: frames round-trip, a 10 MiB length is read and 10 MiB + 1 closes. `RegisterLayoutParsed`: the REGISTER parser decodes every spec-layout payload, so the off-by-one spec section 9 describes is not there for well-formed input. `ByteCountedRoundTrip`: PEER_LIST and relayed DATA payloads decode for non-ASCII ids. |
| codec_intro | `MCCodec_intro.cfg` | violation | `IntroductionRoundTrip`: CONNECT/CONNECT_ACK descriptors and DISCONNECT payloads prefix ids and IPs with their character count, so they are misframed when the id or IP is not ASCII (lines 390-418, 548). |
| reaped | `..._reaped.cfg` | violation | `ClosedConnectionReaped`: heartbeats on a displaced connection keep a record behind a closed connection fresh forever (line 478). |

Each property of a passing run has a mutant in `PROJECT.json` that TLC must
catch:

- the handler unpacks the reply tuple in the wrong order;
- displacement does not discard the old session membership;
- CONNECT's session comparison is dropped;
- the janitor's subtraction is reversed (`StalePeerEvicted`, in the flow run);
- a relay whose drain raised still credits the sender's record, as if the
  credit stood in a `finally` clause (`AccountingBound`);
- the dispatch loses its `if current_peer_id` checks, so a connection
  without a peer id relays DATA and owes a credit to no id (`FlowTypeOK`);
- a re-registration keeps the old record's heartbeat (`RegistryRefined`);
- the header check uses `>=` (`FrameCodec`);
- the parser does not advance past the session code (`RegisterLayoutParsed`);
- PEER_LIST entries use the character count (`ByteCountedRoundTrip`).

### Bounds

- Safety: 3 connections, 2 ids and 2 sessions. Three connections are the
  fewest in which two connections share an id while a third peer observes
  notifications. Two ids allow a second REGISTER with a different id on the
  same connection. Two sessions make scoping observable. Connections, ids
  and sessions are symmetric. The view `SafetyView` leaves out `sent`: no
  guard reads it, and the action properties read only `sent'`. With it,
  the run has about 130k distinct states, and takes about 30 s including
  the refinement.
- Flow (`RelayFlow.cfg`, `RelayFlow_hol.cfg`): 2 connections, 2 ids and
  1 session, without symmetry, and `MaxRelayed = 1`. These are the fewest
  with which a lock section writes to a socket other than its own, and one
  connection can hold two ids. `HighWater = 0`: a single unread frame makes
  `drain()` wait. The transport does this when a frame is larger than its
  high-water mark (64 KiB by default), and DATA may carry 10 MiB. The view
  leaves out `sent`, which no guard reads. The flow run has about 200k
  distinct states and takes about 2 min. The hol run finds its lasso in a
  few seconds.
- Codec: the code points are U+0061, U+00E9, U+20AC and U+10348, which
  take 1, 2, 3 and 4 bytes in UTF-8. Ids and session codes have up to 2 of
  them (21 strings), and IPs up to 1. The ports are 0 and 65535, whose byte
  255 is never valid UTF-8, so a misread port shows up. The payloads are
  `<<>>`, `<<0>>` and `<<255, 1, 2>>`. The announced lengths are 0, 1,
  10 MiB, 10 MiB + 1 and 2^31 - 1. All 12 type codes are covered. That
  gives 7530 inputs. Lengths of 2^31 and above are beyond TLC's integers;
  the code treats them like 10 MiB + 1.
- Every run except orphan sets `EmptyId = NoId`: no id is empty. The
  orphan run makes `p2` the empty id.
- Each connection is accepted at most once. Repeated REGISTERs on one
  connection are unbounded: the state space is finite without counters.

### Fairness

`RelayFlow` states its fairness in two parts:

- `JanitorFair`: weak fairness of `ReleaseLock` (the event loop runs a
  task whose drains returned) and of time, and strong fairness of the
  janitor's two lock sections. Strong fairness is justified because
  `asyncio.Lock` wakes its waiters in FIFO order: a task that waits while
  the lock is released infinitely often gets it.
- `ServerFair`: `JanitorFair`, plus fairness of each handler's relay
  accounting.

The flow run adds weak fairness of every client's `Read`, so all clients
keep reading. The hol run takes `ServerFair` alone, so any client may stop
reading.

The original `RelayServer` fairness is described below.

`FairSpec` assumes weak fairness for each `Tick(p)`: wall-clock time passes
for every record. It also assumes weak fairness for `JanitorScan` and
`JanitorEvict`: `asyncio.sleep(60)` always returns, and the loop is
`while True` with every exception caught inside `_remove_peer`'s writes.
Clients get no fairness, because they may go silent.

### Interleaving assumptions

The gaps between two lock sections (register, then notify; scan, then each
eviction) are modelled as interleaving points. With an uncontended
`asyncio.Lock`, `acquire()` returns without yielding. Other tasks run in a
gap only when they were already queued on the lock. That happens while
another task drains a slow socket inside a lock section, and there is no
timeout on `drain()`. Every trace the model allows is therefore reachable
under such contention.

In `RelayFlow` a connection is lost only when its own handler leaves the
read loop (`DisconnectF`). A handler with a peer id does this only while the
lock is free. In the code, `connection_lost` also makes a drain on that
socket raise inside another task's lock section. The model leaves out these
behaviours. Such a raise only ends a wait early: a relay that fails this
way counts nothing, and no record changes.

## 3. Plan

1. **Done:** `RelayServer` (the registry, all handlers, the janitor,
   liveness), `Codec`, and the `Registry` refinement.
2. **Done:** `RelayFlow`, with socket buffers, drains inside and outside
   the lock, drain failures and relay accounting. It is checked for janitor
   progress and the accounting bound, and the head-of-line blocking is
   shown.
3. **Next:**
   - per-socket frame order, to check that a DISCONNECT never arrives
     before the PEER_LIST that introduced the peer;
   - the attribution of relayed bytes to the record of a re-registered id;
   - the unknown type code as a property of the read loop;
   - the subject of an introduction: `RegisterNotify` can announce a peer
     that was evicted or displaced between REGISTER's two lock sections.
     TLC finds this in 9 steps, but no run checks it (see the hazards).

   Each needs a run slot, and all 12 are in use.

## 4. Not modelled

- Logging, argparse and Docker. The registry model does not carry IP/port
  values; `Codec` covers the bytes.
- The PUNCH_SYNC payload: it holds a wall-clock time and ASCII IPs from the
  socket, with no id in it.
- The one-byte PEER_LIST count, which fails for 256 or more session mates.
  That takes more peers than the registry model can hold.
- `app.py`, the sample Flask API under `test_folders`: test data, outside
  the relay (spec section 1).
- `nat_type`, which no code path reads.
- The order of frames within a socket: `RelayFlow` counts the unread
  frames, but does not keep them in a sequence.
- `total_connections`, `total_introductions` and `active_sessions`. They
  are write-only counters, or a copy of `len(sessions)`, and no code path
  reads them.
- The eviction of a peer whose connection is left open (line 578). The
  earlier invariant `NoZombieHandler` made every handler with a peer id own
  a record. It was dropped because spec section 9 itself lets an evicted
  handler run on until it sees the closed socket. The harm that matters,
  relaying across sessions, is the `relay` run.
