# Verification of the freenet-core node

TLA+ models of the parts of `crates/core` where correctness depends on the order
of steps of several actors, TLC runs that check them on small instances, and
TLAPS proofs of what matters most for every value of the constants.
Paths below are relative to `crates/core/src/` unless they start with `docs/`.

Tools: `tlc -config X.cfg M` for a run, `tlapm M.tla` for a proof module.
`PROJECT.json` lists the runs, the lines of code behind every definition, the
mutants each property is known to catch, the hazards and the findings.

## 1. The system and its parts

A Freenet node is one process on Tokio. Peers talk over an encrypted, reliable
transport on UDP; operations (CONNECT, GET, PUT, UPDATE, SUBSCRIBE) are routed
over a ring of peers; contracts are WASM modules whose state is cached, merged
and broadcast; clients talk to the node over a WebSocket.

| Component | State | Operations | Talks to | What is hard | Correct means |
|---|---|---|---|---|---|
| Sent packet tracker (`transport/sent_packet_tracker.rs`) | pending packets, owner, retransmit count, Karn mark, probe mark, resend queue, RTO and backoff | register, refresh, ACK, abort of a stream, resend / probe / abandon | connection task and stream tasks, under one mutex | six structures describe one packet and have three exit paths | structures in lockstep; nothing tracked is forgotten; resent packets give no RTT sample |
| Congestion control (`transport/fixed_rate`, `ledbat`, `bbr`) | flight size, loss-pause window | on_send, on_ack, on_timeout, release | same tasks, through atomics | a release is a later step than the removal that justifies it | flight size = bytes really in flight; it drains |
| Outbound streams (`transport/peer_connection/outbound_stream.rs`) | fragment in hand, window wait | send, pipe, abort | tracker, congestion control, token bucket | failure in the middle of a send | aborted streams hold nothing |
| Received packet tracker (`transport/received_packet_tracker.rs`) | ids seen, receipts to send | report, take receipts, expire | recv loop | duplicates at the boundary of the window | exact duplicate window, bounded receipts |
| Connection task (`transport/peer_connection.rs`) | keep-alive, ACK timer, inbound streams | recv loop, control sends | everything above | its `recv()` future is dropped at any await by the listener's select | acknowledged implies delivered |
| Connection handler and handshake (`transport/connection_handler.rs`) | sockets by remote address, ongoing NAT traversals and gateway handshakes | intro packet, symmetric-key exchange, retry, rate limiting | UDP socket, listener | both sides dial at once; retransmitted intro | at most one connection per remote; no half-open entry stays |
| Stream reassembly (`transport/peer_connection/streaming*.rs`) | fragment slots, contiguous frontier, wakers | insert, read, cancel | connection task, operations | lock-free slots, lost wake-ups | every byte once and in order; reader is woken |
| Token bucket (`transport/token_bucket.rs`) | tokens (may be negative), fractional refill | reserve, refill, rate change | stream tasks | concurrent reservations | long-run rate is respected; nobody starves |
| Orphan stream registry (`operations/orphan_streams.rs`) | orphans, waiters, claims | register, claim or wait, GC | transport and operations | three maps, each locked alone | one owner per stream handle |
| Listener and bridge (`node/network_bridge/p2p_protoc.rs`, `handshake.rs`) | connection table, per-peer channels | dispatch, connect, drop, prune | transport, operations, ring | table entries replaced under a running task | no message to a stale connection |
| Broadcast queue (`node/network_bridge/broadcast_queue.rs`) | pending broadcasts per contract and peer | enqueue, coalesce, drain | UPDATE, bridge | coalescing under load | newest state reaches each subscriber |
| Request router (`node/request_router.rs`) | resources with waiting clients | route, complete, time out | client sessions, operations | a client joins while the operation completes | every client gets one answer |
| Operation state (`node.rs`, `node/op_state_manager.rs`) | waiters of operations (`pending_op_results`), transactions by peer (`live_tx_tracker`) | install, release, wake, sweep | everything | a late reply or a lost peer races the timeout | a waiter is woken or released, never left |
| Operations (`operations/*`) | per-transaction task state | retry over candidates, relay, subscribe | ring, contract handler | lost replies, loops, retries of what was done | requests end; the subscription tree has no cycle |
| Connection manager (`ring/connection_manager.rs`) | connections, pending reservations, gateways | reserve, promote, prune, admit | CONNECT, listener | a reservation outlives its attempt | limits hold; reservations are released |
| Hosting and interest (`ring/hosting*`, `ring/interest.rs`) | leases, LRU cache with byte budget, peers' interests | subscribe, renew, evict | UPDATE, GET | a lease expires while it is renewed | nothing in use is evicted |
| Contract queue and handler (`contract/*`) | per-contract queues, executors | enqueue, execute, notify | WASM runtime, storage | bounded queue under load | FIFO per contract, fair across contracts |
| Auto-update and rollback (`bin/freenet.rs`, `bin/commands/update.rs`, `rollback.rs`) | installed and known-good binary, probation marker, pin of a bad release, failure counts, systemd's start window | exit for an update, install, arm, count a crash, roll back | systemd, the release server | the process or the machine dies between any two file operations | a crash loop ends in the known-good binary, which stays; the loop of updates ends |
| Clients (`client_events/*`, `server/*`) | sessions, subscriptions, rate limits | request, result delivery | request router, operations | disconnect during a request | results reach the right client |

Outside the models: telemetry, configuration, packaging, the HTTP pages, the
desktop, Android and developer tools, the test harness; the WASM engine, the
database and the cryptography are external.

## 2. Plan

Order: what every other part relies on comes first.

1. **Transport core** (done): `SentPacketTracker`, `OutboundFlight` (composes the
   tracker with the tasks that use it), `ReceivedPacketTracker`, `ReliableLink`
   (composes both peers and the network) against the abstract
   `MessageDelivery`; `OrphanStreams`, where the transport meets the operations;
   `StreamReassembly`, the receiving end of streams.
2. **Queues and routers of the node** (done): the contract queue (`FairQueue`);
   client requests, results, sessions and the shutdown drain (`ClientResults`).
   Left: the deferral of events of the contract loop, the broadcast queue.
3. **Connections**: the bookkeeping of the ring (`ConnectionManager`, done).
   Left: the handshake state machines of `connection_handler.rs` with both peers
   dialling, under the abstract specification "at most one live connection per
   pair"; the acquisition of connections by CONNECT.
4. **Operations**: the PUT of a local client with the event loop that carries it
   (`PutOrigin`, done). Left: relays on other nodes, the GET, SUBSCRIBE and
   UPDATE drivers, which share the retry loop modelled there, the subscription
   tree and its renewal, hosting.
5. **Updates** (done): `UpdateRollback`.
6. **Proofs** (done): every safety invariant and action property of the runs, the
   link's refinement of `MessageDelivery`, and that the sending half implements
   the tracker. Left: what the provers cannot do, which is liveness.

Runs stay small and few: one passing run per component, which fires all its
actions and checks safety and liveness together, and one for each of the
disagreements between the code and its documentation that matter most.

## 3. What is modelled

Common conventions. A HashMap is a total function with a value for "no entry",
so that the agreement of two maps is a property and not an encoding. Clocks are
relative: an age counts up with `Tick` and stops one past the last value that
any comparison tells apart. A step is one critical section, one atomic update
or one await; what the code does without releasing a lock or awaiting is one
step. An operator with a suffix (`Requeued_Popped`) is a mutant: a plausible
bug, never part of a specification.

### SentPacketTracker

`pending_receipts`, `packet_streams`, `retransmitted_packets`,
`tlp_sent_packets`, `retransmit_counts`, `resend_queue`, `rto_backoff`, `srtt`
and `rto` are the fields of the struct; `age` is the time since an entry's
`sent_time`. Actions are its methods: `report_sent_packet` (also all its public
wrappers), `refresh_sent_packet`, `drop_stream`, `report_received_receipts`, and
`get_resend` split by outcome (`_tlp`, `_rto`, `_abandon`, `_wait`). The queue
may hold stale ids, as in the code; `IsFront` and `FromFront` are the loop that
discards them. RTT smoothing is floating point: the first sample is computed,
later ones are any value between the old estimate and the new samples, which
contains what the code computes. Payload bytes, loss statistics and delivery
tokens decide nothing here and are left out.

### OutboundFlight

The tracker with everybody who uses it: `main` is the program counter of the
connection task (receipts, resend branch, control sends) with the packet in its
hands, `task`, `cur` and `dropped` those of each stream task, `flightsize` and
`loss_pause_cwnd` the atomics of `FixedRateController`. In the code the tracker
is unlocked before the controller is told (`peer_connection.rs` 1069-1096,
1358-1399; `outbound_stream.rs` 46-78), so removal and release are two steps
here. `ResendArm` is the arm of the `select!` and may fire whenever the loop is
there; its loop counts in `resend_count` and leaves after
`MAX_RESENDS_PER_ITERATION` packets, or when none is due. `ResendCancelled` and `ControlSendFailed` also stand for the drop of
`recv()` by the listener's select (`p2p_protoc.rs` 3255-3305).
`pipe_stream` follows `send_stream` in everything modelled; where they differ
(the upstream fails or stalls) the step is `StreamGivesUp`. Pacing by the token
bucket is a wait between `CwndAdmitted` and `FragmentOnSend`.

### ReceivedPacketTracker, ReliableLink, MessageDelivery

The receiving tracker is exact, with `packet_id_time` as a sequence of ages.
`ReliableLink` puts it into the recv loop (`rx` is its program counter and
locals) and adds a sending peer reduced to what decides delivery and a network
in which sent datagrams and receipts may arrive at any time, repeatedly, or
never. The match on `(report_result, should_send_receipts)` keeps the order of
its arms, and `repeats` counts the copies of a known packet that were handed up all
the same. A message that does not fit together with its receipts goes through
`SendSplit`: two datagrams with one id, the second of which overwrites the
tracked payload. `MessageDelivery` is the abstract service; the refinement
mapping takes a message as delivered once the recv loop is past its last await
before `process_inbound`.

### OrphanStreams

One step per operation on one of the three concurrent maps or on the oneshot
channel. `reg` and `claim` are the program counters of the calls of
`register_orphan` and `claim_or_wait`; a retry is another claimer. Timeouts and
expiry may strike whenever the code waits. `cancelled`, `lost` and `cleared`
are history.

### StreamReassembly

The buffer is its atomics: `slots` and `contiguous_fragments`, with one step per
load, store or compare-and-swap of `insert` and `advance_frontier` (`push` holds
the concurrent calls; the connection task is the only caller today, and the code
promises more). `asm` is `StreamHandle::assemble`, `pipe` is `poll_next`
of a fork inside `pipe_stream`, with the listener of the `Event` as a value of
its own, because a notification between a look and a `listen()` is lost.
`inbound` is the older `InboundStream`. Whether a stream has the overflow
fragment that embedded metadata costs is decided at the start (`sent`).
Fragments arrive in any order, and a bounded number of them again.

### FairQueue

Queues by tier and contract, the rotation of each tier, the counts admission
looks at, the streak of client events, and the drain / serve / wait loop of
`contract_handling` with its retry after an eviction. `lowerWait` and `turns`
are history.

### ClientResults

One step per shard of a map or per await: `process_open_request` up to the
spawn, `route_request` and `complete_operation` of the request router, the
admission gate, the end of an operation (`send_client_result`, `completed`), the
result router, the session actor with its bounded cache of results, and the
shutdown with its drain. An operation just runs and ends. `heard`, `answers`,
`lost`, `resulted` and `missed` are history.

### ConnectionManager

The maps are `pending` (reservations), `location_for_peer`,
`connections_by_location`, `transients` with the counter beside them; the tasks
that take their locks one after the other are the CONNECT tasks
(`should_accept`), the event loop (`loop` is the handler it is inside), one timer
per transient connection, the maintenance loop with its two-phase sweep, and the
join procedure. Readiness, health and the topology manager are left out.

### UpdateRollback

The files of the state directory, the live binary and its backup, the service as
systemd sees it (`node`, `burst`) and the `freenet update` process (`upd`), one
step per file operation. `PowerLoss`, `Killed`, `BlobLost`, `NodeFails`, forced
updates and failing downloads and renames are the faults, `MaxUpsets` of them in
all. Marker, pin, count of failed installs, snapshot and restored binary are written
to a temporary file, synced and renamed: whole or not at all. What `replace_binary`
moves in is not synced: `unsynced` says that it may still come back damaged (`Torn`)
after a power loss, until `WrittenBack`, which is the kernel's; its backup may have
been such a binary itself. The `update_failures` file is written in place, and a
count that does not parse reads as the maximum. Renames are assumed to reach the disk
in the order they were made. A binary is its version, the checksum of a blob the version in it. One
updater runs at a time (only macOS enforces that) and releases only go up.

### PutOrigin

A client's PUT on its own node. The driver (`att`, `pc`, `got`, `infra`,
`retries`) sends each attempt as a transaction of its own through `exec`, the
op_execution channel, with a reply channel; the event loop installs the sender in
`pending` (`pending_op_results`) and starts the relay task of the attempt
(`relay`), which stores, forwards with `send_fire_and_forget` or answers with
`send_local_loopback`. The loop records in `live` (`live_tx_tracker`) which peer a
transaction depends on. Answers travel through tasks of their own (`tasks`);
`notes` is the notification channel with the releases and the wake-ups.
Channels are full, sends time out, peers are lost and never answer. Reply
channels are named by who made them, so that a callback in the place of another
is visible; `astray` is history: attempts for which that happened or whose
release gave up. The loop polls its channels by priority, but one after the
other, so the model lets it take any item that is there. Not in it: the
summary-first probe, relays on other nodes, and what storing a contract does.

## 4. What the runs check

Passing runs:

| Run | Instance | Shows |
|---|---|---|
| `outbound_flight` | 2 packets of two sizes, 2 streams, 1 retransmit, RTO 1..2 | In every interleaving of the tasks the tracker's maps stay in lockstep, resent packets give no RTT sample, every tracked packet is in the resend queue, a packet has one holder, flight size is exactly the bytes held, an aborted stream holds nothing, and, provided the resend arm of the recv loop fires again and again, flight size drains to the bytes of failed control sends, whatever the network loses. |
| `link` | 2 messages, one of which does not fit with its receipts; window 1, 2 pending receipts, 1 retransmit | The duplicate window is exact; copies of a packet within it are handed up only when receipts are overdue, at most once per confirmation timeout; receipts are accounted for; and for messages that fit one packet the link implements `MessageDelivery`. |
| `orphan_streams` | 2 streams, 2 handles, 3 claimers, claims cleared above 1 | A handle that was registered is in exactly one place; claims are exclusive until the GC clears them. |
| `fair_queue` | 2 contracts, 3 events per contract and tier, 6 in total with 2 reserved, floor 2, batch 2 | Whatever arrives: counts and rotation match the queues, relay and background never take the client reserve, lower work is passed over at most `RELAY_STARVATION_FLOOR` times in a row, no waiting contract is overtaken twice by another, and queued client and relay work is eventually served. |
| `client_results` | 2 requests of 2 clients about 1 resource, channels of 1, cache of 2 | Once the drain has seen no operation none runs; a completed operation leaves no trace in the router; a request is answered at most once; the session's maps agree; and a request the session was told of is answered, unless its result was dropped by a full channel or left the bounded cache before the registration came (`missed`), the operation it joined was never started (`NeverStarted`), or its client has another request on the same operation (`Twin`). |
| `streams` | 2 concurrent inserts, 2 fragments and an overflow, 1 repeat | The frontier neither passes a gap nor stops before one that is filled; `assemble` returns whole streams only and never times out on one; a pipe loses nothing but the overflow fragment; a message is complete when its fragments are; a fork outlives the connection it came from; readers end. |
| `connections` | 2 addresses, 1 CONNECT task, cap 1 and slack 1 | The ring never exceeds the cap and the slack, and a location without a connection does not stay. |
| `update_rollback` | 4 versions, thresholds 2, burst 4, 2 faults | What is restored is the whole known-good binary and its label, although a power loss may damage what `replace_binary` moved in; a version that was rolled back is not installed again by itself; the rollback comes before systemd gives up; the loop of exits for updates ends. |
| `put_origin` | 1 peer, 1 retry, channels of 1 | The driver sees a bare close only after a slipped callback; slots and tracker entries are gone when the PUT is over, but for slips and releases that timed out; a driver whose peer is pruned is told; every PUT ends and leaves no slot. |

Runs that end in a counterexample, each with a finding that quotes what the
code says of itself:

| Run | Disagreement |
|---|---|
| `link_split` | Two datagrams share one packet id, so a message can be acknowledged and never delivered. |
| `orphan_handoff` | Registration and claim look in one map and write to the other; interleaved, the stream is stored and its claimer waits for it until the timeout. |
| `connection_ghost` | A sweep between the two insertions of `add_connection` drops the location: the connection is then not pruned when it closes, and its slot stays taken. |

Seen in the models or read off the code, and not the subject of a run:

- Transport. A control packet whose send fails stays in flight size for ever
  (`peer_connection.rs` 1905; `failed_control` in `OutboundFlight`). The ACK of a
  fragment can be processed before the fragment is registered
  (`outbound_stream.rs` 324): it is then retransmitted to the limit and abandoned
  although it arrived. A duplicate that arrives when receipts are overdue is
  processed again (`peer_connection.rs` 1098, where the arm `(_, true)` comes
  before `AlreadyReceived`); `RepeatsAreRare` bounds how often. The resend arm takes
  its sleep when it is polled (1334); another arm that wins drops it, and the next
  iteration starts a new one (803-805), so inbound packets closer together than
  `resend_yield` put off every retransmission. A duplicate is not acknowledged
  again, although `ReportResult::AlreadyReceived` is documented so
  (`received_packet_tracker.rs` 117), and receipts whose carrier fails are not
  retried, although the log says so (`peer_connection.rs` 1105, 1483):
  `ReceiptIsAccountedFor` counts them in `lost`.
- Streams. `poll_next` takes a stream for finished once the base fragments are
  there (`streaming.rs` 539); when the overflow fragment is still on its way the
  pipe forwards a truncated stream, where `assemble` waits for it (384).
  `EndedMissesOnlyOverflow` says that nothing else can be missing.
  A fragment that `InboundStream` gets again after appending it is put in front
  of those that wait and blocks them (`stale` in `StreamReassembly`).
- Orphan streams. `register_orphan` takes a waiter out and then sends to it; if
  the claimer times out in between the handle is dropped (`lost`) and a retry
  cannot find the stream.
- Contract queue. Background work waits for ever behind a stream of relay events,
  since the starvation floor gives its turn to relay work first. `try_push`
  reports the global capacity before it looks at the contract's own queue, so
  background events can be evicted for an event that is refused anyway.
- Clients. Two requests about one resource may both start an operation when the
  first one's route is completed between the look-up and the spawn, and a request
  that joined an operation whose own request failed to register, and so never
  started it, is answered by nobody (`NeverStarted` in `HeardIsAnswered`; a refusal
  by the shutdown gate is answered, through `report_op_init_error`). The cache of
  results is said to exceed its limit at times (`session_actor.rs` 29, 62-63, 509);
  it never does, as both insertions evict first when it is full (310-313, 390-393):
  `ClientResultsType` proves the bound.
- Connections. The counter of transient connections may drift from the map, as
  removal and subtraction are apart; replacing a transient entry keeps the ring
  connection beside it; `update_peer_identity` (not modelled) inserts without the
  cap check.
- Updates. The start-up check ignores the lock-out after failed installs; the
  updater that dies between the two renames of `replace_binary` leaves no binary
  and nothing that repairs it (`update.rs` 2369), and neither does anything repair
  the damaged binary that a power loss can leave of one that was moved in without a
  sync (2356, 2374): it runs neither as `ExecStart` nor as `ExecStopPost`.
- PUT. `send_fire_and_forget` keeps its receiver until the send has returned,
  contrary to its comment ("`_response_receiver` is dropped here", `op_ctx.rs`
  165) and to `dispatch.rs` 278 ("the callback is closed (no insert above)"): the
  event loop may install the relay's callback over the driver's, which then sees
  a bare close and retries on the same peer (`BareCloseNeedsSlip` says that
  nothing else leads there in a node that runs; when the event loop shuts down it
  closes every callback, `p2p_protoc.rs` 2104-2117 and `op_ctx.rs` 489-497, which is
  outside the model). Such a late callback can also leave an entry in
  `live_tx_tracker` until the peer disconnects. A forward to a peer that is
  neither connected nor known completes the transaction in the tracker and
  leaves the driver to its deadline (`p2p_protoc.rs` 1657). A PUT that is stored
  here and forwarded to a peer that never answers is reported as failed.

### Bounds

`outbound_flight`: two packets are enough for one to overtake or replace another, and two sizes
make the release of the wrong packet visible; safety of this part is proved for
every number, so the run can stay small. One retransmit separates first send,
resend and abandonment; two resends to a turn of the resend arm end a turn both ways.
Time constants are the smallest that keep probe, RTO and
cap apart. With one unit of retention a packet is seen inside, at and past the
boundary of the window. Three claimers are a holder, a rival and a retry. Two
contracts and four unreserved slots fill a tier, the soft cap and the hard cap in
every combination.

`streams`: two concurrent inserts, two base fragments and the overflow one, one
fragment again: both orders of filling a gap, and a gap in front of what waits.
`client_results`: two requests of two clients about one resource are enough for
one to join, overtake or outlive the other; channels of capacity 1 drop results.
`connections`: a near and a far address on one side, one of them a gateway and a
stranger, one slot and a slack of one, so that only the lattice rule admits
the second; the branch of `should_accept` for a node below its minimum is not
reached with both places taken, and one CONNECT task runs at a time.
`update_rollback`: four versions of which one crashes at once and one does not
verify, thresholds of 2 where the code has 3 and a burst of 4 where it has 5, so
that two faults suffice to reach the lock-out after failed installs, the gate and
the limit. The count of failed
installs stops at its threshold, where nothing tells larger values apart.
`put_origin`: one peer and one retry, of a peer or of a dropped callback; a second
retry repeats the first under a new transaction. Channels of capacity 1 make
every send that can find its channel full do so; a queue of one also makes any
queued note the wake-up of the pruned driver, which the proof tells apart for every
capacity.

`CHECK_DEADLOCK FALSE` is used where the system may stop: every call has returned
(`OrphanStreams`, `StreamReassembly`), all requests are answered and the node is
shut down (`ClientResults`), the PUT is over (`PutOrigin`), no attempt is under
way (`ConnectionManager`), or the loop ended on a fatal error (`FairQueue`). No
run uses symmetry.

### Fairness

Weak fairness of the steps of a task means that Tokio runs every ready task and
that an await on a local channel or socket completes; nothing is ever assumed of
the network, of peers, of clients or of an operator.

- `outbound_flight` (`FlightDrains`): the connection task's pending step, each
  stream task, and time. Nothing is assumed of the resend arm, which inbound
  packets can starve (see above); the property is conditional on its firing again
  and again (`[]<>(main.pc = "resend")`).
- `fair_queue` (`ForegroundIsServed`): the contract loop's own steps, no matter
  what arrives. A batch takes at most `MAX_DRAIN_BATCH` events from the channel
  before one queued event is served. A loop that stopped on an error owes nothing.
- `client_results` (`HeardIsAnswered`): each request's future, each operation,
  the result router and the session actor.
- `streams` (`ReadersFinish`): the inserts and the readers, and the inactivity
  timers, which run whenever a reader waits.
- `connections` (`PhantomsAreSwept`): the CONNECT tasks, the event loop, the
  maintenance loop and the ageing of reservations.
- `update_rollback` (`RollbackBeatsLimiter`, `ExitLoopEnds`): systemd restarts the
  unit, a running updater goes on, and a wedged version does crash.
- `put_origin` (`PutEndsClean`): the driver, which has a deadline on every wait,
  the event loop, the reply and relay tasks, and the 60 s sweep.

## 5. What is proved

Theorems of the specifications, by TLAPS. Every safety invariant, every
action property and the refinement that the passing runs check is stated by one.
`OutboundFlightProofs`, on the tracker and the tasks that use it: for any set of
packets and streams, any sizes and any timer constants that satisfy
`TrackerAssumption` and `FlightAssumption` (the special values differ; the time
constants are ordered; the packets of one connection's life are finitely many,
so that their bytes can be added up).

- `TrackerSafety`: the invariant `TrackerInv` = types, `MapsInLockstep`,
  `ResendsAreExcludedFromRtt`. It is inductive as it stands: every exit path
  goes through `Forget`, which `ForgetKeepsMaps` treats once.
- `FlightTypeCorrect`, `FlightSafety`, `AbortSafety`: the invariant `FlightInv`
  = `TrackerInv`, types (`FlightTypeOK`, with what each program counter says about the packet in
  hand), `SingleHolder`, `FlightConservation`, `AbortedStreamHoldsNothing`.
  Conservation is not inductive by itself: a release subtracts a size with
  saturation, and is exact only if the packet is accounted for once; that is
  `SingleHolder`, which in turn needs the program counters of the type
  invariant. Sums are cardinalities of sets of bytes, so that adding and
  removing packets are facts about finite sets (`BytesAdd`, `BytesRemove`).
  There is one lemma per action, resting on three about flight size
  (`KeepConserves`, `SendConserves`, `ReleaseConserves`). `HolderIsUnique`,
  `TrackerInUse` and `KarnIsKept` state its other parts by themselves.
- `QueueCorrect`: `PendingIsQueued`, the only way a pending packet is ever looked
  at again. The strengthening is that the queue holds packets and nothing else.
  `drop_stream` keeps part of the queue; what `VecDeque::retain` keeps is defined
  by rank (`Retained`), and `RetainedFacts` shows by a least counterexample
  (`LeastOf`, from the finite sets of the library) that nothing kept is missing:
  the induction theorems over sequences cannot be instantiated here.
- `FlightImplementsTracker`: every step of the tasks is a step or a stutter of the
  tracker alone, so what holds of the tracker holds in use; `QueueInUse` takes
  `PendingIsQueued` over.

`FairQueueProofs`, for any finite set of contracts and any capacities, floor and
batch that satisfy `QueueConstants` (the per-contract cap, the reserve and the
batch are positive, the reserve is below the total; the code's constants do).

- `QueueSafety`: `TurnsAreExact`, `CountsAreExact`, `ReserveIsKept`,
  `StarvationIsBounded` and `NoKeyOvertakesTwice`, from the invariant
  `QueueInv`. None but the first is inductive alone. The counts are stated as
  cardinalities of sets of slots, so that one push or pop adds or removes one
  element (`PushKeeps`, `PopKeeps`). No key overtakes twice because of where it
  stands: `TurnOrder` says that a key that had a turn while another waited is
  behind it in the rotation, which needs each key to be there once
  (`RotationOrder`, `RegistrationOrder`). The starvation bound needs
  `StreakCovers`: the streak the code keeps is never behind the pops that
  really passed waiting work by. The floor looks at `queued` where the bound is
  about the queues themselves; `CountMeansItem` joins the two. Corollaries
  state each conjunct by itself.

`StreamReassemblyProofs`, for any finite set of concurrent inserts and any length:

- `FrontierCorrect` from `BufferInv`: the frontier is exact if every insert that
  saw an older frontier is still going to look again (`CallsAreBehind`).
- `AssembleCorrect` and `PipeCorrect` from `ReaderInv`, which types the two
  readers; a reader's look at the buffer is stable because slots only fill.
- `ForkCorrect`, an action property: only a pipe whose own handle was dropped
  ends as cancelled.
- `InboundCorrect` from `InboundInv`: `InboundStream`, which appends a fragment
  to the payload as soon as it is the next one and keeps the rest, keeps none that it
  could append (`NothingIsHeldBack`), so that a stream of which every fragment came
  is complete, unless one was pushed again after it had been appended.

`ConnectionManagerProofs`: `RingCeiling`, for any addresses, cap, slack and number
of CONNECT tasks. Every insertion looks at the cap under the lock it inserts
under; the finiteness of the set of connections is the strengthening.

`UpdateRollbackProofs`, for any releases, thresholds and number of faults:

- `UpdateTypeCorrect`: marker, pin, counts and updater name whole releases only,
  although live binary, backup and known-good file may be damaged.
- `RollbackCorrect`, like it from `RollbackInv`: the label of the
  known-good blob agrees with the marker's (`LabelsAgree`), the version that runs
  is the installed one unless an update is under way, and is whole when the new one
  is moved in (`RunsInstalled`), and an
  updater past its judgement has grounds for it (`Judges`).
- `NeverReapplied`, an action property, from `PinInv`: while it is the newest
  release, a version that was rolled back is pinned, or is the installed one because
  an operator forced it, or what a power loss left of it (`PinStands`), which needs that marker and target are
  never ahead of the newest release (`NewestFirst`, `InstallsNew`).

`ReliableLinkProofs`, for any messages, any `RETAIN_TIME` and any number of pending
receipts, over a network that loses, duplicates and reorders:

- `WindowCorrect` from `DequeOK`: the deque of `ReceivedPacketTracker` is sorted
  by age, names exactly the packets of the map, each once, and its ages are the
  real ones. Without the order, expiry from the front would not find them all.
  It is about the window alone: what `recv` does with a packet so recognised is
  the next one's subject.
- `RepeatsBounded` from `RepeatsInv`: a copy is handed up only when receipts are
  overdue, and then the timer starts again, so between two copies lies a whole
  `MESSAGE_CONFIRMATION_TIMEOUT`; `Paced` counts them against the packet's age,
  which the window bounds (`IntervalsCount`, `KeepsPace`).
- `ReceiptsCorrect` from `ReceiptsStay`.
- `LinkDelivers`, the refinement: one lemma per action shows a step or a stutter of
  `MessageDelivery`. It needs that a receipt on its way belongs to a message that
  is handed up or is going to be with no await in between (`ReceiptsAreEarned`), and
  that the sender tracks what it sent and did not settle (`SenderOK`).

`OperationsProofs`, on the orphan registry and on the PUT of a client:

- `HandlesAreOwned` and `ClaimsAreExclusive` from `OrphanInv`, for any streams,
  handles and claims. The three maps are locked one at a time, so that each
  program counter must say what its task has in hand (`HandlesInOrder`); the
  sender of a waiter is in the map, in the hands of one registration, or used
  (`SendersAreUnique`); a handle is nowhere twice (`NowhereTwice`), and somewhere
  once its registration is done (`OwnedWhenDone`).
- `CloseNeedsSlip`, `SlotsGoBack` and `PrunedDriverWoken` (an action property) from
  `PutInv`, for any peers, budgets and queue contents. A channel closes with its last
  sender, so the driver's is followed from queue to map (`SenderStays`); a slot is
  held only while its release is owed (`SlotsOwed`); and a driver is woken when its
  peer is pruned because that peer is in `live_tx_tracker` as long as it has the
  request (`PeersAreTracked`), which rests on a transaction being forwarded at
  most once (`ForwardedOnce`).

`ClientResultsProofs`, for any requests, clients and resources, from `ResultsInv`:

- `DrainIsFinal` (`GateOK`): an admitted operation has its guard until it is over.
- `CompletionIsClean` (`RouterOK`): an operation is in the maps of the router from
  its routing to its completion, and `complete_operation` waits for the map entry
  that a request about to join has locked.
- `OneAnswer` (`ResultsOK`, `RegistrationsOK`, `AnswersOK`): a result exists once,
  in the channel, in the router's hands, in the inbox of the session actor or
  delivered; a registration is in the inbox, waiting or forgotten; and an answered
  request has no path left to another answer. `WaitersCorrelated` states the
  agreement of the two maps, `ClientResultsType` the types.

Only model-checked are the properties that something eventually happens:
`FlightDrains`, `ForegroundIsServed`, `ReadersFinish`, `HeardIsAnswered`,
`PhantomsAreSwept`, `RollbackBeatsLimiter`, `ExitLoopEnds`, `PutEndsClean`.
The prover has no ENABLED, and so no fairness.

## 6. What is not modelled

Decryption, encoding, keep-alive and NAT traversal; LEDBAT++ and BBR, of which
only the flight-size contract matters to the rest and which are numeric; the
routing estimators, in floating point; WASM, storage and secrets, which are
external or I/O; and, so far, everything section 2 plans for later.
`PROJECT.json` lists each part with its reason.
