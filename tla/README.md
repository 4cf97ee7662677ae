# TLA+ models of sctp-proto

TLA+ models of the SCTP association in `src/src/association/mod.rs`, of the TSN
queue in `src/src/queue/payload_queue.rs`, of the packet codec in
`src/src/packet.rs`, and the TLC runs that check them.
`PROJECT.json` maps every definition that models code to the source lines it
translates, and lists the runs, the mutants, the findings and the hazards.

## The system

An `Association` is one SCTP endpoint. It is driven from outside and never
runs on its own:

- `handle_event` feeds it inbound packets;
- `handle_timeout` fires its timers;
- `poll_transmit` collects its outbound packets;
- `send_payload_data` (through a `Stream`) queues user messages.

Two associations interact only through the packets they exchange over an
unreliable network. The network loses, duplicates and reorders packets, and
can damage them or carry datagrams no association sent. An inbound datagram
goes through three stages before any chunk handler sees it:

1. the endpoint's `PartialDecode::unmarshal` reads the common header, checks
   the CRC32c and reads the first chunk (its initiate tag or cookie);
2. `handle_event` calls `finish`, which decodes every chunk;
3. `handle_inbound` calls `check_packet` (ports, INIT rules).

A failure at any stage drops the datagram.

Its parts are:

| Part | Code | State |
|---|---|---|
| Handshake and shutdown | `handle_init`, `handle_init_ack`, `handle_cookie_echo`, `handle_cookie_ack`, `handle_shutdown*`, `shutdown`, `close` | `state`, the T1/T2 timers, verification tags |
| Data sender | `send_payload_data`, `gather_outbound*`, `pop_pending_data_chunks_to_send`, `bundle_data_chunks_into_packets`, `get_data_packets_to_retransmit` | `pending_queue`, `inflight_queue`, `my_next_tsn`, `rwnd`, `will_retransmit_fast` |
| SACK processing and congestion control | `handle_sack`, `process_selective_ack`, `on_cumulative_tsn_ack_point_advanced`, `process_fast_retransmission`, `postprocess_sack` | `cumulative_tsn_ack_point`, `cwnd`, `ssthresh`, `partial_bytes_acked`, `in_fast_recovery`, `fast_recover_exit_point` |
| Data receiver | `handle_data`, `handle_peer_last_tsn_and_acknowledgement`, `handle_chunk_start/end`, `gather_outbound_sack_packets` | `peer_last_tsn`, `payload_queue`, the streams' reassembly queues, `ack_state` |
| Timers | `on_retransmission_timeout`, `on_ack_timeout`, `on_retransmission_failure` | the T3-rtx, Ack, T1, T2 and reconfig timers |
| Payload queue | `PayloadQueue` | `chunk_map`, `sorted`, `n_bytes` |
| Partial reliability (RFC 3758) | `check_partial_reliability_status`, the C1-C3 part of `handle_sack`, A5 in `on_retransmission_timeout`, `gather_outbound_forward_tsn_packets`, `create_forward_tsn`, `handle_forward_tsn` | `use_forward_tsn`, `advanced_peer_tsn_ack_point`, `will_send_forward_tsn`, the chunks' `abandoned` flag |
| Stream reconfiguration (RFC 6525) | `send_reset_request`, `gather_outbound_data_and_reconfig_packets`, `handle_reconfig`, `reset_streams_if_any` | `reconfig_requests`, `reconfigs`, `my_next_rsn`, `will_retransmit_reconfig`, `streams` |
| Packet codec | `Packet::marshal_to`, `Packet::unmarshal`, `PartialDecode::unmarshal`, `finish`, `check_packet` | none: bytes in, packets out |

Several behaviours make this code hard to test:

- SACKs are reordered and duplicated.
- A T3-rtx expiry races a SACK already in flight.
- Fast retransmit and fast recovery start after three miss indications.
- The receive buffer fills up, and the sender then sends a zero window probe.
- TSNs are serial numbers that wrap at 2^32.
- A handler error closes the association.
- With partial reliability, a FORWARD-TSN races the DATA it skips, and a
  lost FORWARD-TSN is resent only when a later SACK or T3-rtx expiry asks
  for it again.
- A stream reset request races the DATA it must wait for, and the peer
  answers it with a mirrored request of its own.

## Modules

- **`PayloadQueue`**: the TSN queue as a set of TSNs, with the serial
  arithmetic at width `W`:
  - `SerialLt` and its relatives (`sna32*` of `util.rs`);
  - `CanPush`, `CanPop`, `LastTsnReceived`;
  - `GetGapAckBlocks`, a fold over the sorted keys with the code's unsigned
    offset test;
  - `PopInOrder`, the `peer_last_tsn` advance loop.
- **`PacketCodec`**: `packet.rs` at byte level. Datagrams are sequences of
  bytes; packets are records of ports, tag and chunks `[typ, flags, value]`.
  - `Marshal` is `marshal_to`: header, each chunk padded to 4, and the
    CRC32c written little-endian into bytes 8..11 (`Seal`).
  - `Crc32c` is the Castagnoli CRC computed bit-exactly, with the 32-bit
    register kept as two 16-bit halves (TLC's integers are 32-bit signed).
  - `UnmarshalChunks` is the chunk loop that `Packet::unmarshal` and
    `finish` share: stop at the exact end, fail on a partial header or an
    unknown type (`KnownChunkTypes`, which lacks HEARTBEAT-ACK), skip the
    value and its padding.
  - `PartialDecodeUnmarshal` returns `"Panic"` where the code's `get_u32`
    would read past the buffer.
  - `CheckPacket` and `ReceivePath`, the three stages above.

  The per-chunk codecs are not in this source tree. `ChunkHeaderUnmarshal`
  and `ChunkUnmarshal` model them from the wire format: the length must be
  at least 4 and fit, and the value must reach the type's minimum.
- **`ReceivePath`** composes the codec with the payload queue. A peer
  marshals packets of one or two DATA chunks (`Send`). The link may change
  one byte (`Corrupt`) or cut the last one (`Truncate`), and a third party
  may send forged datagrams with a correct checksum (`Forge`). `Deliver`
  runs `ReceivePath`, then `handle_data` for each DATA chunk (push when
  `can_push` allows) and the `peer_last_tsn` pop loop. The link holds one
  datagram at a time, so reordering is the peer's choice of TSNs.
  `ReceivePathMC` defines the forged datagrams with a first chunk;
  `ForgeHeaderOnly` forges the 12-byte datagram with no chunk at all.
- **`PartiallyReliableChannel`**: the abstract specification of what an
  ordered stream promises its users. The sender submits messages and may
  abandon any of them. The receiver reads messages in submission order,
  each at most once, and passes over a message only if it was abandoned.
  Every message that is not abandoned is eventually read
  (`ReadUnlessAbandoned`). With nothing abandoned, this is a reliable
  ordered channel.
- **`DataTransfer`**: endpoint A sends and endpoint B receives, over an
  established association, with or without Forward TSN. It EXTENDS
  `PayloadQueue` and INSTANCEs `PartiallyReliableChannel` WITH `submitted`,
  `delivered` and `abandoned <- abandonedSsns`. `abandonedSsns` is a
  history variable: the messages A has ever marked abandoned. The
  refinement is checked as `ChannelSafe` (the safe part) and `ChannelLive`
  (with liveness).

- **`Association`**: the life cycle of a client and a server association
  over a network that loses and duplicates packets. It covers:
  - the handshake;
  - DATA and SACK, reduced to sets of message numbers;
  - graceful shutdown and `close()`;
  - the T1-init, T1-cookie, T2-shutdown and T3-rtx timers.

  Each endpoint is a record `ep[e]` of the `Association` fields the life
  cycle reads and writes. A packet carries one chunk.
- **`StreamReset`**: outgoing stream reset (RFC 6525) between two
  established associations that both have the streams `Streams` open. The
  network loses, duplicates and reorders packets. Each endpoint is a record
  `ep[e]` holding `streams`, `pending_queue`, `my_next_tsn`, `my_next_rsn`,
  `peer_last_tsn`, `payload_queue`, `reconfigs`, `reconfig_requests`, the
  Reconfig timer and `will_retransmit_reconfig`. The history variables
  `written`, `resetAt` and `sentData` record what each application wrote,
  when it reset a stream, and which TSN carried each message.

### How `Association` corresponds to the code

| Action | Code |
|---|---|
| `Init` | `Association::new`: the client stores and sends INIT and arms T1-init; the server starts Closed |
| `Receive(e, p)` | `handle_event`: `handle_chunk` dispatches to `HandleInit`, `HandleInitAck`, `HandleCookieEcho`, `HandleCookieAck`, `HandleData`, `HandleSack` (with `postprocess_sack`), `HandleShutdown`, `HandleShutdownAck` and `HandleShutdownComplete`. An error `close()`s the association. One disjunct lets the network keep a duplicate |
| `Transmit(e)` | `poll_transmit`/`gather_outbound` by state. In Established: retransmissions, new DATA (arming T3-rtx), SACK. In the shutdown states: retransmissions, SACK and `gather_outbound_shutdown_packets` (SHUTDOWN or SHUTDOWN-ACK arm T2). In ShutdownAckSent: the shutdown packets only |
| `SendPayloadData`, `Shutdown`, `AppClose` | `send_payload_data`, `shutdown()` and `close()` |
| `HandleTimeout(e, t)` | `handle_timeout` for T1-init, T1-cookie and T2-shutdown. Past `MaxRetrans` expiries it calls `on_retransmission_failure` (HandshakeFailed for T1; T2 only logs). Otherwise `on_retransmission_timeout` resends INIT or COOKIE-ECHO or makes SHUTDOWN or SHUTDOWN-ACK due again |
| `HandleT3Timeout(e)` | the T3-rtx branch: mark everything in flight for retransmission |
| `Lose(p)` | the network losing a packet |

Two things about the driver come from the spec's concurrency model
(section 5):

- **Draining.** The owner drains `poll_transmit` after every call, so the
  owner's next input to an endpoint waits until `OutboundDrained`.
- **Expiries.** An RTO is long beside a round trip, so a timer expires when
  nothing is in transit or waiting to be sent (`Quiet`). An expiry racing
  packets is one of at most `MaxEarly`.
- **Faults.** Losses, duplicates and early expiries together stay below
  `MaxFaults` (`FaultBudget`).

The timer table is not in this source tree. `StartTimer`, `StopTimer` and
`Failure` follow the spec's table: `start` keeps the count of expiries,
`stop` resets it, and the limit is the table's "max tries".

### How `StreamReset` corresponds to the code

| Action or operator | Code (association/mod.rs) |
|---|---|
| `SendPayloadData(e, s)` | `send_payload_data`: one chunk into `pending_queue` |
| `SendResetRequest(e, s)` | `send_reset_request`: a chunk with empty user data marks the stream's end |
| `PopPendingDataChunksToSend(q, k)` | `pop_pending_data_chunks_to_send`: markers go to `sis_to_reset` and the loop continues; the window lets `k` DATA chunks go, then it breaks |
| `GatherOutboundDataAndReconfigPackets(e, k)` | the DATA get TSNs and go out; if there are markers, or the timer asked for it, stored requests are resent, a new request with `sender_last_tsn = my_next_tsn - 1` (`NewResetRequest`) is stored and sent, and the Reconfig timer starts |
| `ResetStreamsIfAny(s, e, p, respond)` | `reset_streams_if_any`: perform or answer InProgress; the mirrored request; the response |
| `HandlePeerLastTsnAndAcknowledgement` | the pop loop, retrying every stored request with `respond = false` after each advance (`RetryResetRequests`) |
| `HandleData` | `handle_data`: `can_push`, `get_or_create_stream`, the pop loop |
| `HandleResetRequest`, `HandleReconfigResponse` | the two branches of `handle_reconfig_param` |
| `HandleReconfigTimeout(e)` | `handle_timeout` for Timer::Reconfig: set `will_retransmit_reconfig`, or give up after `MaxReconfigRetrans` |
| `RetransmitData(e, d)` | T3-rtx: DATA the peer has not received is sent again (the SACK and T3 machinery of `DataTransfer`, abstracted) |
| `Lose(m)`, the duplicate disjunct of `Deliver` | the network |

The congestion and receive windows are abstracted to the number `k` of DATA
chunks a gather may send. A receive window that is always open, TSNs
without wrap, and RSNs compared by equality are the other abstractions.
The timer keeps `Association`'s discipline: it expires when the network is
quiet and the owner has drained `poll_transmit`, plus at most `MaxEarly`
expiries racing packets.

### How `DataTransfer` corresponds to the code

Every action is a whole handler. The helpers the handler calls are folded
into it.

| Action | Code |
|---|---|
| `SendPayload` | `send_payload_data` |
| `ATransmit` | `poll_transmit`/`gather_outbound` on A: the retransmission scan (`RetransmitScan`, with the i = 0 zero window probe), new data (`PopPendingDataChunksToSend`, `MoveToInflight`, arming T3-rtx), bundling (`BundleDataChunksIntoPackets`), the fast retransmission packet (`FastRetransmitScan`), and FORWARD-TSN (`ForwardTsnPackets`, `CreateForwardTsn`). Every send runs `CheckPartialReliabilityStatus` |
| `AHandleSack` | `handle_sack` in full: the stale-SACK drop, the pop loop, the gap ack blocks, the congestion control on a cum ack advance, the rwnd update, the miss indicators and the entry into fast recovery, RFC 3758 C1-C3 (`AdvancePeerAckPoint`), and the T3-rtx rules of `process_selective_ack` and `postprocess_sack`. A TSN that is missing where the code returns `ErrInflightQueueTsnPop` or `ErrTsnRequestNotExist` closes A, as `handle_event` does |
| `AT3Timeout` | the data branch of `on_retransmission_timeout`, with A5 (`T3AdvancePeerAckPoint`) and `MarkAllToRetransmit` |
| `BHandleData` | `handle_inbound` of a DATA packet: `handle_chunk_start`, then `handle_data` and `handle_peer_last_tsn_and_acknowledgement` per chunk, then `handle_chunk_end` |
| `BHandleForwardTsn` | `handle_forward_tsn`: an out-of-date FORWARD-TSN forces a SACK; otherwise `peer_last_tsn` moves to the new cumulative TSN, the stream's `next_ssn` passes the reported SSN if B has the stream (mod.rs 1409 skips a stream not yet created), and the ack decision follows as for DATA |
| `BAckTimeout` | `on_ack_timeout` |
| `BTransmitSack` | `gather_outbound_sack_packets` |
| `BAppRead` | the application reading the stream: the first message of the SSN-sorted reassembly queue, when its SSN is not above `next_ssn`. This is spec-modelled: the stream code is not in this source tree |
| `LoseToB`, `LoseToA`, `LoseForwardTsn` | the network losing a packet |

A duplicate is the network keeping a copy of a packet it delivers.

The data is abstracted:

- a message is one DATA chunk of one ordered stream;
- the outcome of the Forward TSN negotiation (`use_forward_tsn`) is chosen
  in the initial state from `ForwardTsnNegotiated`. With it, the stream's
  reliability type is Rexmit with value `RexmitValue`;
- whether B's stream exists (`streamExists`) starts from
  `StreamOpenedFirst`: B's application opened it (`open_stream`) or it is
  created by the first DATA that `can_push` accepts (`get_or_create_stream`
  in `HandleData`, with `next_ssn` 0);
- lengths are abstract byte units, and the header sizes and MTU keep the
  code's arithmetic;
- `nsent` is capped at 2 (the code only tests `nsent > 1`);
- the miss indicator is capped at 3;
- time and RTO are not modelled: a timer is armed or not, and an armed timer
  may expire.

## Runs

| Run | Config | Result | What it shows |
|---|---|---|---|
| `receive_path` | `ReceivePath.cfg` | pass (4,760) | datagrams of one or two DATA chunks, damaged or forged: an undamaged packet arrives exactly as sent and a damaged one is always dropped (`ReceivedIsSent`); the split decode hands the handlers what `Packet::unmarshal` would: it rejects only the header-only datagram, which `unmarshal` accepts with no chunk, and otherwise `finish` returns the same packet (`DecodersAgree`); `get_gap_ack_blocks` gives the maximal runs of received TSNs for every arrival order (`GapAckBlocksCorrect`) |
| `data_transfer_safety` | `DataTransfer.cfg` | pass (659,356) | 3 messages, one loss, reordering and an early T3 expiry, with and without Forward TSN (a chunk is abandoned on its first send, so FORWARD-TSN races the DATA it skips): `AckedImpliesReceived`, `InflightAccounting`, `NoProtocolError`, `NeverResendAcked`, and the refinement's safe part `ChannelSafe` |
| `data_transfer_fast_recovery` | `DataTransferFR.cfg` | pass (533,530) | 4 two-unit messages and a loss reach fast retransmit and fast recovery: the exit point stays in flight (`FastRecoveryExitOutstanding`), and the safety properties hold |
| `data_transfer_liveness` | `DataTransferLive.cfg` | pass (40,776) | with loss, duplication and a 2-unit receive buffer (zero window), with and without Forward TSN (a chunk is abandoned on its second send), B's stream opened before the first DATA: the association refines `PartiallyReliableChannel` with liveness (`ChannelLive`), and the sender quiesces even when a FORWARD-TSN is lost (`SenderQuiesces`) |
| `forward_tsn_strands_message` | `DataTransferStall.cfg` | violation | `ChannelLive`: the same bounds with Forward TSN and B's stream created by the first DATA; message 0 is abandoned and its FORWARD-TSN reaches B first, `handle_forward_tsn` finds no stream to update, the stream created by message 1 starts at `next_ssn` 0, and message 1 is never read |
| `gap_blocks_wrap_closes` | `DataTransferWrap.cfg` | violation | `NoProtocolError`: with initial TSN 14 of 16, a reordered packet gives a gap block at offset 0, and A closes |
| `association_lifecycle` | `AssociationLifecycle.cfg` | pass (51,549) | with one fault per behaviour (a loss, a duplicate or an early expiry), the handshake ends (`HandshakeEnds`), and after a SHUTDOWN-ACK an association is closed (`ShutdownAckLeadsToClose`) |
| `shutdown_loses_data` | `AssociationShutdownData.cfg` | violation | `GracefulCloseDeliversData`: `inflight_queue_length` is never updated, so `shutdown()` sends SHUTDOWN with DATA in flight; the peer closes without it |
| `closed_association_reopens` | `AssociationReopen.cfg` | violation | `ClosedIsTerminal`: `my_cookie` survives `close()`, and a duplicated COOKIE-ECHO re-establishes the association |
| `stream_reset` | `StreamReset.cfg` | pass (655,800) | either or both endpoints reset the stream, with two faults among a loss, a duplicate and an early Reconfig expiry: the receiver performs a reset only after the DATA written before it has arrived (`ResetAfterData`), and the stream is eventually gone for good at the peer (`PeerResetApplied`) |
| `stream_reset_never_completes` | `StreamResetMirror.cfg` | violation | `ResetCompletes`: with reordering alone, a request that overtakes its DATA is answered InProgress and later performed with `respond = false`, so no mirrored request is sent and the requester's stream stays open |
| `init_header_panics` | `ReceivePathPanic.cfg` | violation | `NeverPanics`: a 16-byte datagram with a valid CRC whose only chunk is an INIT header of length 4 makes `PartialDecode::unmarshal` call `get_u32` on an empty buffer, a panic any host can trigger |

`DataTransfer` also states `PacketWithinMtu`: no packet exceeds the MTU.
With two one-unit messages and an MTU of 4, TLC finds a 5-unit packet,
because `bundle_data_chunks_into_packets` (mod.rs:2452) leaves the DATA
chunk header out of its check. The run was retired to make room for the
stream reset runs; `PROJECT.json` keeps it as a hazard.

`StreamReset` also reaches a second path where a reset stream does not stay
closed, with no fault. The peer writes a message before the request
arrives and sends it only after its mirrored request. That request's
`sender_last_tsn` does not cover chunks still pending, so the requester
closes the stream, and the late DATA re-creates it (`get_or_create_stream`,
mod.rs:1161). `ResetCompletes` covers this too.

Two defects are known and left out of the runs. `handle_shutdown_ack`
(mod.rs 1451) never calls `close()`, so the initiator of a graceful
shutdown stays in ShutdownSent; a unit test of that handler shows it, and
`ShutdownAckLeadsToClose` covers the responder's side. And
`get_data_packets_to_retransmit` (mod.rs 2314) tests only the retransmit
flag: a chunk that T3-rtx marked, that the retransmission walk passed over
and that a fast retransmission then abandoned is sent once more. Reaching
that takes at least five messages and two losses, beyond these bounds.

`DataTransfer` also states `FastRecoveryCwnd`: cwnd equals ssthresh during
fast recovery, as spec.md says. With the bounds of `DataTransferFR.cfg`,
TLC finds it violated when T3-rtx expires during fast recovery. The code
follows RFC 4960 there (cwnd = 1 MTU), so no run keeps it; `PROJECT.json`
lists it as a hazard.

Each property of a passing run has a mutant in `PROJECT.json`. A mutant is a
plausible bug in a mapped definition, such as:

- a missing stale-SACK check;
- `mark_as_acked` that leaves the retransmit flag set;
- an unsaturated rwnd subtraction;
- a T3-rtx that never stops or never marks chunks;
- a FORWARD-TSN reporting the SSN of the whole inflight queue;
- `finish` decoding from the wrong offset.

TLC finds the property violated under each one.

## Bounds

- **Width.** `W = 4` keeps serial arithmetic with a wrap at 16. The no-wrap
  runs start at TSN 1, and `DataTransferWrap.cfg` starts at 14, so the
  transfer crosses 0.
- **Sizes.** The MTU is 4 units: a 1-unit common header, a 1-unit chunk
  header and a 2-unit payload. This keeps the code's relations: two
  one-unit messages fit in a packet by payload and exceed it by size.
- **Initial window.** The initial cwnd is 8 (2·MTU, since `CwndFloor` is 5).
  Three or four messages are in flight at once, so three miss indications,
  and with them fast retransmit, can happen.
- **Network.** `MaxInTransit` bounds the packets in flight in each direction
  (a state constraint). `MaxLoss` and `MaxDup` bound the faults.
- **Association.** One message, from the client only (`DataSenders`). The
  shutdown paths need one side with data in flight, and a second sender
  multiplies the states twentyfold. `MaxRetrans = 2` exceeds the
  retransmissions one fault can force, so a retransmission failure is
  reachable only through the application's or an error's close.
  `MaxFaults = 1` allows one loss, one duplicate or one early expiry per
  behaviour. Each fault alone drives the handshake and shutdown timers
  through their retransmissions. Two faults per behaviour take more than
  six minutes to check.
- **Stream reset.** One stream, one message per application, either or
  both applications resetting. `MaxFaults = 2` allows two faults among
  `MaxLoss = 1`, `MaxDup = 1` and `MaxEarly = 1`. `MaxReconfigRetrans = 2`
  (the spec's table says 5) stays above what those faults can use up, so
  a reset is never abandoned. With a second message per application and
  both resetting, TLC had not finished after ten minutes.
- **Partial reliability.** Value 1 abandons every chunk when it is first
  sent, so A advances past chunks still in transit and FORWARD-TSN
  overtakes them; value 2 abandons a chunk on its retransmission, the
  usual case. Both runs also explore the association without Forward TSN,
  which keeps their reliable-channel results.
- **Early expiries.** `MaxEarlyT3` bounds the T3-rtx expiries that race
  packets still in transit. An expiry with an empty network is always
  allowed, so a lost packet is always recovered.

- **Receive path.** 4-bit TSNs from 9 with a window of 4, so two gap ack
  blocks can form. Bundles of two chunks make the padding between chunks
  matter. Damage hits one of five offsets: a port, the checksum, the first
  chunk's length, the first TSN, and the second TSN. Forgeries include the
  following:
  - a valid INIT and a COOKIE-ECHO, which reach the handlers;
  - a HEARTBEAT-ACK, which both decoders reject;
  - a header shorter than 4;
  - a COOKIE-ACK whose length runs past the datagram;
  - the common header alone (`ForgeHeaderOnly`), which `PartialDecode`
    rejects at packet.rs 89 and `Packet::unmarshal` accepts.

  Every datagram costs two CRC computations per state, which is why the
  instance is small.

## Fairness

The owner of an endpoint keeps calling `poll_transmit`, `handle_timeout` and
`handle_event`. The fairness follows from that:

- `ATransmit`, `AHandleSack`, `BHandleData`, `BHandleForwardTsn`,
  `BTransmitSack` and `BAckTimeout` are weakly fair;
- an armed T3-rtx eventually fires, so `AT3Timeout` is weakly fair;
- B's application keeps reading, so `BAppRead` is weakly fair.

Submitting a message and losing a packet are not fair.

In `StreamReset`, for each endpoint these are weakly fair: handling a
packet, a gather that sends all pending chunks (cwnd and rwnd open once
SACKs arrive), resending DATA the peer misses (T3-rtx), and a Reconfig
expiry while the timer runs. The applications' calls and `Lose` are not
fair.

In `Association`, receiving and `poll_transmit` are weakly fair for each
endpoint. The timer expiries are strongly fair. An armed timer fires when
its time comes even while packets keep arriving, but the model lets it
expire only when the network is quiet, which happens again and again
without staying true. The application's calls (`SendPayloadData`,
`Shutdown`, `AppClose`) and `Lose` are not fair.

## Not modelled

- **Association details.** `Association` leaves out several parts:
  - ABORT, ERROR and HEARTBEAT chunks;
  - verification tags and port checks;
  - stream open and accept;
  - congestion control, which is `DataTransfer`'s subject.

  The `Drained` and `AssociationLost` events are flags. `close()` after a
  handler error records no error (mod.rs:500), so no event says why the
  association ended; no property is about events.
- **Partial reliability, in part.** The reliability type Timed is not
  modelled: its abandonment depends on wall-clock time. Also left out are
  the DCEP exemption, unordered chunks and several streams in one
  FORWARD-TSN. The ERROR reply to a FORWARD-TSN without Forward TSN is not
  reachable, because the sender sends FORWARD-TSN only when it is
  negotiated.
- **Stream reconfiguration, in part.** `StreamReset` models outgoing
  stream reset, the only reconfiguration the code performs. Three things
  are left out:
  - the ErrParameterType reply to other parameters, which the code never
    sends;
  - `open_stream` after a reset (the `Stream` API is not in this source
    tree);
  - serial-number wrap of TSNs and RSNs.

  The RSN check RFC 6525 asks for is missing from the code (mod.rs:1535).
  It is listed as a hazard.
- **RTO.** RTO computation and RTT sampling depend on time.
  Retransmission counters and `on_retransmission_failure` are modelled in
  `Association`.
- **Packet codec, in part.** The chunk codecs (`ChunkInit`,
  `ChunkPayloadData`, ...) and the CRC library are outside this source
  tree. The chunk codecs are modelled only as far as the packet loop
  depends on them: header, minimum length and value bytes. `Association`
  and `DataTransfer` keep packets as records of chunks. Their fields are
  never encoded, and `ReceivePath` shows that a packet survives the round
  trip. 32-bit fields hold values below 2^31, because TLC's integers are
  signed.
- **Integer overflow panics.** The debug-build overflow panics (e.g.
  `my_next_tsn += 1`) are not modelled: the model uses wrapping arithmetic,
  as release builds do.
