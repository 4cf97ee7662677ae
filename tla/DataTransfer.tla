---------------------------- MODULE DataTransfer ----------------------------
(***************************************************************************)
(* Reliable data transfer of an established association                    *)
(* (src/association/mod.rs): endpoint A (the client) sends the messages of *)
(* one ordered stream to endpoint B (the server) over a network that loses,*)
(* duplicates and reorders packets.                                        *)
(*                                                                         *)
(*  A: send_payload_data, poll_transmit (retransmissions, new DATA bundled *)
(*     into packets, fast retransmissions), handle_sack with congestion    *)
(*     control and fast recovery, the T3-rtx timer.                        *)
(*  B: handle_data and the delayed/immediate SACK decision, the Ack timer, *)
(*     poll_transmit of the SACK, and the application reading the stream.  *)
(*                                                                         *)
(* With Forward TSN negotiated (use_forward_tsn), the stream is partially *)
(* reliable with reliability type Rexmit: A abandons a chunk sent          *)
(* RexmitValue times, advances advanced_peer_tsn_ack_point over abandoned  *)
(* chunks and sends FORWARD-TSN; B skips the abandoned TSNs.               *)
(*                                                                         *)
(* Each message is one DATA chunk.  Lengths are in abstract byte units;    *)
(* header sizes and the MTU keep the code's relations.  A handler error    *)
(* makes handle_event close() the association; A then stops (Closed).      *)
(***************************************************************************)
EXTENDS PayloadQueue

CONSTANTS
    InitialTsns,           \* possible values of A's random initial TSN
    Msgs,                  \* number of messages the application sends
    MsgLens,               \* possible payload lengths of a message
    CommonHeaderSize,      \* COMMON_HEADER_SIZE
    DataChunkHeaderSize,   \* DATA_CHUNK_HEADER_SIZE
    MaxPayloadSize,        \* max_payload_size of the association
    CwndFloor,             \* the 4380 bytes of the initial cwnd rule
    MaxReceiveBufferSize,  \* B's max_receive_buffer_size (its a_rwnd)
    MaxLoss,               \* bound on packets the network loses
    MaxDup,                \* bound on packets the network duplicates
    MaxInTransit,          \* bound on packets in transit in each direction
    MaxEarlyT3,            \* bound on T3-rtx expiries racing packets in transit
    ForwardTsnNegotiated,  \* possible outcomes of the Forward TSN negotiation
    RexmitValue,           \* reliability_value of the stream (type Rexmit)
    StreamOpenedFirst      \* whether B's application opens the stream before
                           \* the first DATA (open_stream) or not (accept_stream)

\* Association::new replaces a random initial TSN of 0 by 1.
ASSUME /\ InitialTsns \subseteq Tsn \ {0}
       /\ Msgs \in 1..(Half - 1)
       /\ MsgLens \subseteq 1..MaxPayloadSize
       /\ MaxLoss \in Nat /\ MaxDup \in Nat
       /\ ForwardTsnNegotiated \subseteq BOOLEAN /\ ForwardTsnNegotiated # {}
       \* nsent is tracked up to 2
       /\ RexmitValue \in 0..2
       /\ StreamOpenedFirst \subseteq BOOLEAN /\ StreamOpenedFirst # {}

MTU == MaxPayloadSize + CommonHeaderSize + DataChunkHeaderSize

\* (2 * mtu).clamp(4380, 4 * mtu) in Association::new; clamp needs its
\* lower bound not above its upper one.
ASSUME CwndFloor <= 4 * MTU
InitialCwnd == IF 2 * MTU < CwndFloor THEN CwndFloor
               ELSE IF 2 * MTU > 4 * MTU THEN 4 * MTU ELSE 2 * MTU

VARIABLES
    \* endpoint A, the data sender
    aState,                 \* "Established" or "Closed"
    pendingQueue,           \* messages submitted and not yet given a TSN
    inflightQueue,          \* TSN -> chunk sent and not cumulatively acked
    myNextTsn,
    cumulativeTsnAckPoint,
    cwnd, ssthresh, rwnd, partialBytesAcked,
    inFastRecovery, fastRecoverExitPoint, willRetransmitFast,
    t3Running,              \* the T3-rtx timer is armed
    advancedPeerTsnAckPoint,
    willSendForwardTsn,
    earlyT3,                \* T3-rtx expiries so far that raced packets in transit
    \* endpoint B, the data receiver
    peerLastTsn,
    payloadQueue,           \* TSNs received above peer_last_tsn
    reassembly,             \* chunks held by the stream's reassembly queue
    ackState,               \* "Idle", "Immediate" or "Delay"
    ackTimerRunning,
    nextSsn,                \* next_ssn of the stream's reassembly queue
    streamExists,           \* B's association holds the stream (streams map)
    \* the network
    toB,                    \* DATA packets in flight from A to B
    toA,                    \* SACK packets in flight from B to A
    fwdToB,                 \* FORWARD-TSN packets in flight from A to B
    losses, dups,
    \* history of the application on each side
    initialTsn,             \* A's initial TSN
    useForwardTsn,          \* both ends advertised Forward TSN support
    abandonedSsns,          \* messages A has marked abandoned, ever
    submitted,              \* messages given to send_payload_data, in order
    delivered               \* messages read by B's application, in order

aVars   == <<aState, pendingQueue, inflightQueue, myNextTsn, cumulativeTsnAckPoint,
             cwnd, ssthresh, rwnd, partialBytesAcked, inFastRecovery,
             fastRecoverExitPoint, willRetransmitFast, t3Running, earlyT3,
             advancedPeerTsnAckPoint, willSendForwardTsn>>
bVars   == <<peerLastTsn, payloadQueue, reassembly, ackState, ackTimerRunning, nextSsn,
             streamExists>>
netVars == <<toB, toA, fwdToB, losses, dups>>
appVars == <<initialTsn, useForwardTsn, abandonedSsns, submitted, delivered>>
vars    == <<aVars, bVars, netVars, appVars>>

Message == [ssn : 0..(Msgs - 1), len : MsgLens]
Chunk   == [tsn : Tsn, ssn : 0..(Msgs - 1), len : MsgLens]
\* A chunk of the inflight queue.  nsent is kept up to 2: the code only
\* tells nsent = 1 from nsent > 1.
InflightChunk == [ssn : 0..(Msgs - 1), len : MsgLens, nsent : 1..2,
                  acked : BOOLEAN, retransmit : BOOLEAN, abandoned : BOOLEAN,
                  missIndicator : 0..3]
ForwardTsnChunk == [newCumulativeTsn : Tsn, ssn : 0..(Msgs - 1)]
AckStates == {"Idle", "Immediate", "Delay"}

----------------------------------------------------------------------------
(* Initial state: both ends Established after the handshake.  The client  *)
(* took rwnd and ssthresh from the a_rwnd of B's INIT-ACK and both ends    *)
(* set use_forward_tsn if the other advertised it (handle_init,            *)
(* handle_init_ack); cum ack point, advanced_peer_tsn_ack_point and        *)
(* peer_last_tsn are initial TSN - 1.                                      *)
Init ==
    /\ initialTsn \in InitialTsns
    /\ aState = "Established"
    /\ pendingQueue = <<>>
    /\ inflightQueue = <<>>
    /\ myNextTsn = initialTsn
    /\ cumulativeTsnAckPoint = Add(initialTsn, Mod - 1)
    /\ cwnd = InitialCwnd
    /\ ssthresh = MaxReceiveBufferSize
    /\ rwnd = MaxReceiveBufferSize
    /\ partialBytesAcked = 0
    /\ inFastRecovery = FALSE
    /\ fastRecoverExitPoint = 0
    /\ willRetransmitFast = FALSE
    /\ t3Running = FALSE
    /\ useForwardTsn \in ForwardTsnNegotiated
    /\ advancedPeerTsnAckPoint = Add(initialTsn, Mod - 1)
    /\ willSendForwardTsn = FALSE
    /\ nextSsn = 0
    \* B's application opened the stream (open_stream) before any DATA, or
    \* waits for the one the first DATA creates (accept_stream).
    /\ streamExists \in StreamOpenedFirst
    /\ fwdToB = {}
    /\ abandonedSsns = {}
    /\ peerLastTsn = Add(initialTsn, Mod - 1)
    /\ payloadQueue = {}
    /\ reassembly = {}
    /\ ackState = "Idle"
    /\ ackTimerRunning = FALSE
    /\ toB = {} /\ toA = {}
    /\ losses = 0 /\ dups = 0 /\ earlyT3 = 0
    /\ submitted = <<>>
    /\ delivered = <<>>

----------------------------------------------------------------------------
(***************************************************************************)
(* Endpoint B                                                              *)
(***************************************************************************)

\* get_my_receiver_window_credit: buffer size minus the bytes held by the
\* reassembly queue, saturating at 0.
ReceiverWindowCredit(reasm) ==
    LET queued == MapThenSumSet(LAMBDA c : c.len, reasm)
    IN IF queued >= MaxReceiveBufferSize THEN 0 ELSE MaxReceiveBufferSize - queued

(***************************************************************************)
(* handle_data for one DATA chunk, then                                    *)
(* handle_peer_last_tsn_and_acknowledgement (ack_mode Normal, the chunk's  *)
(* immediate_sack flag clear).  st carries the queue, peer_last_tsn, the   *)
(* reassembly queue, whether the stream exists and the two per-packet     *)
(* ack flags.  A chunk can_push accepts first gets or creates its stream  *)
(* (get_or_create_stream; a new stream's next_ssn is 0).                  *)
(***************************************************************************)
HandleData(st, c) ==
    LET accept == /\ CanPush(st.queue, c.tsn, st.peerLastTsn)
                  /\ \/ ReceiverWindowCredit(st.reasm) > 0
                     \* receive buffer full: only a chunk filling a gap
                     \/ st.queue # {} /\ SerialLt(c.tsn, LastTsnReceived(st.queue))
        q     == IF accept THEN st.queue \cup {c.tsn} ELSE st.queue
        r     == PopInOrder(q, st.peerLastTsn)
        hasPacketLoss == r.queue # {}
        delay == ackState # "Immediate" /\ ~hasPacketLoss
    IN [queue       |-> r.queue,
        peerLastTsn |-> r.peerLastTsn,
        reasm       |-> IF accept THEN st.reasm \cup {[ssn |-> c.ssn, len |-> c.len]}
                                  ELSE st.reasm,
        stream      |-> st.stream \/ CanPush(st.queue, c.tsn, st.peerLastTsn),
        immediate   |-> st.immediate \/ ~delay \/ ackState # "Idle",
        delayed     |-> st.delayed \/ (delay /\ ackState = "Idle")]

\* handle_inbound of a DATA packet: handle_chunk_start clears the flags,
\* each chunk is handled in order, handle_chunk_end sets the ack state and
\* the Ack timer.  The network may keep a copy (a duplicate) of the packet.
BHandleData(p) ==
    LET st == FoldLeft(HandleData,
                       [queue |-> payloadQueue, peerLastTsn |-> peerLastTsn,
                        reasm |-> reassembly, stream |-> streamExists,
                        immediate |-> FALSE, delayed |-> FALSE],
                       p)
    IN /\ payloadQueue' = st.queue
       /\ peerLastTsn' = st.peerLastTsn
       /\ reassembly' = st.reasm
       /\ streamExists' = st.stream
       /\ IF st.immediate
          THEN ackState' = "Immediate" /\ ackTimerRunning' = FALSE
          ELSE IF st.delayed
          THEN ackState' = "Delay" /\ ackTimerRunning' = TRUE
          ELSE UNCHANGED <<ackState, ackTimerRunning>>
       /\ \/ toB' = toB \ {p} /\ UNCHANGED dups
          \/ dups < MaxDup /\ toB' = toB /\ dups' = dups + 1
       /\ UNCHANGED <<aVars, nextSsn, toA, fwdToB, losses, appVars>>

\* handle_timeout for the Ack timer: on_ack_timeout forces an immediate ack.
BAckTimeout ==
    /\ ackTimerRunning
    /\ ackTimerRunning' = FALSE
    /\ ackState' = "Immediate"
    /\ UNCHANGED <<aVars, peerLastTsn, payloadQueue, reassembly, nextSsn, streamExists,
                   netVars, appVars>>

\* poll_transmit on B: gather_outbound_sack_packets sends a SACK built by
\* create_selective_ack_chunk when the ack state is Immediate.
BTransmitSack ==
    /\ ackState = "Immediate"
    /\ ackState' = "Idle"
    /\ toA' = toA \cup {[cumulativeTsnAck |-> peerLastTsn,
                         arwnd |-> ReceiverWindowCredit(reassembly),
                         gapAckBlocks |-> GetGapAckBlocks(payloadQueue, peerLastTsn)]}
    /\ UNCHANGED <<aVars, peerLastTsn, payloadQueue, reassembly, ackTimerRunning,
                   nextSsn, streamExists, toB, fwdToB, losses, dups, appVars>>

\* B's application reads the ordered stream: the reassembly queue, sorted
\* by SSN, yields its first message when that SSN is not above next_ssn
\* (a message below it survived a FORWARD-TSN); next_ssn moves on when the
\* message is the expected one.  The bytes leave the receive buffer.
BAppRead ==
    \E c \in reassembly :
        /\ \A o \in reassembly : c.ssn <= o.ssn
        /\ c.ssn <= nextSsn
        /\ reassembly' = reassembly \ {c}
        /\ nextSsn' = IF c.ssn = nextSsn THEN nextSsn + 1 ELSE nextSsn
        /\ delivered' = Append(delivered, c)
        /\ UNCHANGED <<aVars, peerLastTsn, payloadQueue, ackState, ackTimerRunning,
                       streamExists, netVars, initialTsn, useForwardTsn, abandonedSsns, submitted>>

(***************************************************************************)
(* handle_forward_tsn (A sends FORWARD-TSN only when use_forward_tsn is   *)
(* set on both ends, so the ERROR reply is not reached).  An out-of-date  *)
(* new cumulative TSN forces an immediate SACK.  Otherwise peer_last_tsn  *)
(* moves to it, popping the skipped TSNs from the payload queue; the      *)
(* stream, if B has it (a stream not yet created is skipped), moves       *)
(* next_ssn past the reported SSN                                          *)
(* (handle_forward_tsn_for_ordered keeps complete messages, and each      *)
(* message here is one chunk); then handle_peer_last_tsn_and_acknowledgement *)
(* as for DATA, with the ack flags of handle_chunk_end.                   *)
(***************************************************************************)
BHandleForwardTsn(f) ==
    /\ IF SerialLte(f.newCumulativeTsn, peerLastTsn)
       THEN /\ ackState' = "Immediate"
            /\ ackTimerRunning' = FALSE
            /\ UNCHANGED <<peerLastTsn, payloadQueue, nextSsn>>
       ELSE LET r     == PopInOrder({t \in payloadQueue :
                                        SerialGt(t, f.newCumulativeTsn)},
                                    f.newCumulativeTsn)
                delay == ackState # "Immediate" /\ r.queue = {}
            IN /\ payloadQueue' = r.queue
               /\ peerLastTsn' = r.peerLastTsn
               /\ nextSsn' = IF streamExists /\ nextSsn <= f.ssn THEN f.ssn + 1 ELSE nextSsn
               /\ IF delay /\ ackState = "Idle"
                  THEN ackState' = "Delay" /\ ackTimerRunning' = TRUE
                  ELSE ackState' = "Immediate" /\ ackTimerRunning' = FALSE
    /\ \/ fwdToB' = fwdToB \ {f} /\ UNCHANGED dups
       \/ dups < MaxDup /\ fwdToB' = fwdToB /\ dups' = dups + 1
    /\ UNCHANGED <<aVars, reassembly, streamExists, toB, toA, losses, appVars>>

----------------------------------------------------------------------------
(***************************************************************************)
(* Endpoint A                                                              *)
(***************************************************************************)

\* inflight_queue.get_num_bytes: the bytes of chunks not yet acked
\* (mark_as_acked clears a chunk's user data).
OutstandingBytes(inflight) ==
    MapThenSumSet(LAMBDA t : IF inflight[t].acked THEN 0 ELSE inflight[t].len,
                  DOMAIN inflight)

\* The chunk with TSN t of an inflight queue, as it goes on the wire.
WireChunk(inflight, t) == [tsn |-> t, ssn |-> inflight[t].ssn, len |-> inflight[t].len]

\* send_payload_data: in Established, the message joins the pending queue
\* (the stream numbers ordered messages 0, 1, ...).
SendPayload(len) ==
    /\ aState = "Established"
    /\ Len(submitted) < Msgs
    /\ LET m == [ssn |-> Len(submitted), len |-> len] IN
       /\ pendingQueue' = Append(pendingQueue, m)
       /\ submitted' = Append(submitted, m)
    /\ UNCHANGED <<aState, inflightQueue, myNextTsn, cumulativeTsnAckPoint, cwnd,
                   ssthresh, rwnd, partialBytesAcked, inFastRecovery,
                   fastRecoverExitPoint, willRetransmitFast, t3Running, earlyT3,
                   advancedPeerTsnAckPoint, willSendForwardTsn, bVars, netVars,
                   initialTsn, useForwardTsn, abandonedSsns, delivered>>

(***************************************************************************)
(* bundle_data_chunks_into_packets: a new packet is started when the       *)
(* payload of the next chunk would not fit in what is left of the MTU.    *)
(* The test adds the payload length but not DATA_CHUNK_HEADER_SIZE, which *)
(* is only added after it.  A packet is pushed even when empty.            *)
(***************************************************************************)
BundleStep(acc, c) ==
    LET full == acc.bytes + c.len > MTU
        cur  == IF full THEN <<>> ELSE acc.cur
        pkts == IF full THEN acc.packets \cup {acc.cur} ELSE acc.packets
        base == IF full THEN CommonHeaderSize ELSE acc.bytes
    IN [packets |-> pkts, cur |-> Append(cur, c),
        bytes |-> base + DataChunkHeaderSize + c.len]

BundleDataChunksIntoPackets(chunks) ==
    LET r == FoldLeft(BundleStep,
                      [packets |-> {}, cur |-> <<>>, bytes |-> CommonHeaderSize],
                      chunks)
    IN IF r.cur # <<>> THEN r.packets \cup {r.cur} ELSE r.packets

(***************************************************************************)
(* get_data_packets_to_retransmit: walk the inflight queue from the cum    *)
(* ack point; take the chunks marked for retransmission while their bytes *)
(* fit in min(cwnd, rwnd).  A first chunk (i = 0) larger than rwnd is sent *)
(* alone as a zero window probe.  Returns the TSNs taken, in order.        *)
(***************************************************************************)
RECURSIVE RetransmitScan(_, _, _, _)
RetransmitScan(inflight, i, bytesToSend, awnd) ==
    LET tsn == Add(cumulativeTsnAckPoint, i + 1) IN
    IF tsn \notin DOMAIN inflight THEN <<>>
    ELSE LET c == inflight[tsn] IN
         IF ~c.retransmit THEN RetransmitScan(inflight, i + 1, bytesToSend, awnd)
         ELSE IF i = 0 /\ rwnd < c.len THEN <<tsn>>
         ELSE IF bytesToSend + c.len > awnd THEN <<>>
         ELSE <<tsn>> \o RetransmitScan(inflight, i + 1, bytesToSend + c.len, awnd)

(***************************************************************************)
(* check_partial_reliability_status, run after each send of a chunk: with *)
(* use_forward_tsn and reliability type Rexmit, a chunk sent at least     *)
(* reliability_value times is abandoned (it is still sent this time).     *)
(***************************************************************************)
CheckPartialReliabilityStatus(c) ==
    IF useForwardTsn /\ c.nsent >= RexmitValue
    THEN [c EXCEPT !.abandoned = TRUE] ELSE c

\* The chunk after being sent once more.
Resent(c) ==
    CheckPartialReliabilityStatus([c EXCEPT !.nsent = IF @ < 2 THEN @ + 1 ELSE 2])

(***************************************************************************)
(* pop_pending_data_chunks_to_send with                                    *)
(* move_pending_data_chunk_to_inflight_queue: move pending messages to the *)
(* inflight queue with fresh TSNs while the outstanding bytes plus the     *)
(* message fit in cwnd and the message fits in rwnd (decrementing rwnd).   *)
(* st: pending, inflight, rwnd, next TSN and the chunks moved, in order.   *)
(***************************************************************************)
\* Fault variant of MoveToInflight: my_next_tsn is not advanced.
MoveToInflightSameTsn(st) ==
    LET m == Head(st.pending)
        c == CheckPartialReliabilityStatus(
                 [ssn |-> m.ssn, len |-> m.len, nsent |-> 1, acked |-> FALSE,
                  retransmit |-> FALSE, abandoned |-> FALSE, missIndicator |-> 0])
    IN [st EXCEPT !.pending  = Tail(@),
                  !.inflight = @ @@ (st.nextTsn :> c),
                  !.moved    = Append(@, st.nextTsn)]

MoveToInflight(st) ==
    LET m == Head(st.pending)
        c == CheckPartialReliabilityStatus(
                 [ssn |-> m.ssn, len |-> m.len, nsent |-> 1, acked |-> FALSE,
                  retransmit |-> FALSE, abandoned |-> FALSE, missIndicator |-> 0])
    IN [st EXCEPT !.pending  = Tail(@),
                  !.inflight = @ @@ (st.nextTsn :> c),
                  !.nextTsn  = Inc(@),
                  !.moved    = Append(@, st.nextTsn)]

RECURSIVE PopPending(_)
PopPending(st) ==
    IF \/ st.pending = <<>>
       \/ OutstandingBytes(st.inflight) + Head(st.pending).len > cwnd
       \/ Head(st.pending).len > st.rwnd
    THEN st
    ELSE PopPending(MoveToInflight([st EXCEPT !.rwnd = @ - Head(st.pending).len]))

\* After the loop: with nothing moved and nothing in flight, one chunk is
\* sent anyway as a zero window probe (RFC 4960 6.1 rule A).
PopPendingDataChunksToSend(st) ==
    LET r == PopPending(st) IN
    IF r.moved = <<>> /\ DOMAIN r.inflight = {} /\ r.pending # <<>>
    THEN MoveToInflight(r) ELSE r

(***************************************************************************)
(* gather_outbound_fast_retransmission_packets: walk the inflight queue    *)
(* from the cum ack point, skipping chunks acked, abandoned, sent more    *)
(* than once or with fewer than 3 miss indications; stop at the first one *)
(* that would not fit in the MTU.  Returns the TSNs taken, in order.      *)
(***************************************************************************)
\* The chunks the fast retransmission walk passes over.
FastRetransmitSkip(c) == c.acked \/ c.abandoned \/ c.nsent > 1 \/ c.missIndicator < 3

RECURSIVE FastRetransmitScan(_, _, _)
FastRetransmitScan(inflight, i, size) ==
    LET tsn == Add(cumulativeTsnAckPoint, i + 1) IN
    IF tsn \notin DOMAIN inflight THEN <<>>
    ELSE LET c == inflight[tsn] IN
         IF FastRetransmitSkip(c)
         THEN FastRetransmitScan(inflight, i + 1, size)
         ELSE IF MTU < size + DataChunkHeaderSize + c.len THEN <<>>
         ELSE <<tsn>> \o FastRetransmitScan(inflight, i + 1,
                                            size + DataChunkHeaderSize + c.len)

\* Mark the TSNs of a scan as sent once more (and no longer to retransmit).
MarkResent(inflight, tsns) ==
    [t \in DOMAIN inflight |->
        IF t \in Range(tsns) THEN [Resent(inflight[t]) EXCEPT !.retransmit = FALSE]
        ELSE inflight[t]]

\* The fast retransmission path only counts the send; a chunk also marked
\* for retransmission by T3 keeps its retransmit flag.
MarkFastResent(inflight, tsns) ==
    [t \in DOMAIN inflight |->
        IF t \in Range(tsns) THEN Resent(inflight[t]) ELSE inflight[t]]

\* Fault variant of CreateForwardTsn: the SSN reported is the greatest of
\* the whole inflight queue (the walk does not stop at the advanced point).
CreateForwardTsnWholeQueue(inflight) ==
    [newCumulativeTsn |-> advancedPeerTsnAckPoint,
     ssn |-> Max({ inflight[t].ssn : t \in DOMAIN inflight })]

\* create_forward_tsn (RFC 3758 C4): the new cumulative TSN is the advanced
\* peer ack point; the stream's entry is the greatest SSN of the inflight
\* chunks after the cum ack point up to it.
CreateForwardTsn(inflight) ==
    LET skipped == { Add(cumulativeTsnAckPoint, j) :
                       j \in 1..Dist(cumulativeTsnAckPoint, advancedPeerTsnAckPoint) }
                   \cap DOMAIN inflight
    IN [newCumulativeTsn |-> advancedPeerTsnAckPoint,
        ssn |-> Max({ inflight[t].ssn : t \in skipped })]

(***************************************************************************)
(* gather_outbound_forward_tsn_packets: a pending FORWARD-TSN request is  *)
(* cleared, and a FORWARD-TSN packet is sent if the advanced peer ack     *)
(* point is past the cum ack point.                                        *)
(***************************************************************************)
ForwardTsnPackets(inflight) ==
    IF willSendForwardTsn /\ SerialGt(advancedPeerTsnAckPoint, cumulativeTsnAckPoint)
    THEN {CreateForwardTsn(inflight)} ELSE {}

\* The messages of the chunks of an inflight queue marked abandoned.
AbandonedSsns(inflight) ==
    { inflight[t].ssn : t \in { u \in DOMAIN inflight : inflight[u].abandoned } }

(***************************************************************************)
(* poll_transmit on A in Established (gather_outbound): retransmissions,  *)
(* then new data (arming T3-rtx when any moved), then the fast             *)
(* retransmission packet, then FORWARD-TSN.  A has no SACK to send.  The  *)
(* step is taken when it sends something or clears a request.             *)
(***************************************************************************)
ATransmit ==
    /\ aState = "Established"
    /\ LET rtx  == RetransmitScan(inflightQueue, 0, 0, Min({cwnd, rwnd}))
           inf1 == MarkResent(inflightQueue, rtx)
           new  == PopPendingDataChunksToSend(
                       [pending |-> pendingQueue, inflight |-> inf1, rwnd |-> rwnd,
                        nextTsn |-> myNextTsn, moved |-> <<>>])
           inf2 == new.inflight
           fast == IF willRetransmitFast
                   THEN FastRetransmitScan(inf2, 0, CommonHeaderSize) ELSE <<>>
           inf3 == MarkFastResent(inf2, fast)
           pkts == BundleDataChunksIntoPackets([k \in DOMAIN rtx |-> WireChunk(inf1, rtx[k])])
                   \cup BundleDataChunksIntoPackets(
                            [k \in DOMAIN new.moved |-> WireChunk(inf2, new.moved[k])])
                   \cup (IF fast = <<>> THEN {}
                         ELSE {[k \in DOMAIN fast |-> WireChunk(inf3, fast[k])]})
           fwd  == ForwardTsnPackets(inf3)
       IN /\ pkts # {} \/ willRetransmitFast \/ willSendForwardTsn
          /\ inflightQueue' = inf3
          /\ abandonedSsns' = abandonedSsns \cup AbandonedSsns(inf3)
          /\ willSendForwardTsn' = FALSE
          /\ fwdToB' = fwdToB \cup fwd
          /\ pendingQueue' = new.pending
          /\ rwnd' = new.rwnd
          /\ myNextTsn' = new.nextTsn
          /\ t3Running' = (t3Running \/ new.moved # <<>>)
          /\ willRetransmitFast' = FALSE
          /\ toB' = toB \cup pkts
    /\ UNCHANGED <<aState, cumulativeTsnAckPoint, cwnd, ssthresh, partialBytesAcked,
                   inFastRecovery, fastRecoverExitPoint, earlyT3,
                   advancedPeerTsnAckPoint, bVars, toA, losses, dups, initialTsn,
                   useForwardTsn, submitted, delivered>>

(***************************************************************************)
(* handle_sack in Established, with process_selective_ack,                 *)
(* on_cumulative_tsn_ack_point_advanced, the rwnd update,                  *)
(* process_fast_retransmission and postprocess_sack.  A SACK older than    *)
(* the cum ack point is dropped.  An inflight TSN the SACK needs that is   *)
(* missing is an error (ErrInflightQueueTsnPop, ErrTsnRequestNotExist):    *)
(* handle_event then close()s the association and stops all timers.        *)
(***************************************************************************)
\* The k pops of process_selective_ack each find the oldest queued TSN.
PopsSucceed(inflight, k) ==
    \A j \in 1..k :
        CanPop(DOMAIN inflight \ { Add(cumulativeTsnAckPoint, i) : i \in 1..(j - 1) },
               Add(cumulativeTsnAckPoint, j))

\* on_cumulative_tsn_ack_point_advanced, congestion control part: slow
\* start when cwnd <= ssthresh, otherwise congestion avoidance; cwnd grows
\* only while the pending queue is non-empty.
CumAdvancedCwnd(fr, totalBytesAcked) ==
    IF cwnd <= ssthresh
    THEN [cwnd |-> IF ~fr /\ pendingQueue # <<>>
                   THEN cwnd + Min({totalBytesAcked, cwnd}) ELSE cwnd,
          pba  |-> partialBytesAcked]
    ELSE LET pba == partialBytesAcked + totalBytesAcked IN
         IF pba >= cwnd /\ pendingQueue # <<>>
         THEN [cwnd |-> cwnd + MTU, pba |-> pba - cwnd]
         ELSE [cwnd |-> cwnd, pba |-> pba]

\* Fault variant of IsStaleSack: the out-of-order SACK check is missing.
IsStaleSackMissing(s) == FALSE

\* The SACK is older than the cum ack point (RFC 4960 6.2.1 D i).
IsStaleSack(s) == SerialGt(cumulativeTsnAckPoint, s.cumulativeTsnAck)

\* Fault variant of MarkAsAcked: the retransmit flag is left set.
MarkAsAckedKeepRetransmit(c) == [c EXCEPT !.acked = TRUE]

\* mark_as_acked: the chunk is acked and no longer to be retransmitted.
MarkAsAcked(c) == [c EXCEPT !.acked = TRUE, !.retransmit = FALSE]

\* Fault variant of LeavesFastRecovery: the exit test is made only for a
\* popped chunk not acked before (inside the `if !c.acked` block).
LeavesFastRecoveryIfUnacked(popped) ==
    /\ fastRecoverExitPoint \in popped
    /\ ~inflightQueue[fastRecoverExitPoint].acked

\* Fast recovery ends when the chunk at the exit point is popped.
LeavesFastRecovery(popped) == fastRecoverExitPoint \in popped

\* Fault variant of NewRwnd: u32 subtraction without the saturation.
NewRwndUnsaturated(arwnd, outstanding) == arwnd - outstanding

\* rwnd = a_rwnd - bytes outstanding, at least 0 (RFC 4960 6.2.1 D ii).
NewRwnd(arwnd, outstanding) ==
    IF outstanding >= arwnd THEN 0 ELSE arwnd - outstanding

\* Fault variant of T3AfterSack: T3-rtx is never stopped (rule R2 missed).
T3AfterSackNeverStopped(remaining, advanced) == TRUE

\* The T3-rtx timer after handle_sack: stopped when the cum ack point
\* advanced and nothing is left in flight (R2); restarted if stale while
\* chunks are in flight (R3, postprocess_sack); otherwise left alone.
T3AfterSack(remaining, advanced) ==
    IF remaining # {} THEN TRUE
    ELSE IF advanced THEN FALSE ELSE t3Running

(***************************************************************************)
(* RFC 3758 C2 (handle_sack and the T3-rtx expiry): the advanced peer ack *)
(* point moves over the consecutive inflight chunks marked abandoned.     *)
(***************************************************************************)
RECURSIVE AdvancePeerAckPoint(_, _)
AdvancePeerAckPoint(inflight, p) ==
    IF Inc(p) \in DOMAIN inflight /\ inflight[Inc(p)].abandoned
    THEN AdvancePeerAckPoint(inflight, Inc(p)) ELSE p

AHandleSack(s) ==
    /\ aState = "Established"
    /\ toA' = toA \ {s}
    /\ IF IsStaleSack(s)
       THEN UNCHANGED <<aVars, bVars, toB, fwdToB, losses, dups, appVars>>
       ELSE
       \* the pop loop runs for i = cum+1 while sna32lte(i, d.cum)
       LET k       == IF SerialLte(Inc(cumulativeTsnAckPoint), s.cumulativeTsnAck)
                      THEN Dist(cumulativeTsnAckPoint, s.cumulativeTsnAck) ELSE 0
           popped  == { Add(cumulativeTsnAckPoint, j) : j \in 1..k }
           infP    == Restrict(inflightQueue, DOMAIN inflightQueue \ popped)
           newCum  == { t \in popped \cap DOMAIN inflightQueue : ~inflightQueue[t].acked }
           fr1     == inFastRecovery /\ ~LeavesFastRecovery(popped)
           gapT    == GapTsns(s.cumulativeTsnAck, s.gapAckBlocks)
           newGap  == { t \in gapT \cap DOMAIN infP : ~infP[t].acked }
           infG    == [t \in DOMAIN infP |->
                         IF t \in newGap THEN MarkAsAcked(infP[t]) ELSE infP[t]]
           total   == MapThenSumSet(LAMBDA t : inflightQueue[t].len, newCum \cup newGap)
           htna    == SerialMax(newGap \cup {s.cumulativeTsnAck})
           advanced == SerialLt(cumulativeTsnAckPoint, s.cumulativeTsnAck)
           cc      == IF advanced THEN CumAdvancedCwnd(fr1, total)
                      ELSE [cwnd |-> cwnd, pba |-> partialBytesAcked]
           \* process_fast_retransmission
           scan    == ~fr1 \/ advanced
           maxTsn  == IF ~fr1 THEN htna
                      ELSE Add(s.cumulativeTsnAck, Cardinality(DOMAIN infG) + 1)
           first   == Inc(s.cumulativeTsnAck)
           loopT   == IF scan /\ SerialLt(first, maxTsn)
                      THEN { Add(first, j) : j \in 0..(Dist(first, maxTsn) - 1) }
                      ELSE {}
           missed  == { t \in loopT \cap DOMAIN infG :
                          ~infG[t].acked /\ ~infG[t].abandoned /\ infG[t].missIndicator < 3 }
           infF    == [t \in DOMAIN infG |->
                         IF t \in missed
                         THEN [infG[t] EXCEPT !.missIndicator = @ + 1] ELSE infG[t]]
           enterFR == ~fr1 /\ \E t \in missed : infG[t].missIndicator + 1 = 3
           frSsthresh == Max({cc.cwnd \div 2, 4 * MTU})
           error   == \/ ~PopsSucceed(inflightQueue, k)
                      \/ ~(gapT \subseteq DOMAIN infP)
                      \/ ~(loopT \subseteq DOMAIN infG)
       IN IF error
          THEN /\ aState' = "Closed"
               /\ t3Running' = FALSE
               /\ UNCHANGED <<pendingQueue, inflightQueue, myNextTsn,
                              cumulativeTsnAckPoint, cwnd, ssthresh, rwnd,
                              partialBytesAcked, inFastRecovery, fastRecoverExitPoint,
                              willRetransmitFast, earlyT3, advancedPeerTsnAckPoint,
                              willSendForwardTsn, bVars, toB, fwdToB, losses,
                              dups, appVars>>
          ELSE LET cum == IF advanced THEN s.cumulativeTsnAck ELSE cumulativeTsnAckPoint
                   \* RFC 3758 C1 and C2
                   apta == AdvancePeerAckPoint(infF,
                               IF SerialLt(advancedPeerTsnAckPoint, cum) THEN cum
                               ELSE advancedPeerTsnAckPoint)
               IN
               /\ inflightQueue' = infF
               /\ cumulativeTsnAckPoint' = cum
               /\ IF useForwardTsn
                  THEN /\ advancedPeerTsnAckPoint' = apta
                       \* C3
                       /\ willSendForwardTsn' = (willSendForwardTsn \/ SerialGt(apta, cum))
                  ELSE UNCHANGED <<advancedPeerTsnAckPoint, willSendForwardTsn>>
               /\ rwnd' = NewRwnd(s.arwnd, OutstandingBytes(infG))
               /\ inFastRecovery' = (fr1 \/ enterFR)
               /\ fastRecoverExitPoint' = IF enterFR THEN htna ELSE fastRecoverExitPoint
               /\ ssthresh' = IF enterFR THEN frSsthresh ELSE ssthresh
               /\ cwnd' = IF enterFR THEN frSsthresh ELSE cc.cwnd
               /\ partialBytesAcked' = IF enterFR THEN 0 ELSE cc.pba
               /\ willRetransmitFast' = (willRetransmitFast \/ enterFR
                                         \/ ((fr1 \/ enterFR) /\ advanced))
               /\ t3Running' = T3AfterSack(DOMAIN infF, advanced)
               /\ UNCHANGED <<aState, pendingQueue, myNextTsn, earlyT3, bVars,
                              toB, fwdToB, losses, dups, appVars>>

\* No packet is in transit.
NetEmpty == toB = {} /\ toA = {} /\ fwdToB = {}

\* RFC 3758 A5 on T3-rtx expiry, with use_forward_tsn: C2 and C3.
T3AdvancePeerAckPoint ==
    IF useForwardTsn
    THEN LET apta == AdvancePeerAckPoint(inflightQueue, advancedPeerTsnAckPoint) IN
         /\ advancedPeerTsnAckPoint' = apta
         /\ willSendForwardTsn' = (willSendForwardTsn \/ SerialGt(apta, cumulativeTsnAckPoint))
    ELSE UNCHANGED <<advancedPeerTsnAckPoint, willSendForwardTsn>>

\* mark_all_to_retrasmit: every chunk neither acked nor abandoned is to be
\* retransmitted.
MarkAllToRetransmit(inflight) ==
    [t \in DOMAIN inflight |->
        IF inflight[t].acked \/ inflight[t].abandoned THEN inflight[t]
        ELSE [inflight[t] EXCEPT !.retransmit = TRUE]]

\* Fault variant of AT3Timeout: mark_all_to_retrasmit is not called.
AT3TimeoutNoRetransmit ==
    /\ aState = "Established"
    /\ t3Running
    /\ \/ NetEmpty /\ UNCHANGED earlyT3
       \/ ~NetEmpty /\ earlyT3 < MaxEarlyT3 /\ earlyT3' = earlyT3 + 1
    /\ ssthresh' = Max({cwnd \div 2, 4 * MTU})
    /\ cwnd' = MTU
    /\ T3AdvancePeerAckPoint
    /\ UNCHANGED <<aState, pendingQueue, inflightQueue, myNextTsn, cumulativeTsnAckPoint,
                   rwnd, partialBytesAcked, inFastRecovery, fastRecoverExitPoint,
                   willRetransmitFast, t3Running, bVars, netVars, appVars>>

\* handle_timeout for T3-rtx (on_retransmission_timeout): ssthresh =
\* max(cwnd/2, 4*mtu), cwnd = mtu, with use_forward_tsn the advanced peer
\* ack point moves on (RFC 3758 A5: C2 and C3, without C1), every chunk
\* neither acked nor abandoned is marked for retransmission
\* (mark_all_to_retrasmit), and the timer is restarted.  in_fast_recovery
\* is left as it is.
AT3Timeout ==
    /\ aState = "Established"
    /\ t3Running
    \* an expiry while packets are still in transit races their arrival;
    \* the model explores MaxEarlyT3 of those
    /\ \/ NetEmpty /\ UNCHANGED earlyT3
       \/ ~NetEmpty /\ earlyT3 < MaxEarlyT3 /\ earlyT3' = earlyT3 + 1
    /\ ssthresh' = Max({cwnd \div 2, 4 * MTU})
    /\ cwnd' = MTU
    /\ T3AdvancePeerAckPoint
    /\ inflightQueue' = MarkAllToRetransmit(inflightQueue)
    /\ UNCHANGED <<aState, pendingQueue, myNextTsn, cumulativeTsnAckPoint, rwnd,
                   partialBytesAcked, inFastRecovery, fastRecoverExitPoint,
                   willRetransmitFast, t3Running, bVars, netVars, appVars>>

----------------------------------------------------------------------------
(* The network loses packets, up to MaxLoss of them.                       *)
LoseToB(p) ==
    /\ losses < MaxLoss
    /\ toB' = toB \ {p}
    /\ losses' = losses + 1
    /\ UNCHANGED <<aVars, bVars, toA, fwdToB, dups, appVars>>

LoseToA(s) ==
    /\ losses < MaxLoss
    /\ toA' = toA \ {s}
    /\ losses' = losses + 1
    /\ UNCHANGED <<aVars, bVars, toB, fwdToB, dups, appVars>>

LoseForwardTsn(f) ==
    /\ losses < MaxLoss
    /\ fwdToB' = fwdToB \ {f}
    /\ losses' = losses + 1
    /\ UNCHANGED <<aVars, bVars, toB, toA, dups, appVars>>

\* Every message has been submitted, A holds nothing and nothing is in
\* transit: the association idles with no timer armed.  B's application
\* reads what it can (BAppRead); a message left behind next_ssn stays
\* unread, which ChannelLive is about.
Done ==
    /\ Len(submitted) = Msgs
    /\ pendingQueue = <<>> /\ DOMAIN inflightQueue = {}
    /\ NetEmpty
    /\ UNCHANGED vars

Next ==
    \/ \E len \in MsgLens : SendPayload(len)
    \/ ATransmit
    \/ \E s \in toA : AHandleSack(s)
    \/ AT3Timeout
    \/ \E p \in toB : BHandleData(p)
    \/ \E f \in fwdToB : BHandleForwardTsn(f)
    \/ BAckTimeout
    \/ BTransmitSack
    \/ BAppRead
    \/ \E p \in toB : LoseToB(p)
    \/ \E s \in toA : LoseToA(s)
    \/ \E f \in fwdToB : LoseForwardTsn(f)
    \/ Done

Spec == Init /\ [][Next]_vars

\* State constraint: the model explores networks holding at most
\* MaxInTransit packets in each direction.
NetBound == /\ Cardinality(toB) + Cardinality(fwdToB) <= MaxInTransit
            /\ Cardinality(toA) <= MaxInTransit

\* Fairness: the endpoint's owner keeps calling poll_transmit,
\* handle_timeout and handle_event, an armed timer eventually expires, a
\* packet the network does not lose is eventually delivered, and B's
\* application keeps reading.  Submitting and losing are not fair.
Fairness ==
    /\ WF_vars(ATransmit)
    /\ WF_vars(AT3Timeout)
    /\ WF_vars(\E s \in toA : AHandleSack(s))
    /\ WF_vars(\E p \in toB : BHandleData(p))
    /\ WF_vars(\E f \in fwdToB : BHandleForwardTsn(f))
    /\ WF_vars(BAckTimeout)
    /\ WF_vars(BTransmitSack)
    /\ WF_vars(BAppRead)

FairSpec == Spec /\ Fairness

----------------------------------------------------------------------------
(***************************************************************************)
(* Properties                                                              *)
(***************************************************************************)
TypeOK ==
    /\ aState \in {"Established", "Closed"}
    /\ pendingQueue \in Seq(Message)
    /\ DOMAIN inflightQueue \subseteq Tsn
    /\ \A t \in DOMAIN inflightQueue : inflightQueue[t] \in InflightChunk
    /\ {myNextTsn, cumulativeTsnAckPoint, fastRecoverExitPoint, peerLastTsn} \subseteq Tsn
    /\ {cwnd, ssthresh, rwnd, partialBytesAcked} \subseteq Nat
    /\ {myNextTsn, advancedPeerTsnAckPoint} \subseteq Tsn
    /\ {inFastRecovery, willRetransmitFast, t3Running, ackTimerRunning,
        willSendForwardTsn, useForwardTsn} \subseteq BOOLEAN
    /\ nextSsn \in 0..Msgs /\ streamExists \in BOOLEAN
    /\ fwdToB \subseteq ForwardTsnChunk
    /\ abandonedSsns \subseteq 0..(Msgs - 1)
    /\ payloadQueue \subseteq Tsn
    /\ reassembly \subseteq Message
    /\ ackState \in AckStates
    /\ toB \subseteq Seq(Chunk)
    /\ \A s \in toA : /\ s.cumulativeTsnAck \in Tsn
                      /\ s.arwnd \in 0..MaxReceiveBufferSize
    /\ losses \in 0..MaxLoss /\ dups \in 0..MaxDup /\ earlyT3 \in 0..MaxEarlyT3
    /\ submitted \in Seq(Message) /\ delivered \in Seq(Message)

\* The TSNs B holds: at or below peer_last_tsn (counted from the initial
\* TSN), or queued above it.
ReceivedByB(t) ==
    \/ Dist(initialTsn, t) < Dist(initialTsn, Inc(peerLastTsn))
    \/ t \in payloadQueue

\* A TSN A considers acknowledged (handle_sack popped it from the inflight
\* queue or marked it acked from a gap ack block) has been received by B:
\* no SACK, however old, duplicated or reordered, and however its gap ack
\* blocks are computed, makes A release data B does not hold.
AckedImpliesReceived ==
    /\ \A j \in 0..(Dist(initialTsn, Inc(cumulativeTsnAckPoint)) - 1) :
           ReceivedByB(Add(initialTsn, j))
    /\ \A t \in DOMAIN inflightQueue : inflightQueue[t].acked => ReceivedByB(t)

\* The send pipeline accounts for every message exactly once: the inflight
\* queue holds exactly the TSNs between the cum ack point and my_next_tsn,
\* the chunk with TSN initial + i is message i, and the pending queue is
\* the rest of what was submitted, in order.
InflightAccounting ==
    aState = "Established" =>
    LET sent == Dist(initialTsn, myNextTsn) IN
    /\ DOMAIN inflightQueue
           = { Add(cumulativeTsnAckPoint, j) : j \in 1..(Dist(cumulativeTsnAckPoint, myNextTsn) - 1) }
    /\ \A t \in DOMAIN inflightQueue :
           /\ Dist(initialTsn, t) < sent
           /\ [ssn |-> inflightQueue[t].ssn, len |-> inflightQueue[t].len]
                  = submitted[Dist(initialTsn, t) + 1]
    /\ sent <= Len(submitted)
    /\ pendingQueue = SubSeq(submitted, sent + 1, Len(submitted))

\* handle_sack never fails on a SACK the peer sent: the association is not
\* closed by ErrInflightQueueTsnPop or ErrTsnRequestNotExist.
NoProtocolError == aState = "Established"

\* While in fast recovery cwnd equals ssthresh (spec invariant 6); T3-rtx
\* expiry sets cwnd to one MTU without leaving fast recovery.
FastRecoveryCwnd == inFastRecovery => cwnd = ssthresh

\* Fast recovery can end: while in it, the exit point is a TSN still in
\* the inflight queue, whose pop by a later SACK ends fast recovery.
FastRecoveryExitOutstanding ==
    inFastRecovery => fastRecoverExitPoint \in DOMAIN inflightQueue

\* No packet A sends exceeds the MTU counting the common header and each
\* DATA chunk's header (bundle_data_chunks_into_packets).
PacketSize(p) ==
    CommonHeaderSize + MapThenSumSet(LAMBDA k : DataChunkHeaderSize + p[k].len, DOMAIN p)
PacketWithinMtu == \A p \in toB : PacketSize(p) <= MTU

\* A chunk marked acked (or cumulatively acked) is never sent again: the
\* retransmission, zero window probe and fast retransmission paths skip
\* it even after a T3-rtx expiry marked everything for retransmission.
NeverResendAcked ==
    [][\A p \in toB' \ toB : \A k \in DOMAIN p :
          /\ p[k].tsn \in DOMAIN inflightQueue => ~inflightQueue[p[k].tsn].acked
          /\ Dist(initialTsn, p[k].tsn) >= Dist(initialTsn, Inc(cumulativeTsnAckPoint))
      ]_vars

\* The association implements the ordered stream's channel: B's
\* application reads submitted messages once each and in order, and
\* passes over a message (after a FORWARD-TSN) only if A abandoned it.
\* Without Forward TSN nothing is abandoned and every message is read.
Channel == INSTANCE PartiallyReliableChannel
               WITH submitted <- submitted, delivered <- delivered,
                    abandoned <- abandonedSsns
ChannelSafe == Channel!SafeSpec
\* ... and, under the fairness above, reads every message A does not
\* abandon.
ChannelLive == Channel!Spec

\* Every submitted message is eventually acknowledged: the inflight and
\* pending queues drain and T3-rtx is stopped for good.
SenderQuiesces ==
    <>[](pendingQueue = <<>> /\ DOMAIN inflightQueue = {} /\ ~t3Running)

=============================================================================
