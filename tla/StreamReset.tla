----------------------------- MODULE StreamReset -----------------------------
(***************************************************************************)
(* Outgoing stream reset (RFC 6525) between two established associations, *)
(* as association/mod.rs does it.  Resetting a stream queues a zero-length *)
(* DATA chunk (send_reset_request); gather_outbound pops it with the DATA  *)
(* before it and sends a RECONFIG carrying an Outgoing SSN Reset Request   *)
(* whose sender_last_tsn is the last TSN assigned, kept in reconfigs for   *)
(* the Reconfig timer.  The peer performs the request once peer_last_tsn   *)
(* reaches sender_last_tsn (reset_streams_if_any), answering with a        *)
(* mirrored request for the streams it closed and a Reconfig Response, or  *)
(* stores it, answers InProgress and retries on every peer_last_tsn        *)
(* advance (handle_peer_last_tsn_and_acknowledgement).  The network loses, *)
(* duplicates and reorders packets; DATA the peer has not received is      *)
(* eventually sent again (T3-rtx).  Congestion and receive windows are     *)
(* abstracted to how many DATA chunks a gather may send.                   *)
(***************************************************************************)
EXTENDS Integers, Sequences, FiniteSets

CONSTANTS
    Streams,            \* stream identifiers open at both endpoints
    Requesters,         \* endpoints whose application resets streams
    MaxWrites,          \* messages each application writes
    MaxLoss,            \* packets the network loses
    MaxDup,             \* packets the network duplicates
    MaxEarly,           \* Reconfig expiries while packets are in transit
    MaxFaults,          \* bound on losses, duplicates and early expiries together
    MaxReconfigRetrans  \* the Reconfig timer's retransmission limit

ASSUME /\ Requesters \subseteq {"a", "b"}
       /\ {MaxWrites, MaxLoss, MaxDup, MaxEarly, MaxFaults, MaxReconfigRetrans} \subseteq Nat

Endpoints == {"a", "b"}
Peer(e) == IF e = "a" THEN "b" ELSE "a"

\* reconfig_response_sequence_number left at its default in a new request.
NoRsn == 0

VARIABLES
    ep,          \* endpoint -> the Association fields modelled
    net,         \* packets in transit, one chunk each
    losses, dups, early,
    written,     \* endpoint -> the streams its application wrote to, in order
    resetAt,     \* endpoint -> stream -> messages written when it was reset
    sentData     \* endpoint -> the DATA chunks it assigned TSNs: [w, tsn, sid]

vars == <<ep, net, losses, dups, early, written, resetAt, sentData>>

\* Losses, duplicates and early expiries together stay below MaxFaults.
FaultBudget == losses + dups + early < MaxFaults

\* The streams an endpoint's application has reset.
ResetCalled(e) == { s \in Streams : resetAt[e][s] # -1 }

DataMsg(to, d) == [type |-> "DATA", to |-> to, tsn |-> d.tsn, sid |-> d.sid, w |-> d.w]
ReqMsg(to, r) == [type |-> "REQ", to |-> to, req |-> r]
RespMsg(to, rsn, result) == [type |-> "RESP", to |-> to, rsn |-> rsn, result |-> result]

(***************************************************************************)
(* Association::new, then both applications open the same streams (open_  *)
(* stream); the initial TSN and RSN are both 1 (my_next_rsn starts at the  *)
(* initial TSN) and the peer's initial TSN is 1.                          *)
(***************************************************************************)
Init ==
    /\ ep = [e \in Endpoints |->
               [streams |-> Streams, pendingQueue |-> << >>,
                myNextTsn |-> 1, myNextRsn |-> 1,
                peerLastTsn |-> 0, payloadQueue |-> {},
                reconfigs |-> {}, reconfigRequests |-> {},
                timer |-> [running |-> FALSE, nRtos |-> 0],
                willRetransmitReconfig |-> FALSE,
                performed |-> {}]]
    /\ net = {}
    /\ losses = 0 /\ dups = 0 /\ early = 0
    /\ written = [e \in Endpoints |-> << >>]
    /\ resetAt = [e \in Endpoints |-> [s \in Streams |-> -1]]
    /\ sentData = [e \in Endpoints |-> {}]

\* send_payload_data: the application writes one message to an open stream
\* it has not reset; the chunk joins pending_queue.
SendPayloadData(e, s) ==
    /\ Len(written[e]) < MaxWrites
    /\ s \in ep[e].streams /\ s \notin ResetCalled(e)
    /\ written' = [written EXCEPT ![e] = Append(@, s)]
    /\ ep' = [ep EXCEPT ![e].pendingQueue =
                 Append(@, [sid |-> s, w |-> Len(written[e]) + 1])]
    /\ UNCHANGED <<net, losses, dups, early, resetAt, sentData>>

\* send_reset_request: a DATA chunk with no user data marks the end of the
\* stream in pending_queue (w = 0 stands for the empty user_data).
SendResetRequest(e, s) ==
    /\ e \in Requesters
    /\ s \in ep[e].streams /\ s \notin ResetCalled(e)
    /\ resetAt' = [resetAt EXCEPT ![e][s] = Len(written[e])]
    /\ ep' = [ep EXCEPT ![e].pendingQueue = Append(@, [sid |-> s, w |-> 0])]
    /\ UNCHANGED <<net, losses, dups, early, written, sentData>>

IsData(c) == c.w # 0

(***************************************************************************)
(* pop_pending_data_chunks_to_send when cwnd and rwnd let k DATA chunks    *)
(* go: it pops the queue up to the (k+1)-th DATA chunk, where the window   *)
(* check breaks the loop; each end-of-stream marker on the way is popped   *)
(* into sis_to_reset and the loop continues.                               *)
(***************************************************************************)
PopPendingDataChunksToSend(q, k) ==
    LET dataAt == { i \in DOMAIN q : IsData(q[i]) }
        cut == IF k < Cardinality(dataAt)
               THEN CHOOSE i \in dataAt : Cardinality({j \in dataAt : j < i}) = k
               ELSE Len(q) + 1
        popped == SubSeq(q, 1, cut - 1)
    IN [chunks |-> SelectSeq(popped, IsData),
        sisToReset |-> { popped[i].sid : i \in { i \in DOMAIN popped : ~IsData(popped[i]) } },
        rest |-> SubSeq(q, cut, Len(q))]

(***************************************************************************)
(* gather_outbound_data_and_reconfig_packets: the popped DATA chunks get   *)
(* the next TSNs (move_pending_data_chunk_to_inflight_queue) and go out.   *)
(* Then, if streams are to be reset or the Reconfig timer asked for it,    *)
(* every stored request is resent (will_retransmit_reconfig), a new        *)
(* request for sis_to_reset with sender_last_tsn = my_next_tsn - 1 is      *)
(* stored and sent, and the Reconfig timer starts while requests remain.   *)
(***************************************************************************)
\* Fault variant of NewResetRequest: sender_last_tsn read before the pop.
NewResetRequestStaleTsn(s, sis, nextTsn) ==
    [rsn |-> s.myNextRsn, respRsn |-> NoRsn, senderLastTsn |-> s.myNextTsn - 1, sids |-> sis]

\* The Outgoing SSN Reset Request gather_outbound builds for sis_to_reset,
\* once the popped DATA chunks took their TSNs.
NewResetRequest(s, sis, nextTsn) ==
    [rsn |-> s.myNextRsn, respRsn |-> NoRsn, senderLastTsn |-> nextTsn - 1, sids |-> sis]

GatherOutboundDataAndReconfigPackets(e, k) ==
    LET s == ep[e]
        p == PopPendingDataChunksToSend(s.pendingQueue, k)
        chunks == { [w |-> p.chunks[i].w, tsn |-> s.myNextTsn + i - 1, sid |-> p.chunks[i].sid]
                    : i \in DOMAIN p.chunks }
        nextTsn == s.myNextTsn + Len(p.chunks)
        resend == IF s.willRetransmitReconfig THEN s.reconfigs ELSE {}
        new == IF p.sisToReset = {} THEN {}
               ELSE {NewResetRequest(s, p.sisToReset, nextTsn)}
        reconfigs == s.reconfigs \cup new
        reconfigStep == p.sisToReset # {} \/ s.willRetransmitReconfig
    IN /\ p.rest # s.pendingQueue \/ s.willRetransmitReconfig
       /\ ep' = [ep EXCEPT ![e] =
                   [s EXCEPT !.pendingQueue = p.rest, !.myNextTsn = nextTsn,
                             !.myNextRsn = @ + Cardinality(new),
                             !.reconfigs = reconfigs,
                             !.willRetransmitReconfig = FALSE,
                             !.timer.running = @ \/ (reconfigStep /\ reconfigs # {})]]
       /\ net' = net \cup { DataMsg(Peer(e), d) : d \in chunks }
                     \cup { ReqMsg(Peer(e), r) : r \in resend \cup new }
       /\ sentData' = [sentData EXCEPT ![e] = @ \cup chunks]
       /\ UNCHANGED <<losses, dups, early, written, resetAt>>

\* A DATA chunk e sent that its peer has not received is sent again: the
\* T3-rtx expiry marks it (mark_all_to_retrasmit) and
\* get_data_packets_to_retransmit resends it.
RetransmitData(e, d) ==
    /\ d \in sentData[e]
    /\ d.tsn > ep[Peer(e)].peerLastTsn /\ d.tsn \notin ep[Peer(e)].payloadQueue
    /\ DataMsg(Peer(e), d) \notin net
    /\ net' = net \cup {DataMsg(Peer(e), d)}
    /\ UNCHANGED <<ep, losses, dups, early, written, resetAt, sentData>>

(***************************************************************************)
(* reset_streams_if_any on endpoint state s.  When sender_last_tsn is at   *)
(* or below peer_last_tsn, every listed stream still registered is        *)
(* unregistered (and, if respond, answered with a mirrored request,       *)
(* stored in reconfigs) and the request leaves reconfig_requests; else    *)
(* the result is InProgress.  A Reconfig Response always goes out.        *)
(***************************************************************************)
ResetStreamsIfAny(s, e, p, respond) ==
    LET perform == p.senderLastTsn <= s.peerLastTsn
        sisToReset == IF perform /\ respond THEN p.sids \cap s.streams ELSE {}
        mirror == [rsn |-> s.myNextRsn, respRsn |-> p.rsn,
                   senderLastTsn |-> s.myNextTsn - 1, sids |-> sisToReset]
        s1 == IF perform
              THEN [s EXCEPT !.streams = @ \ p.sids,
                             !.reconfigRequests = { r \in @ : r.rsn # p.rsn },
                             !.performed = @ \cup {p}]
              ELSE s
    IN IF sisToReset = {}
       THEN [s |-> s1,
             out |-> {RespMsg(Peer(e), p.rsn, IF perform THEN "SuccessPerformed" ELSE "InProgress")}]
       ELSE [s |-> [s1 EXCEPT !.myNextRsn = @ + 1, !.reconfigs = @ \cup {mirror}],
             out |-> {ReqMsg(Peer(e), mirror), RespMsg(Peer(e), p.rsn, "SuccessPerformed")}]

\* Fault variant of RetryResetRequests: stored requests are never retried.
RetryResetRequestsNone(r, e, reqs) == r

\* The stored requests retried after one advance of peer_last_tsn, one at
\* a time without responding (the HashMap's order: with respond false no
\* outcome depends on it).
RECURSIVE RetryResetRequests(_, _, _)
RetryResetRequests(r, e, reqs) ==
    IF reqs = {} THEN r
    ELSE LET p == CHOOSE x \in reqs : TRUE
             r1 == ResetStreamsIfAny(r.s, e, p, FALSE)
         IN RetryResetRequests([s |-> r1.s, out |-> r.out \cup r1.out], e, reqs \ {p})

\* The loop of handle_peer_last_tsn_and_acknowledgement: pop peer_last_tsn
\* + 1 while it was received, retrying every stored request after each pop.
RECURSIVE HandlePeerLastTsnAndAcknowledgement(_, _)
HandlePeerLastTsnAndAcknowledgement(r, e) ==
    LET s == r.s IN
    IF s.peerLastTsn + 1 \notin s.payloadQueue THEN r
    ELSE LET s1 == [s EXCEPT !.payloadQueue = @ \ {s.peerLastTsn + 1},
                             !.peerLastTsn = @ + 1]
         IN HandlePeerLastTsnAndAcknowledgement(
                RetryResetRequests([s |-> s1, out |-> r.out], e, s1.reconfigRequests), e)

\* Fault variant of CanPush: a TSN at or below peer_last_tsn is accepted.
CanPushAnyTsn(q, tsn, peerLastTsn) == tsn \notin q

\* payload_queue.can_push: above peer_last_tsn and not queued yet.
CanPush(q, tsn, peerLastTsn) == tsn > peerLastTsn /\ tsn \notin q

\* handle_data: a TSN can_push accepts (above peer_last_tsn, not queued)
\* re-creates its stream if it is gone (get_or_create_stream) and is
\* queued; then the pop loop runs.  The receive window is not modelled.
HandleData(s, e, m) ==
    LET s1 == IF CanPush(s.payloadQueue, m.tsn, s.peerLastTsn)
             THEN [s EXCEPT !.streams = @ \cup {m.sid}, !.payloadQueue = @ \cup {m.tsn}]
             ELSE s
    IN HandlePeerLastTsnAndAcknowledgement([s |-> s1, out |-> {}], e)

\* handle_reconfig_param for an Outgoing SSN Reset Request: store it under
\* its RSN (replacing one with the same RSN), then reset_streams_if_any.
HandleResetRequest(s, e, p) ==
    ResetStreamsIfAny([s EXCEPT !.reconfigRequests = { r \in @ : r.rsn # p.rsn } \cup {p}],
                      e, p, TRUE)

\* handle_reconfig_param for a Reconfig Response: whatever its result, the
\* request it answers leaves reconfigs; the timer stops when none remain.
HandleReconfigResponse(s, m) ==
    LET reconfigs == { c \in s.reconfigs : c.rsn # m.rsn }
    IN [s |-> [s EXCEPT !.reconfigs = reconfigs,
                        !.timer = IF reconfigs = {} THEN [running |-> FALSE, nRtos |-> 0]
                                  ELSE @],
        out |-> {}]

\* handle_chunk for the chunk of a packet addressed to e.  The network may
\* keep a copy of the packet (a duplicate).
Deliver(e, m, r) ==
    /\ ep' = [ep EXCEPT ![e] = r.s]
    /\ \/ net' = (net \ {m}) \cup r.out /\ UNCHANGED dups
       \/ dups < MaxDup /\ FaultBudget /\ net' = net \cup r.out /\ dups' = dups + 1
    /\ UNCHANGED <<losses, early, written, resetAt, sentData>>

ReceiveData(e, m) ==
    /\ m.to = e /\ m.type = "DATA"
    /\ Deliver(e, m, HandleData(ep[e], e, m))

ReceiveResetRequest(e, m) ==
    /\ m.to = e /\ m.type = "REQ"
    /\ Deliver(e, m, HandleResetRequest(ep[e], e, m.req))

ReceiveReconfigResponse(e, m) ==
    /\ m.to = e /\ m.type = "RESP"
    /\ Deliver(e, m, HandleReconfigResponse(ep[e], m))

(***************************************************************************)
(* handle_timeout for the Reconfig timer.  Past MaxReconfigRetrans        *)
(* expiries it is a failure (on_retransmission_failure does nothing for   *)
(* it) and the timer stays off; otherwise on_retransmission_timeout sets  *)
(* will_retransmit_reconfig and the timer restarts.                       *)
(***************************************************************************)
ReconfigFailure(s) == s.timer.nRtos >= MaxReconfigRetrans

\* The owner drains poll_transmit after each call, and an RTO is long beside
\* a round trip: the timer expires when nothing is in transit or waiting to
\* be sent; an expiry racing packets is one of at most MaxEarly.
OutboundDrained(e) == ep[e].pendingQueue = << >> /\ ~ep[e].willRetransmitReconfig

Quiet == net = {} /\ \A x \in Endpoints : OutboundDrained(x)

HandleReconfigTimeout(e) ==
    /\ ep[e].timer.running
    /\ OutboundDrained(e)
    /\ \/ Quiet /\ UNCHANGED early
       \/ ~Quiet /\ early < MaxEarly /\ FaultBudget /\ early' = early + 1
    /\ ep' = [ep EXCEPT ![e] =
                IF ReconfigFailure(@) THEN [@ EXCEPT !.timer.running = FALSE]
                ELSE [@ EXCEPT !.timer.nRtos = @ + 1, !.willRetransmitReconfig = TRUE]]
    /\ UNCHANGED <<net, losses, dups, written, resetAt, sentData>>

\* The network loses a packet, up to MaxLoss of them.
Lose(m) ==
    /\ losses < MaxLoss /\ FaultBudget
    /\ net' = net \ {m}
    /\ losses' = losses + 1
    /\ UNCHANGED <<ep, dups, early, written, resetAt, sentData>>

Next ==
    \/ \E e \in Endpoints, s \in Streams : SendPayloadData(e, s)
    \/ \E e \in Endpoints, s \in Streams : SendResetRequest(e, s)
    \/ \E e \in Endpoints, k \in 0..MaxWrites : GatherOutboundDataAndReconfigPackets(e, k)
    \/ \E e \in Endpoints, d \in UNION {sentData[x] : x \in Endpoints} : RetransmitData(e, d)
    \/ \E e \in Endpoints, m \in net : ReceiveData(e, m)
    \/ \E e \in Endpoints, m \in net : ReceiveResetRequest(e, m)
    \/ \E e \in Endpoints, m \in net : ReceiveReconfigResponse(e, m)
    \/ \E e \in Endpoints : HandleReconfigTimeout(e)
    \/ \E m \in net : Lose(m)

Spec == Init /\ [][Next]_vars

\* The owner of each endpoint keeps calling handle_event, poll_transmit and
\* handle_timeout, so a packet in transit is handled, pending chunks are
\* gathered once cwnd and rwnd open, DATA the peer misses is resent after
\* T3-rtx, and a running Reconfig timer expires.
FairSpec ==
    /\ Spec
    /\ \A e \in Endpoints :
         /\ WF_vars(GatherOutboundDataAndReconfigPackets(e, MaxWrites))
         /\ WF_vars(\E d \in sentData[e] : RetransmitData(e, d))
         /\ WF_vars(\E m \in net : \/ ReceiveData(e, m)
                                   \/ ReceiveResetRequest(e, m)
                                   \/ ReceiveReconfigResponse(e, m))
         /\ WF_vars(HandleReconfigTimeout(e))

-----------------------------------------------------------------------------
(* Properties.                                                             *)

Request == [rsn : Nat, respRsn : Nat, senderLastTsn : Nat, sids : SUBSET Streams]

TypeOK ==
    /\ \A e \in Endpoints :
         /\ ep[e].streams \subseteq Streams
         /\ ep[e].peerLastTsn \in Nat /\ ep[e].payloadQueue \subseteq Nat
         /\ \A t \in ep[e].payloadQueue : t > ep[e].peerLastTsn
         /\ ep[e].reconfigs \subseteq Request /\ ep[e].reconfigRequests \subseteq Request
         /\ ep[e].timer.nRtos \in 0..MaxReconfigRetrans
    /\ losses \in 0..MaxLoss /\ dups \in 0..MaxDup /\ early \in 0..MaxEarly

\* The DATA chunk carrying the w-th message e's application wrote, once it
\* has a TSN.
Carrying(e, w) == { d \in sentData[e] : d.w = w }

\* A receiver performs a peer's reset request (unregisters the stream) only
\* after it has received every message the peer wrote to that stream before
\* calling reset: the request's sender_last_tsn, taken by gather_outbound
\* after the marker left pending_queue behind those messages, covers them,
\* and reset_streams_if_any waits for peer_last_tsn to reach it, however
\* the DATA and the RECONFIG are lost, duplicated or reordered.
ResetAfterData ==
    \A e \in Endpoints : \A p \in ep[e].performed :
      p.respRsn = NoRsn =>
        \A w \in 1..Len(written[Peer(e)]) :
          LET s == written[Peer(e)][w] IN
          s \in p.sids /\ w <= resetAt[Peer(e)][s] =>
            \E d \in Carrying(Peer(e), w) : d.tsn <= ep[e].peerLastTsn

\* A stream an application resets is eventually gone for good at the peer:
\* the request is retransmitted on Reconfig expiries until answered, a
\* deferred request is retried on each peer_last_tsn advance, and no later
\* DATA re-creates the stream.
PeerResetApplied ==
    \A e \in Requesters, s \in Streams :
      <>[](s \in ResetCalled(e) => s \notin ep[Peer(e)].streams)

\* A stream an application resets is eventually closed at both endpoints
\* (spec.md 2: destroyed when both sides have reset): the peer answers
\* with a mirrored request that closes it at the requester too.
ResetCompletes ==
    \A e \in Requesters, s \in Streams :
      <>[](s \in ResetCalled(e) => s \notin ep[Peer(e)].streams \cup ep[e].streams)
=============================================================================
