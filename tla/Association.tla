---------------------------- MODULE Association -----------------------------
(***************************************************************************)
(* The life cycle of an association (src/association/mod.rs): the four-way *)
(* handshake, data exchange reduced to what shutdown depends on, the       *)
(* graceful shutdown, close(), and the T1-init, T1-cookie, T2-shutdown and *)
(* T3-rtx timers, between a client and a server over a network that loses,*)
(* duplicates and reorders packets.                                        *)
(*                                                                         *)
(* Each endpoint is a record ep[e] of the Association fields the life      *)
(* cycle reads and writes.  A packet carries one chunk.  Control packets   *)
(* a handler returns, and the INIT and COOKIE-ECHO of send_init and        *)
(* send_cookie_echo, join the control queue, which the next poll_transmit  *)
(* drains whatever the state; they go straight to the network here.        *)
(* DATA is reduced to message numbers: what is in flight, marked for       *)
(* retransmission, received and acknowledged.  Congestion control and the  *)
(* TSN arithmetic are the subject of DataTransfer.                         *)
(***************************************************************************)
EXTENDS Integers, FiniteSets

CONSTANTS
    DataSenders,    \* endpoints whose application sends messages
    MaxData,        \* messages each of them sends
    MaxRetrans,     \* retransmissions before T1/T2 report failure
    MaxLoss,        \* bound on packets the network loses
    MaxDup,         \* bound on packets the network duplicates
    MaxEarly,       \* bound on timer expiries while packets are in transit
    MaxFaults       \* bound on losses, duplicates and early expiries together

ASSUME DataSenders \subseteq {"client", "server"}
ASSUME MaxData \in Nat /\ MaxRetrans \in Nat \ {0}
ASSUME {MaxLoss, MaxDup, MaxEarly, MaxFaults} \subseteq Nat

Endpoints == {"client", "server"}
Peer(e) == IF e = "client" THEN "server" ELSE "client"

States == {"Closed", "CookieWait", "CookieEchoed", "Established", "ShutdownPending",
           "ShutdownSent", "ShutdownReceived", "ShutdownAckSent"}
RtxTimers == {"T1Init", "T1Cookie", "T2Shutdown"}
Msg == 0..(MaxData - 1)
ChunkTypes == {"INIT", "INIT_ACK", "COOKIE_ECHO", "COOKIE_ACK", "DATA", "SACK",
               "SHUTDOWN", "SHUTDOWN_ACK", "SHUTDOWN_COMPLETE"}

VARIABLES
    ep,         \* endpoint -> the Association fields modelled
    net,        \* packets in transit
    losses, dups, early

vars == <<ep, net, losses, dups, early>>

\* Losses, duplicates and early expiries together stay below MaxFaults.
FaultBudget == losses + dups + early < MaxFaults

\* A packet from endpoint e with one chunk.  DATA carries a message
\* number, a SACK the set of message numbers received.
Pkt(e, type) == [src |-> e, type |-> type, msg |-> 0, acked |-> {}]
DataPkt(e, m) == [Pkt(e, "DATA") EXCEPT !.msg = m]
SackPkt(e, r) == [Pkt(e, "SACK") EXCEPT !.acked = r]

Packet == [src : Endpoints, type : ChunkTypes, msg : Msg \cup {0}, acked : SUBSET Msg]

StoppedTimers == [t \in RtxTimers |-> [running |-> FALSE, nRtos |-> 0]]

\* self.timers.start(t, ...) arms a timer keeping its count of expiries
\* (the back-off and the retransmission limit); stop disarms and resets it.
StartTimer(s, t) == [s EXCEPT !.timers[t].running = TRUE]
StopTimer(s, t) == [s EXCEPT !.timers[t] = [running |-> FALSE, nRtos |-> 0]]

(***************************************************************************)
(* Association::new.  The client stores its INIT, sends it and starts      *)
(* T1-init in CookieWait; a server association starts Closed.             *)
(***************************************************************************)
NewAssociation(e) ==
    [state                    |-> IF e = "client" THEN "CookieWait" ELSE "Closed",
     handshakeCompleted       |-> FALSE,
     myCookie                 |-> FALSE,
     storedInit               |-> e = "client",
     storedCookieEcho         |-> FALSE,
     timers                   |-> IF e = "client"
                                  THEN [StoppedTimers EXCEPT !["T1Init"].running = TRUE]
                                  ELSE StoppedTimers,
     t3Running                |-> FALSE,
     willSendShutdown         |-> FALSE,
     willSendShutdownAck      |-> FALSE,
     willSendShutdownComplete |-> FALSE,
     submitted                |-> 0,     \* messages given to send_payload_data
     pending                  |-> {},    \* pending_queue
     inflight                 |-> {},    \* inflight_queue
     retransmit               |-> {},    \* inflight chunks marked by T3-rtx
     received                 |-> {},    \* peer messages taken by handle_data
     ackPending               |-> FALSE, \* ack_state is Immediate
     connected                |-> 0,     \* Event::Connected pushed
     error                    |-> "None",
     drained                  |-> FALSE, \* EndpointEventInner::Drained pushed
     closedBy                 |-> "None"] \* history: what closed the association

\* close(): Closed, all timers stopped (streams unregistered); why is
\* recorded for the properties.
Close(s, why) ==
    IF s.state # "Closed"
    THEN [s EXCEPT !.state = "Closed", !.timers = StoppedTimers, !.t3Running = FALSE,
                   !.closedBy = why]
    ELSE s

(***************************************************************************)
(* Chunk handlers of handle_chunk.  Each returns the endpoint's new record *)
(* s, the packets it answers with (out), and whether it returned an error  *)
(* (err), on which handle_event close()s the association.                  *)
(***************************************************************************)
Result(s, out, err) == [s |-> s, out |-> out, err |-> err]

\* handle_init: an INIT outside Closed, CookieWait and CookieEchoed is
\* ErrHandleInitState.  Otherwise answer an INIT-ACK with the cookie,
\* creating the cookie on the first INIT.
HandleInit(s, e) ==
    IF s.state \notin {"Closed", "CookieWait", "CookieEchoed"}
    THEN Result(s, {}, TRUE)
    ELSE Result([s EXCEPT !.myCookie = TRUE], {Pkt(e, "INIT_ACK")}, FALSE)

\* Fault variant of HandleInitAck: T1-cookie is not started.
HandleInitAckNoT1Cookie(s, e) ==
    IF s.state # "CookieWait" THEN Result(s, {}, FALSE)
    ELSE Result([StopTimer(s, "T1Init")
                   EXCEPT !.storedInit = FALSE, !.storedCookieEcho = TRUE,
                          !.state = "CookieEchoed"],
                {Pkt(e, "COOKIE_ECHO")}, FALSE)

\* handle_init_ack: dropped outside CookieWait; otherwise stop T1-init,
\* send the COOKIE-ECHO, start T1-cookie and enter CookieEchoed.  (The
\* server's INIT-ACK always carries its cookie.)
HandleInitAck(s, e) ==
    IF s.state # "CookieWait" THEN Result(s, {}, FALSE)
    ELSE Result([StartTimer(StopTimer(s, "T1Init"), "T1Cookie")
                   EXCEPT !.storedInit = FALSE, !.storedCookieEcho = TRUE,
                          !.state = "CookieEchoed"],
                {Pkt(e, "COOKIE_ECHO")}, FALSE)

\* handle_cookie_echo: with no cookie issued, dropped.  In Established a
\* matching cookie is only answered; in Closed, CookieWait or CookieEchoed
\* it stops both T1 timers, pushes Connected and enters Established.
\* Any other state drops it.
HandleCookieEcho(s, e) ==
    IF ~s.myCookie \/ s.state \notin {"Established", "Closed", "CookieWait", "CookieEchoed"}
    THEN Result(s, {}, FALSE)
    ELSE IF s.state = "Established"
    THEN Result(s, {Pkt(e, "COOKIE_ACK")}, FALSE)
    ELSE Result([StopTimer(StopTimer(s, "T1Init"), "T1Cookie")
                   EXCEPT !.storedInit = FALSE, !.storedCookieEcho = FALSE,
                          !.connected = @ + 1, !.state = "Established",
                          !.handshakeCompleted = TRUE],
                {Pkt(e, "COOKIE_ACK")}, FALSE)

\* handle_cookie_ack: dropped outside CookieEchoed.
HandleCookieAck(s) ==
    IF s.state # "CookieEchoed" THEN Result(s, {}, FALSE)
    ELSE Result([StopTimer(s, "T1Cookie")
                   EXCEPT !.storedCookieEcho = FALSE, !.connected = @ + 1,
                          !.state = "Established", !.handshakeCompleted = TRUE],
                {}, FALSE)

\* handle_data, in any state: the message is taken and an ack is due.
HandleData(s, m) ==
    Result([s EXCEPT !.received = @ \cup {m}, !.ackPending = TRUE], {}, FALSE)

(***************************************************************************)
(* handle_sack: ignored outside Established, ShutdownPending and           *)
(* ShutdownReceived.  Acked messages leave the inflight queue; then        *)
(* postprocess_sack: with nothing in flight, ShutdownPending moves to      *)
(* ShutdownSent (SHUTDOWN due) and ShutdownReceived to ShutdownAckSent     *)
(* (SHUTDOWN-ACK due).                                                     *)
(***************************************************************************)
HandleSack(s, acked) ==
    IF s.state \notin {"Established", "ShutdownPending", "ShutdownReceived"}
    THEN Result(s, {}, FALSE)
    ELSE LET s0 == [s EXCEPT !.inflight = @ \ acked, !.retransmit = @ \ acked]
             \* T3-rtx stops once nothing is in flight, else is restarted
             s1 == [s0 EXCEPT !.t3Running = s0.inflight # {}]
         IN Result(IF s1.inflight # {} THEN s1
                   ELSE IF s1.state = "ShutdownPending"
                   THEN [s1 EXCEPT !.willSendShutdown = TRUE, !.state = "ShutdownSent"]
                   ELSE IF s1.state = "ShutdownReceived"
                   THEN [s1 EXCEPT !.willSendShutdownAck = TRUE, !.state = "ShutdownAckSent"]
                   ELSE s1,
                   {}, FALSE)

\* handle_shutdown: in Established, wait for the inflight queue to drain
\* (ShutdownReceived) or answer at once (ShutdownAckSent); in ShutdownSent,
\* answer (ShutdownAckSent).  Other states ignore it.
HandleShutdown(s) ==
    Result(CASE s.state = "Established" /\ s.inflight # {} ->
                    [s EXCEPT !.state = "ShutdownReceived"]
             [] s.state \in {"Established", "ShutdownSent"} ->
                    [s EXCEPT !.willSendShutdownAck = TRUE, !.state = "ShutdownAckSent"]
             [] OTHER -> s,
           {}, FALSE)

\* handle_shutdown_ack: in ShutdownSent or ShutdownAckSent stop T2 and make
\* SHUTDOWN-COMPLETE due.  The state is left as it is.
HandleShutdownAck(s) ==
    IF s.state \in {"ShutdownSent", "ShutdownAckSent"}
    THEN Result([StopTimer(s, "T2Shutdown") EXCEPT !.willSendShutdownComplete = TRUE],
                {}, FALSE)
    ELSE Result(s, {}, FALSE)

\* handle_shutdown_complete: in ShutdownAckSent stop T2 and close().
HandleShutdownComplete(s) ==
    IF s.state = "ShutdownAckSent"
    THEN Result(Close(StopTimer(s, "T2Shutdown"), "ShutdownComplete"), {}, FALSE)
    ELSE Result(s, {}, FALSE)

\* handle_chunk: dispatch on the chunk type.
HandleChunk(s, e, p) ==
    CASE p.type = "INIT"              -> HandleInit(s, e)
      [] p.type = "INIT_ACK"          -> HandleInitAck(s, e)
      [] p.type = "COOKIE_ECHO"       -> HandleCookieEcho(s, e)
      [] p.type = "COOKIE_ACK"        -> HandleCookieAck(s)
      [] p.type = "DATA"              -> HandleData(s, p.msg)
      [] p.type = "SACK"              -> HandleSack(s, p.acked)
      [] p.type = "SHUTDOWN"          -> HandleShutdown(s)
      [] p.type = "SHUTDOWN_ACK"      -> HandleShutdownAck(s)
      [] p.type = "SHUTDOWN_COMPLETE" -> HandleShutdownComplete(s)

\* Fault variant of GatherOutboundShutdownPackets: SHUTDOWN-ACK does not
\* arm T2-shutdown.
GatherOutboundShutdownPacketsNoT2(s, e) ==
    CASE s.willSendShutdown ->
            [s |-> StartTimer([s EXCEPT !.willSendShutdown = FALSE], "T2Shutdown"),
             out |-> {Pkt(e, "SHUTDOWN")}]
      [] s.willSendShutdownAck ->
            [s |-> [s EXCEPT !.willSendShutdownAck = FALSE],
             out |-> {Pkt(e, "SHUTDOWN_ACK")}]
      [] s.willSendShutdownComplete ->
            [s |-> [s EXCEPT !.willSendShutdownComplete = FALSE],
             out |-> {Pkt(e, "SHUTDOWN_COMPLETE")}]
      [] OTHER -> [s |-> s, out |-> {}]

(***************************************************************************)
(* gather_outbound_shutdown_packets: at most one of SHUTDOWN (arming T2),  *)
(* SHUTDOWN-ACK (arming T2) and SHUTDOWN-COMPLETE, in that priority.       *)
(***************************************************************************)
GatherOutboundShutdownPackets(s, e) ==
    CASE s.willSendShutdown ->
            [s |-> StartTimer([s EXCEPT !.willSendShutdown = FALSE], "T2Shutdown"),
             out |-> {Pkt(e, "SHUTDOWN")}]
      [] s.willSendShutdownAck ->
            [s |-> StartTimer([s EXCEPT !.willSendShutdownAck = FALSE], "T2Shutdown"),
             out |-> {Pkt(e, "SHUTDOWN_ACK")}]
      [] s.willSendShutdownComplete ->
            [s |-> [s EXCEPT !.willSendShutdownComplete = FALSE],
             out |-> {Pkt(e, "SHUTDOWN_COMPLETE")}]
      [] OTHER -> [s |-> s, out |-> {}]

\* The DATA chunks marked for retransmission, resent (and unmarked).
Retransmissions(s, e) ==
    [s |-> [s EXCEPT !.retransmit = {}], out |-> {DataPkt(e, m) : m \in s.retransmit}]

\* The SACK owed to the peer, if any (gather_outbound_sack_packets).
SackPackets(s, e) ==
    IF s.ackPending
    THEN [s |-> [s EXCEPT !.ackPending = FALSE], out |-> {SackPkt(e, s.received)}]
    ELSE [s |-> s, out |-> {}]

(***************************************************************************)
(* gather_outbound, by state: in Established retransmissions, then the     *)
(* pending messages moved to the inflight queue (arming T3-rtx), then the  *)
(* SACK; in ShutdownPending, ShutdownSent and ShutdownReceived             *)
(* retransmissions, the SACK and the shutdown packets; in ShutdownAckSent  *)
(* the shutdown packets only; nothing in the other states.  (cwnd, rwnd    *)
(* and bundling are left to DataTransfer: all pending messages move.)      *)
(***************************************************************************)
GatherOutbound(s, e) ==
    LET r  == Retransmissions(s, e)
        sk == SackPackets(r.s, e)
    IN CASE s.state = "Established" ->
              LET nw == [r.s EXCEPT !.inflight = @ \cup s.pending, !.pending = {},
                                    !.t3Running = @ \/ s.pending # {}]
                  k  == SackPackets(nw, e)
              IN [s |-> k.s, out |-> r.out \cup {DataPkt(e, m) : m \in s.pending} \cup k.out]
         [] s.state \in {"ShutdownPending", "ShutdownSent", "ShutdownReceived"} ->
              LET sh == GatherOutboundShutdownPackets(sk.s, e)
              IN [s |-> sh.s, out |-> r.out \cup sk.out \cup sh.out]
         [] s.state = "ShutdownAckSent" -> GatherOutboundShutdownPackets(s, e)
         [] OTHER -> [s |-> s, out |-> {}]

\* inflight_queue_length: declared, initialised to 0, and never updated.
InflightQueueLength(s) == 0

----------------------------------------------------------------------------
(* Steps of the endpoints' owners and of the network.                      *)

Init ==
    /\ ep = [e \in Endpoints |-> NewAssociation(e)]
    /\ net = {Pkt("client", "INIT")}
    /\ losses = 0 /\ dups = 0 /\ early = 0

\* The owner drains poll_transmit after each call it makes (handle_event,
\* handle_timeout, the application's calls), so it makes the next one only
\* when gather_outbound has nothing to send.
OutboundDrained(e) == GatherOutbound(ep[e], e).out = {}

\* handle_event of a packet from the peer: handle_inbound runs the chunk's
\* handler; on an error handle_event close()s the association.  The network
\* may keep a copy of the packet (a duplicate).
Receive(e, p) ==
    /\ p.src = Peer(e)
    /\ OutboundDrained(e)
    /\ LET r == HandleChunk(ep[e], e, p) IN
       /\ ep' = [ep EXCEPT ![e] = IF r.err THEN Close(r.s, "Error") ELSE r.s]
       /\ \/ net' = (net \ {p}) \cup r.out /\ UNCHANGED dups
          \/ dups < MaxDup /\ FaultBudget /\ net' = net \cup r.out /\ dups' = dups + 1
    /\ UNCHANGED <<losses, early>>

\* poll_transmit: the packets gather_outbound returns go out.
Transmit(e) ==
    /\ LET g == GatherOutbound(ep[e], e) IN
       /\ g.out # {}
       /\ ep' = [ep EXCEPT ![e] = g.s]
       /\ net' = net \cup g.out
    /\ UNCHANGED <<losses, dups, early>>

\* send_payload_data: only in Established (ErrPayloadDataStateNotExist).
SendPayloadData(e) ==
    /\ e \in DataSenders
    /\ OutboundDrained(e)
    /\ ep[e].state = "Established"
    /\ ep[e].submitted < MaxData
    /\ ep' = [ep EXCEPT ![e].pending = @ \cup {ep[e].submitted},
                        ![e].submitted = @ + 1]
    /\ UNCHANGED <<net, losses, dups, early>>

\* shutdown(): only in Established (ErrShutdownNonEstablished).  It enters
\* ShutdownPending, and ShutdownSent with SHUTDOWN due when
\* inflight_queue_length is 0; it pushes Drained either way.
Shutdown(e) ==
    /\ OutboundDrained(e)
    /\ ep[e].state = "Established"
    /\ LET s1 == [ep[e] EXCEPT !.state = "ShutdownPending", !.drained = TRUE]
       IN ep' = [ep EXCEPT ![e] =
                   IF InflightQueueLength(s1) = 0
                   THEN [s1 EXCEPT !.willSendShutdown = TRUE, !.state = "ShutdownSent"]
                   ELSE s1]
    /\ UNCHANGED <<net, losses, dups, early>>

\* close() called by the application.
AppClose(e) ==
    /\ OutboundDrained(e)
    /\ ep[e].state # "Closed"
    /\ ep' = [ep EXCEPT ![e] = Close(ep[e], "App")]
    /\ UNCHANGED <<net, losses, dups, early>>

\* A timer may expire when nothing is in transit or waiting to be sent (an
\* RTO is long beside a round trip); an expiry racing packets is one of
\* at most MaxEarly.
Quiet == net = {} /\ \A x \in Endpoints : OutboundDrained(x)

ExpiryAllowed ==
    \/ Quiet /\ UNCHANGED early
    \/ ~Quiet /\ early < MaxEarly /\ FaultBudget /\ early' = early + 1

(***************************************************************************)
(* handle_timeout for T1-init, T1-cookie or T2-shutdown.  Past MaxRetrans  *)
(* expiries it is a failure (on_retransmission_failure: HandshakeFailed    *)
(* for the T1 timers, nothing for T2) and the timer stays off; otherwise   *)
(* on_retransmission_timeout resends the stored INIT or COOKIE-ECHO, or    *)
(* makes the SHUTDOWN or SHUTDOWN-ACK due again, and the timer restarts.   *)
(***************************************************************************)
\* Fault variant of Failure: one retransmission too many.
FailureLate(s, t) == s.timers[t].nRtos > MaxRetrans

\* is_expired's failure flag: the timer has used up its retransmissions.
Failure(s, t) == s.timers[t].nRtos >= MaxRetrans

OnRetransmissionFailure(s, t) ==
    IF t \in {"T1Init", "T1Cookie"} THEN [s EXCEPT !.error = "HandshakeFailed"] ELSE s

OnRetransmissionTimeout(s, t) ==
    CASE t = "T2Shutdown" /\ s.state = "ShutdownSent" -> [s EXCEPT !.willSendShutdown = TRUE]
      [] t = "T2Shutdown" /\ s.state = "ShutdownAckSent" -> [s EXCEPT !.willSendShutdownAck = TRUE]
      [] OTHER -> s

\* The packet on_retransmission_timeout sends (send_init, send_cookie_echo).
TimeoutPackets(s, e, t) ==
    CASE t = "T1Init" /\ s.storedInit -> {Pkt(e, "INIT")}
      [] t = "T1Cookie" /\ s.storedCookieEcho -> {Pkt(e, "COOKIE_ECHO")}
      [] OTHER -> {}

HandleTimeout(e, t) ==
    /\ OutboundDrained(e)
    /\ ep[e].timers[t].running
    /\ ExpiryAllowed
    /\ LET s == ep[e] IN
          IF Failure(s, t)
          THEN /\ ep' = [ep EXCEPT ![e] = OnRetransmissionFailure(
                                            [s EXCEPT !.timers[t].running = FALSE], t)]
               /\ UNCHANGED net
          ELSE /\ ep' = [ep EXCEPT ![e] = [OnRetransmissionTimeout(s, t)
                                            EXCEPT !.timers[t].nRtos = @ + 1]]
               /\ net' = net \cup TimeoutPackets(s, e, t)
    /\ UNCHANGED <<losses, dups>>

\* handle_timeout for T3-rtx: every chunk in flight is marked for
\* retransmission (mark_all_to_retrasmit) and the timer restarts.  T3-rtx
\* never fails.
HandleT3Timeout(e) ==
    /\ OutboundDrained(e)
    /\ ep[e].t3Running
    /\ ep[e].retransmit # ep[e].inflight
    /\ ExpiryAllowed
    /\ ep' = [ep EXCEPT ![e].retransmit = ep[e].inflight]
    /\ UNCHANGED <<net, losses, dups>>

\* The network loses a packet, up to MaxLoss of them.
Lose(p) ==
    /\ losses < MaxLoss /\ FaultBudget
    /\ net' = net \ {p}
    /\ losses' = losses + 1
    /\ UNCHANGED <<ep, dups, early>>

Next ==
    \/ \E e \in Endpoints, p \in net : Receive(e, p)
    \/ \E e \in Endpoints : Transmit(e)
    \/ \E e \in Endpoints : SendPayloadData(e)
    \/ \E e \in Endpoints : Shutdown(e)
    \/ \E e \in Endpoints : AppClose(e)
    \/ \E e \in Endpoints, t \in RtxTimers : HandleTimeout(e, t)
    \/ \E e \in Endpoints : HandleT3Timeout(e)
    \/ \E p \in net : Lose(p)

Spec == Init /\ [][Next]_vars

\* The owner of each endpoint keeps calling handle_event, poll_transmit and
\* handle_timeout; the network delivers what it does not lose.  An armed
\* timer fires when its time comes even if packets keep arriving, so a
\* timer expiry that is enabled again and again (whenever the network is
\* quiet) eventually happens: strong fairness.  The application's calls
\* and the losses are not fair.
Fairness ==
    \A e \in Endpoints :
        /\ WF_vars(\E p \in net : Receive(e, p))
        /\ WF_vars(Transmit(e))
        /\ \A t \in RtxTimers : SF_vars(HandleTimeout(e, t))
        /\ SF_vars(HandleT3Timeout(e))

FairSpec == Spec /\ Fairness

----------------------------------------------------------------------------
(* Properties.                                                             *)

TypeOK ==
    /\ net \subseteq Packet
    /\ \A e \in Endpoints :
         /\ ep[e].state \in States
         /\ \A t \in RtxTimers : ep[e].timers[t].nRtos \in 0..MaxRetrans
         /\ ep[e].submitted \in 0..MaxData
         /\ ep[e].pending \cup ep[e].inflight \cup ep[e].received \subseteq Msg
         /\ ep[e].retransmit \subseteq ep[e].inflight
         /\ ep[e].error \in {"None", "HandshakeFailed"}
         /\ ep[e].closedBy \in {"None", "App", "Error", "ShutdownComplete"}

\* The handshake the client starts in Association::new ends: both sides
\* complete it (Connected), the client reports HandshakeFailed after the
\* T1 retransmissions run out, or one side is closed.
HandshakeEnds ==
    <>( \/ \A e \in Endpoints : ep[e].handshakeCompleted
        \/ ep["client"].error = "HandshakeFailed"
        \/ \E e \in Endpoints : ep[e].state = "Closed" /\ ep[e].closedBy # "None")

\* Once an endpoint has answered SHUTDOWN with SHUTDOWN-ACK
\* (ShutdownAckSent), the exchange ends with an association closed:
\* T2-shutdown resends a lost SHUTDOWN-ACK, the peer answers each one with
\* SHUTDOWN-COMPLETE, and handle_shutdown_complete closes.  (An
\* association re-established by a stale COOKIE-ECHO, whose earlier life's
\* packets are still about, is the subject of ClosedIsTerminal.)
ShutdownAckLeadsToClose ==
    \A e \in Endpoints :
        (ep[e].state = "ShutdownAckSent" /\ \A x \in Endpoints : ep[x].connected <= 1)
            ~> \E x \in Endpoints : ep[x].state = "Closed"

\* A graceful shutdown loses no data: when SHUTDOWN-COMPLETE closes an
\* endpoint, it has received every message its peer's application sent
\* (shutdown() waits for the inflight queue to drain before SHUTDOWN).
GracefulCloseDeliversData ==
    \A e \in Endpoints :
        ep[e].closedBy = "ShutdownComplete" =>
            {m \in Msg : m < ep[Peer(e)].submitted} \subseteq ep[e].received

\* An association that has been closed stays closed: close() is final and
\* Connected is pushed at most once.
ClosedIsTerminal ==
    [][\A e \in Endpoints :
         ep[e].closedBy # "None" => ep'[e].state = "Closed"]_vars

====
