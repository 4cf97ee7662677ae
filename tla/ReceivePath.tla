----------------------------- MODULE ReceivePath -----------------------------
(***************************************************************************)
(* The receiving side of an association, from the bytes of a datagram to  *)
(* the SACK's gap ack blocks.  The peer marshals packets of DATA chunks    *)
(* (Packet::marshal_to); the link may damage a datagram, and a third party *)
(* may send datagrams of its own with a correct checksum.  The receiver    *)
(* runs the endpoint's partial decode, Association::handle_event's finish  *)
(* and handle_inbound's check_packet (PacketCodec!ReceivePath), then       *)
(* handle_data for each DATA chunk: push when can_push allows, then the    *)
(* pop loop of handle_peer_last_tsn_and_acknowledgement (association/      *)
(* mod.rs, without the receive window).  The link holds one datagram at a  *)
(* time.  A panic in the decoder stops the receiver.                       *)
(***************************************************************************)
EXTENDS PayloadQueue

CONSTANTS
    InitialTsns,   \* peer_last_tsn values the association may start from
    Window,        \* how far past peer_last_tsn an arriving TSN may be
    AllowWrap,     \* whether arriving TSNs may wrap past 2^W - 1 to 0
    PeerTag,       \* the verification tag of the peer's packets
    MaxBundle,     \* DATA chunks the peer bundles into one packet
    DamageOffsets, \* offsets of the bytes the link may change
    Forgeries      \* first chunks of forged datagrams: [typ, length, body]

ASSUME /\ InitialTsns \subseteq Tsn
       /\ Window \in 1..(Half - 1) /\ AllowWrap \in BOOLEAN
       /\ PeerTag \in 1..255 /\ MaxBundle \in 1..2
       /\ DamageOffsets \subseteq Nat
       /\ Forgeries \subseteq [typ : 0..255, length : 0..255, body : 0..32]

Codec == INSTANCE PacketCodec

VARIABLES peerLastTsn,  \* highest TSN received in order
          payloadQueue, \* TSNs received above peer_last_tsn
          wire,         \* the datagram in transit, << >> for none
          sent,         \* the packet the peer marshalled onto the wire
          damaged,      \* whether the link changed the datagram
          outcome       \* what the last receive path returned

vars == <<peerLastTsn, payloadQueue, wire, sent, damaged, outcome>>

Port == 5000
NotReceived == [ok |-> FALSE, err |-> "NotReceived", pkt |-> Codec!NoPacket]

\* The TSNs the peer may send next: within Window of peer_last_tsn and,
\* unless AllowWrap, numerically above it.
Arriving == { Add(peerLastTsn, j) : j \in { j \in 1..Window :
                                              AllowWrap \/ peerLastTsn + j < Mod } }

Bundles == { <<t>> : t \in Arriving }
           \cup IF MaxBundle = 1 THEN {}
                ELSE { b \in Arriving \X Arriving : b[1] # b[2] }

\* A DATA chunk as the peer's chunk codec writes it: TSN, stream 0, SSN 0,
\* PPI 0 and one byte of user data, flags B and E.
DataChunk(tsn) ==
    [typ |-> Codec!CT_PAYLOAD_DATA, flags |-> 3,
     value |-> Codec!PutU32(tsn) \o Codec!Zeros(8) \o <<1>>]

DataPacket(tsns) ==
    [sourcePort |-> Port, destinationPort |-> Port, verificationTag |-> PeerTag,
     chunks |-> [k \in DOMAIN tsns |-> DataChunk(tsns[k])]]

\* A forged datagram: the common header (tag 0 for an INIT), one chunk
\* header claiming f.length over f.body zero bytes, a correct checksum.
Forged(f) ==
    Codec!Seal(Codec!PutU16(Port) \o Codec!PutU16(Port)
               \o Codec!PutU32(IF f.typ = Codec!CT_INIT THEN 0 ELSE PeerTag)
               \o Codec!Zeros(4) \o << f.typ, 0 >> \o Codec!PutU16(f.length)
               \o Codec!Zeros(f.body))

\* A forged datagram of the common header alone, with a correct checksum
\* (the header-only packet of the unit tests of packet.rs).
HeaderOnly ==
    Codec!Seal(Codec!PutU16(Port) \o Codec!PutU16(Port) \o Codec!PutU32(PeerTag)
               \o Codec!Zeros(4))

\* The association starts from a random initial TSN.
Init == /\ peerLastTsn \in InitialTsns
        /\ payloadQueue = {}
        /\ wire = << >>
        /\ sent = Codec!NoPacket
        /\ damaged = FALSE
        /\ outcome = NotReceived

\* The receiver has not crashed.
Running == outcome.err # "Panic"

\* The peer marshals a packet of DATA chunks onto the idle link.
Send(tsns) ==
    /\ Running /\ wire = << >>
    /\ wire' = Codec!Marshal(DataPacket(tsns))
    /\ sent' = DataPacket(tsns)
    /\ damaged' = FALSE
    /\ outcome' = NotReceived
    /\ UNCHANGED <<peerLastTsn, payloadQueue>>

\* A third party puts a forged datagram on the idle link.
Forge(f) ==
    /\ Running /\ wire = << >>
    /\ wire' = Forged(f)
    /\ sent' = Codec!NoPacket
    /\ damaged' = FALSE
    /\ outcome' = NotReceived
    /\ UNCHANGED <<peerLastTsn, payloadQueue>>

\* A third party puts a datagram with no chunk on the idle link.
ForgeHeaderOnly ==
    /\ Running /\ wire = << >>
    /\ wire' = HeaderOnly
    /\ sent' = Codec!NoPacket
    /\ damaged' = FALSE
    /\ outcome' = NotReceived
    /\ UNCHANGED <<peerLastTsn, payloadQueue>>

\* The link changes the byte at offset k, once per datagram.
Corrupt(k) ==
    /\ Running /\ ~damaged
    /\ k + 1 \in DOMAIN wire
    /\ wire' = [wire EXCEPT ![k + 1] = (@ + 1) % 256]
    /\ damaged' = TRUE
    /\ UNCHANGED <<peerLastTsn, payloadQueue, sent, outcome>>

\* The link cuts the last byte off the datagram, once per datagram.
Truncate ==
    /\ Running /\ ~damaged
    /\ wire # << >>
    /\ wire' = Front(wire)
    /\ damaged' = TRUE
    /\ UNCHANGED <<peerLastTsn, payloadQueue, sent, outcome>>

\* handle_data for each DATA chunk, in order: push the TSN when can_push
\* allows, then pop what became contiguous.
HandleDataChunks(chunks) ==
    LET step(st, c) ==
          IF c.typ # Codec!CT_PAYLOAD_DATA THEN st
          ELSE LET tsn == Codec!GetU32(c.value, 0)
                   q == IF CanPush(st.queue, tsn, st.peerLastTsn)
                        THEN st.queue \cup {tsn} ELSE st.queue
               IN PopInOrder(q, st.peerLastTsn)
    IN FoldLeft(step, [queue |-> payloadQueue, peerLastTsn |-> peerLastTsn], chunks)

\* The receiver takes the datagram: a packet that survives the receive
\* path has its DATA chunks handled; anything else is dropped.
Deliver ==
    /\ Running /\ wire # << >>
    /\ LET r == Codec!ReceivePath(wire)
           st == HandleDataChunks(r.pkt.chunks)
       IN /\ outcome' = r
          /\ payloadQueue' = st.queue
          /\ peerLastTsn' = st.peerLastTsn
    /\ wire' = << >>
    /\ UNCHANGED <<sent, damaged>>

Next ==
    \/ \E tsns \in Bundles : Send(tsns)
    \/ \E f \in Forgeries : Forge(f)
    \/ ForgeHeaderOnly
    \/ \E k \in DamageOffsets : Corrupt(k)
    \/ Truncate
    \/ Deliver

Spec == Init /\ [][Next]_vars

-----------------------------------------------------------------------------
(* Properties.                                                             *)

\* Reference: the maximal runs of consecutive offsets (serial distance from
\* the cumulative TSN) of the queued TSNs, in increasing order.
RefGapAckBlocks(q, cumulativeTsn) ==
    LET O == { Dist(cumulativeTsn, t) : t \in q }
        B == { r \in [start : O, end : O] :
                 /\ r.start <= r.end
                 /\ r.start..r.end \subseteq O
                 /\ r.start - 1 \notin O
                 /\ r.end + 1 \notin O }
    IN SetToSortSeq(B, LAMBDA x, y : x.start < y.start)

\* The gap ack blocks get_gap_ack_blocks computes for the SACK are exactly
\* the maximal runs of received TSNs above peer_last_tsn, as offsets from it,
\* whatever order the DATA chunks came in and whatever datagrams were lost.
GapAckBlocksCorrect ==
    GetGapAckBlocks(payloadQueue, peerLastTsn)
        = RefGapAckBlocks(payloadQueue, peerLastTsn)

\* A packet the peer marshalled (marshal_to, with its padding and checksum)
\* reaches the chunk handlers exactly as sent when the link left it alone,
\* and is dropped by the receive path when the link changed a byte or cut
\* one off.
ReceivedIsSent ==
    outcome # NotReceived /\ sent # Codec!NoPacket =>
        IF damaged THEN ~outcome.ok ELSE outcome = Codec!Ok(sent)

\* The endpoint's PartialDecode and the association's finish hand the chunk
\* handlers what Packet::unmarshal would: a datagram partial decode rejects
\* and unmarshal accepts carries no chunk at all (partial decode requires a
\* first chunk header, packet.rs:89, while unmarshal accepts the header-only
\* packet), so no chunk is lost by the split; when partial decode accepts,
\* finish yields unmarshal's result; and the first chunk type, initiate tag
\* and cookie the endpoint routes by are those of the packet's first chunk.
DecodersAgree ==
    wire # << >> =>
        LET pd == Codec!PartialDecodeUnmarshal(wire)
            full == Codec!Unmarshal(wire)
            first == full.pkt.chunks[1]
        IN /\ full.ok /\ ~pd.ok => full.pkt.chunks = << >>
           /\ pd.ok => Codec!Finish(pd) = full
           /\ pd.ok /\ full.ok =>
                /\ pd.firstChunkType = first.typ
                /\ pd.initiateTag = IF first.typ \in {Codec!CT_INIT, Codec!CT_INIT_ACK}
                                    THEN << Codec!GetU32(first.value, 0) >> ELSE << >>
                /\ pd.cookie = IF first.typ = Codec!CT_COOKIE_ECHO
                               THEN << first.value >> ELSE << >>

\* No datagram crashes the receiver: the endpoint's partial decode returns
\* an error for a malformed datagram, which is then dropped.
NeverPanics == outcome.err # "Panic"
=============================================================================
