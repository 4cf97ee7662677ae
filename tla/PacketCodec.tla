----------------------------- MODULE PacketCodec -----------------------------
(***************************************************************************)
(* The SCTP packet codec of packet.rs, byte by byte: Packet::marshal_to,   *)
(* Packet::unmarshal, the endpoint's two-stage decode                      *)
(* (PartialDecode::unmarshal, then finish) and check_packet.  A byte       *)
(* string is a sequence of numbers in 0..255; offsets are 0-based as in    *)
(* the code, so the byte at offset k is raw[k + 1].                        *)
(*                                                                         *)
(* The per-chunk codecs and the CRC32c primitive are outside this source   *)
(* tree; they are written from the wire format the spec gives: a chunk is  *)
(* type, flags, a big-endian length that counts the 4-byte header and the  *)
(* value but not the padding, then the value.  A chunk's own unmarshal     *)
(* checks its header and the fixed part of its value.                      *)
(***************************************************************************)
EXTENDS Integers, Sequences, SequencesExt, Bitwise

PACKET_HEADER_SIZE == 12
CHUNK_HEADER_SIZE == 4
PADDING_MULTIPLE == 4

\* Chunk types (chunk_type.rs).
CT_PAYLOAD_DATA == 0
CT_INIT == 1
CT_INIT_ACK == 2
CT_HEARTBEAT_ACK == 5
CT_COOKIE_ECHO == 10
CT_COOKIE_ACK == 11

\* The chunk types Packet::unmarshal and finish decode; any other type
\* fails the whole packet.  HEARTBEAT-ACK (5) is not among them.
KnownChunkTypes == {0, 1, 2, 3, 4, 6, 7, 8, 9, 10, 11, 14, 130, 192}

\* The fixed part of a chunk's value its unmarshal requires: 16 bytes for
\* INIT and INIT-ACK, 12 for DATA (TSN, stream, SSN, PPI).
MinValueLength(typ) ==
    CASE typ \in {CT_INIT, CT_INIT_ACK} -> 16
      [] typ = CT_PAYLOAD_DATA          -> 12
      [] OTHER                          -> 0

\* get_padding_size: bytes that bring len to a multiple of 4.
GetPaddingSize(len) == (PADDING_MULTIPLE - (len % PADDING_MULTIPLE)) % PADDING_MULTIPLE

Zeros(n) == [i \in 1..n |-> 0]

\* Big-endian writes and reads (BufMut::put_u16/put_u32, Buf::get_*).
PutU16(n) == << n \div 256, n % 256 >>
PutU32(n) == << n \div 2^24, (n \div 2^16) % 256, (n \div 256) % 256, n % 256 >>
GetU16(raw, off) == raw[off + 1] * 256 + raw[off + 2]
GetU32(raw, off) == GetU16(raw, off) * 2^16 + GetU16(raw, off + 2)

(***************************************************************************)
(* CRC32c (Castagnoli, reflected polynomial 0x82F63B78, initial value and  *)
(* final xor all ones), one byte at a time through a 256-entry table.  A   *)
(* 32-bit value is a pair [hi, lo] of 16-bit halves, as TLC's integers are *)
(* signed 32-bit.                                                          *)
(***************************************************************************)
CrcPoly == [hi |-> 33526, lo |-> 15224]
AllOnes == [hi |-> 65535, lo |-> 65535]

Xor32(a, b) == [hi |-> a.hi ^^ b.hi, lo |-> a.lo ^^ b.lo]

\* c >> n for n in 1..16.
ShiftRight(c, n) == [hi |-> c.hi \div 2^n,
                     lo |-> (c.hi % 2^n) * 2^(16 - n) + c.lo \div 2^n]

RECURSIVE CrcShift(_, _)
CrcShift(c, k) ==
    IF k = 0 THEN c
    ELSE CrcShift(IF c.lo % 2 = 1 THEN Xor32(ShiftRight(c, 1), CrcPoly)
                                  ELSE ShiftRight(c, 1), k - 1)

CrcTable == [b \in 0..255 |-> CrcShift([hi |-> 0, lo |-> b], 8)]

CrcStep(c, b) == Xor32(CrcTable[(c.lo % 256) ^^ b], ShiftRight(c, 8))

Word32 == [hi : 0..65535, lo : 0..65535]

\* The register is run over the bytes one at a time; each step's value is
\* checked to be a 32-bit word, which also has TLC compute it before the
\* next step.
Crc32c(bytes) ==
    LET RECURSIVE Update(_, _)
        Update(c, i) ==
            IF i > Len(bytes) THEN c
            ELSE LET next == CrcStep(c, bytes[i])
                 IN IF next \in Word32 THEN Update(next, i + 1) ELSE next
    IN Xor32(AllOnes, Update(AllOnes, 1))

\* A 32-bit value as little-endian bytes (to_le_bytes).
LeBytes(c) == << c.lo % 256, c.lo \div 256, c.hi % 256, c.hi \div 256 >>

\* generate_packet_checksum: the CRC32c of the packet with its checksum
\* field (offsets 8..11) taken as zero.
GeneratePacketChecksum(raw) ==
    Crc32c(SubSeq(raw, 1, 8) \o Zeros(4) \o SubSeq(raw, 13, Len(raw)))

\* their_checksum (get_u32_le at offset 8) = our_checksum, as bytes.
ChecksumMatches(raw) == SubSeq(raw, 9, 12) = LeBytes(GeneratePacketChecksum(raw))

(***************************************************************************)
(* Values.  A chunk is its type, flags and value bytes; a packet is the    *)
(* common header and its chunks.  A decode result carries ok, the error    *)
(* (or "Panic" where the code would panic) and what was decoded.           *)
(***************************************************************************)
NoPacket == [sourcePort |-> 0, destinationPort |-> 0, verificationTag |-> 0,
             chunks |-> << >>]

Ok(p) == [ok |-> TRUE, err |-> "None", pkt |-> p]
Err(e) == [ok |-> FALSE, err |-> e, pkt |-> NoPacket]

\* A chunk's marshal_to: its header, then its value, unpadded.
ChunkMarshal(c) == << c.typ, c.flags >> \o PutU16(CHUNK_HEADER_SIZE + Len(c.value)) \o c.value

\* ChunkHeader::unmarshal of raw.slice(off..): at least a header, and a
\* length that covers the header and fits in what is left.
ChunkHeaderUnmarshal(raw, off) ==
    LET rem == Len(raw) - off
        length == GetU16(raw, off + 2)
    IN CASE rem < CHUNK_HEADER_SIZE -> [ok |-> FALSE, err |-> "ErrChunkHeaderTooSmall"]
         [] length < CHUNK_HEADER_SIZE \/ length > rem ->
                [ok |-> FALSE, err |-> "ErrChunkHeaderInvalidLength"]
         [] OTHER -> [ok |-> TRUE, err |-> "None", typ |-> raw[off + 1],
                      flags |-> raw[off + 2], valueLength |-> length - CHUNK_HEADER_SIZE]

\* A chunk's unmarshal of raw.slice(off..): its header, then the fixed
\* part of its value.
ChunkUnmarshal(raw, off) ==
    LET h == ChunkHeaderUnmarshal(raw, off)
    IN CASE ~h.ok -> h
         [] h.valueLength < MinValueLength(h.typ) -> [ok |-> FALSE, err |-> "ErrChunkTooShort"]
         [] OTHER -> [ok |-> TRUE, err |-> "None",
                      chunk |-> [typ |-> h.typ, flags |-> h.flags,
                                 value |-> SubSeq(raw, off + 5, off + 4 + h.valueLength)]]

(***************************************************************************)
(* Packet::marshal_to: the common header with a zero checksum field, each  *)
(* chunk followed by the padding that brings the whole buffer to a         *)
(* multiple of 4, then the CRC32c of the buffer written at offset 8 in     *)
(* little-endian order.                                                    *)
(***************************************************************************)
PadTo4(w) == w \o Zeros(GetPaddingSize(Len(w)))

\* The end of marshal_to: the CRC32c of the buffer (checksum field still
\* zero) written at offset 8, little-endian.
Seal(w) ==
    LET sum == LeBytes(Crc32c(w))
    IN [i \in 1..Len(w) |-> IF i \in 9..12 THEN sum[i - 8] ELSE w[i]]

Marshal(p) ==
    LET header == PutU16(p.sourcePort) \o PutU16(p.destinationPort)
                     \o PutU32(p.verificationTag) \o Zeros(4)
    IN Seal(FoldLeft(LAMBDA acc, c : PadTo4(acc \o ChunkMarshal(c)), header, p.chunks))

(***************************************************************************)
(* The chunk loop shared by Packet::unmarshal and PartialDecode::finish:   *)
(* from offset off, stop at the exact end, fail on a partial header or an  *)
(* unknown type, else decode the chunk and skip its value and padding.    *)
(***************************************************************************)
\* Fault variant of UnmarshalChunks: the next offset leaves out the padding.
RECURSIVE UnmarshalChunksNoPadding(_, _, _)
UnmarshalChunksNoPadding(raw, off, chunks) ==
    IF off = Len(raw) THEN [ok |-> TRUE, err |-> "None", chunks |-> chunks]
    ELSE IF off + CHUNK_HEADER_SIZE > Len(raw)
    THEN [ok |-> FALSE, err |-> "ErrParseSctpChunkNotEnoughData", chunks |-> << >>]
    ELSE IF raw[off + 1] \notin KnownChunkTypes
    THEN [ok |-> FALSE, err |-> "ErrUnmarshalUnknownChunkType", chunks |-> << >>]
    ELSE LET c == ChunkUnmarshal(raw, off)
         IN IF ~c.ok THEN [ok |-> FALSE, err |-> c.err, chunks |-> << >>]
            ELSE UnmarshalChunksNoPadding(raw, off + CHUNK_HEADER_SIZE + Len(c.chunk.value),
                                          Append(chunks, c.chunk))

RECURSIVE UnmarshalChunks(_, _, _)
UnmarshalChunks(raw, off, chunks) ==
    IF off = Len(raw) THEN [ok |-> TRUE, err |-> "None", chunks |-> chunks]
    ELSE IF off + CHUNK_HEADER_SIZE > Len(raw)
    THEN [ok |-> FALSE, err |-> "ErrParseSctpChunkNotEnoughData", chunks |-> << >>]
    ELSE IF raw[off + 1] \notin KnownChunkTypes
    THEN [ok |-> FALSE, err |-> "ErrUnmarshalUnknownChunkType", chunks |-> << >>]
    ELSE LET c == ChunkUnmarshal(raw, off)
             vlen == Len(c.chunk.value)
         IN IF ~c.ok THEN [ok |-> FALSE, err |-> c.err, chunks |-> << >>]
            ELSE UnmarshalChunks(raw, off + CHUNK_HEADER_SIZE + vlen + GetPaddingSize(vlen),
                                 Append(chunks, c.chunk))

CommonHeader(raw) ==
    [sourcePort |-> GetU16(raw, 0), destinationPort |-> GetU16(raw, 2),
     verificationTag |-> GetU32(raw, 4)]

PacketOf(h, chunks) ==
    [sourcePort |-> h.sourcePort, destinationPort |-> h.destinationPort,
     verificationTag |-> h.verificationTag, chunks |-> chunks]

\* Packet::unmarshal.
Unmarshal(raw) ==
    IF Len(raw) < PACKET_HEADER_SIZE THEN Err("ErrPacketRawTooSmall")
    ELSE IF ~ChecksumMatches(raw) THEN Err("ErrChecksumMismatch")
    ELSE LET r == UnmarshalChunks(raw, PACKET_HEADER_SIZE, << >>)
         IN IF r.ok THEN Ok(PacketOf(CommonHeader(raw), r.chunks))
            ELSE Err(r.err)

(***************************************************************************)
(* PartialDecode::unmarshal, the endpoint's first look at a datagram: the  *)
(* common header, the checksum, the first chunk's header, and for INIT or  *)
(* INIT-ACK the initiate tag (get_u32 after the header, which panics when  *)
(* fewer than 4 bytes remain), for COOKIE-ECHO the cookie.  An Option is a *)
(* sequence of at most one element.                                        *)
(***************************************************************************)
PdErr(e) == [ok |-> FALSE, err |-> e]

PartialDecodeUnmarshal(raw) ==
    IF Len(raw) < PACKET_HEADER_SIZE THEN PdErr("ErrPacketRawTooSmall")
    ELSE IF ~ChecksumMatches(raw) THEN PdErr("ErrChecksumMismatch")
    ELSE IF Len(raw) - PACKET_HEADER_SIZE < CHUNK_HEADER_SIZE
    THEN PdErr("ErrParseSctpChunkNotEnoughData")
    ELSE LET h == ChunkHeaderUnmarshal(raw, PACKET_HEADER_SIZE)
             first == PACKET_HEADER_SIZE + CHUNK_HEADER_SIZE
         IN CASE ~h.ok -> PdErr(h.err)
              [] h.typ \in {CT_INIT, CT_INIT_ACK} /\ Len(raw) - first < 4 -> PdErr("Panic")
              [] OTHER ->
                   [ok |-> TRUE, err |-> "None",
                    commonHeader |-> CommonHeader(raw),
                    remaining |-> SubSeq(raw, PACKET_HEADER_SIZE + 1, Len(raw)),
                    firstChunkType |-> h.typ,
                    initiateTag |-> IF h.typ \in {CT_INIT, CT_INIT_ACK}
                                    THEN << GetU32(raw, first) >> ELSE << >>,
                    cookie |-> IF h.typ = CT_COOKIE_ECHO
                               THEN << SubSeq(raw, first + 1, first + h.valueLength) >>
                               ELSE << >>]

\* Fault variant of Finish: the loop starts at the packet offset of the first
\* chunk although remaining already begins there.
FinishFromHeaderOffset(pd) ==
    LET r == UnmarshalChunks(pd.remaining, PACKET_HEADER_SIZE, << >>)
    IN IF r.ok THEN Ok(PacketOf(pd.commonHeader, r.chunks)) ELSE Err(r.err)

\* PartialDecode::finish: the chunk loop over the bytes after the header.
Finish(pd) ==
    LET r == UnmarshalChunks(pd.remaining, 0, << >>)
    IN IF r.ok THEN Ok(PacketOf(pd.commonHeader, r.chunks)) ELSE Err(r.err)

\* Packet::check_packet: no zero port, and an INIT alone in its packet with
\* a zero verification tag.  INIT-ACK is not checked.
CheckPacket(p) ==
    LET init == \E i \in DOMAIN p.chunks : p.chunks[i].typ = CT_INIT
    IN CASE p.sourcePort = 0 -> "ErrSctpPacketSourcePortZero"
         [] p.destinationPort = 0 -> "ErrSctpPacketDestinationPortZero"
         [] init /\ Len(p.chunks) # 1 -> "ErrInitChunkBundled"
         [] init /\ p.verificationTag # 0 -> "ErrInitChunkVerifyTagNotZero"
         [] OTHER -> "None"

\* What reaches the chunk handlers of a datagram: the endpoint's partial
\* decode, Association::handle_event's finish, and handle_inbound's
\* check_packet; a failure at any stage drops the datagram.
ReceivePath(raw) ==
    LET pd == PartialDecodeUnmarshal(raw)
        r == Finish(pd)
    IN CASE ~pd.ok -> Err(pd.err)
         [] ~r.ok -> r
         [] CheckPacket(r.pkt) # "None" -> Err(CheckPacket(r.pkt))
         [] OTHER -> r
=============================================================================
