---------------------------- MODULE PayloadQueue ----------------------------
(***************************************************************************)
(* The TSN-keyed queue of src/queue/payload_queue.rs and the serial-number *)
(* arithmetic it orders TSNs by.  The queue is used twice by an            *)
(* association: as the receiver's payload_queue (TSNs received out of      *)
(* order) and as the sender's inflight_queue.  Here it is a set of TSNs;   *)
(* the chunk bodies kept in chunk_map are modelled by the modules that     *)
(* use the queue.  TSNs are W-bit integers: the code's u32 with W = 32.    *)
(***************************************************************************)
EXTENDS Integers, Sequences, FiniteSets, SequencesExt

CONSTANT W          \* width of a TSN in bits (32 in the code)

ASSUME W \in 2..32

Mod  == 2^W
Half == 2^(W-1)

\* A TSN value, and the wrapping u32 addition the code does in release builds.
Tsn == 0..(Mod - 1)
Add(a, b) == (a + b) % Mod
Inc(a) == Add(a, 1)
\* Number of steps from a forward to b (b - a with wrapping subtraction).
Dist(a, b) == (b - a) % Mod

\* sna32lt / sna32lte / sna32gt of util.rs (RFC 1982 serial comparison).
SerialLt(a, b) == \/ a < b /\ b - a < Half
                  \/ a > b /\ a - b > Half
SerialLte(a, b) == a = b \/ SerialLt(a, b)
SerialGt(a, b) == SerialLt(b, a)

\* The serial maximum of a non-empty set of TSNs.
SerialMax(S) == CHOOSE m \in S : \A t \in S : SerialLte(t, m)

\* update_sorted_keys: the queue's TSNs sorted by sna32lt.
SortedKeys(q) == SetToSortSeq(q, SerialLt)

\* can_push: neither already queued nor at or below the cumulative TSN.
CanPush(q, tsn, cumulativeTsn) ==
    ~(tsn \in q \/ SerialLte(tsn, cumulativeTsn))

\* pop succeeds only for the oldest TSN of the queue.
CanPop(q, tsn) == q # {} /\ tsn = SortedKeys(q)[1]

\* get_last_tsn_received: the newest TSN queued (q must be non-empty).
LastTsnReceived(q) == Last(SortedKeys(q))

(***************************************************************************)
(* get_gap_ack_blocks.  The offset of a TSN from the cumulative TSN is     *)
(* computed with an UNSIGNED comparison (tsn >= cumulative_tsn), not a     *)
(* serial one, and truncated to u16; a TSN that has wrapped past zero gets *)
(* offset 0.  Blocks are built over the sorted keys: a key one past the    *)
(* open block extends it, any other key closes it and opens a new one.     *)
(***************************************************************************)
GapDiff(tsn, cumulativeTsn) ==
    IF tsn >= cumulativeTsn THEN (tsn - cumulativeTsn) % 2^16 ELSE 0

\* Fault variant of GapStep: the finished block is not pushed.
GapStepNoPush(cumulativeTsn, acc, tsn) ==
    LET diff == GapDiff(tsn, cumulativeTsn) IN
    IF acc.b.end + 1 = diff
    THEN [acc EXCEPT !.b.end = @ + 1]
    ELSE [acc EXCEPT !.b = [start |-> diff, end |-> diff]]

GapStep(cumulativeTsn, acc, tsn) ==
    LET diff == GapDiff(tsn, cumulativeTsn) IN
    IF acc.b.end + 1 = diff
    THEN [acc EXCEPT !.b.end = @ + 1]
    ELSE [blocks |-> Append(acc.blocks, acc.b),
          b      |-> [start |-> diff, end |-> diff]]

GetGapAckBlocks(q, cumulativeTsn) ==
    IF q = {} THEN <<>>
    ELSE LET s  == SortedKeys(q)
             d0 == GapDiff(s[1], cumulativeTsn)
             r  == FoldLeft(LAMBDA acc, t : GapStep(cumulativeTsn, acc, t),
                            [blocks |-> <<>>, b |-> [start |-> d0, end |-> d0]],
                            Tail(s))
         IN Append(r.blocks, r.b)

\* The pop loop of handle_peer_last_tsn_and_acknowledgement: while the TSN
\* after peer_last_tsn pops from the queue, advance peer_last_tsn.
RECURSIVE PopInOrder(_, _)
PopInOrder(q, peerLastTsn) ==
    IF CanPop(q, Inc(peerLastTsn))
    THEN PopInOrder(q \ {Inc(peerLastTsn)}, Inc(peerLastTsn))
    ELSE [queue |-> q, peerLastTsn |-> peerLastTsn]

\* Fault variant of GapTsns: offsets read one past the block.
GapTsnsPlusOne(cumulativeTsn, blocks) ==
    { Add(cumulativeTsn, i + 1) : i \in UNION { blocks[k].start..blocks[k].end
                                                : k \in DOMAIN blocks } }

\* The TSNs a gap ack block list names, read back as the sender does
\* (cumulative_tsn_ack + i for i in start..=end).
GapTsns(cumulativeTsn, blocks) ==
    { Add(cumulativeTsn, i) : i \in UNION { blocks[k].start..blocks[k].end
                                            : k \in DOMAIN blocks } }
=============================================================================
