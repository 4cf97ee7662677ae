---------------------- MODULE PartiallyReliableChannel ----------------------
(***************************************************************************)
(* What an ordered SCTP stream promises its two applications, with or     *)
(* without partial reliability (RFC 3758).  The sender submits messages   *)
(* and may give up on (abandon) any of them; the receiver reads messages  *)
(* in submission order, each at most once, and may pass over a message   *)
(* only if the sender abandoned it.  Every message that is not abandoned *)
(* is eventually read.  With nothing abandoned this is a reliable         *)
(* ordered channel.                                                        *)
(***************************************************************************)
EXTENDS Integers, Sequences

CONSTANTS Msgs, MsgLens

VARIABLES submitted,   \* messages submitted, in order; message i has ssn i
          delivered,   \* messages read by the receiver, in order
          abandoned    \* ssns of the messages the sender gave up on

chanVars == <<submitted, delivered, abandoned>>

Init == submitted = <<>> /\ delivered = <<>> /\ abandoned = {}

\* The ssn of the last message read, -1 before the first.
LastRead == IF delivered = <<>> THEN -1 ELSE delivered[Len(delivered)].ssn

\* The sender submits message number Len(submitted).
Submit(len) ==
    /\ Len(submitted) < Msgs
    /\ submitted' = Append(submitted, [ssn |-> Len(submitted), len |-> len])
    /\ UNCHANGED <<delivered, abandoned>>

\* The sender abandons messages it submitted (several at once when they
\* go out together).
Abandon(S) ==
    /\ S \subseteq 0..(Len(submitted) - 1)
    /\ abandoned' = abandoned \cup S
    /\ UNCHANGED <<submitted, delivered>>

\* The receiver reads message i, passing over abandoned messages only.
Deliver(i) ==
    /\ i \in (LastRead + 1)..(Len(submitted) - 1)
    /\ \A j \in (LastRead + 1)..(i - 1) : j \in abandoned
    /\ delivered' = Append(delivered, submitted[i + 1])
    /\ UNCHANGED <<submitted, abandoned>>

Next ==
    \/ \E len \in MsgLens : Submit(len)
    \/ \E S \in SUBSET (0..(Msgs - 1)) : Abandon(S)
    \/ \E i \in 0..(Msgs - 1) : Deliver(i)

SafeSpec == Init /\ [][Next]_chanVars

\* The ssns of the messages read.
ReadSsns == { delivered[k].ssn : k \in 1..Len(delivered) }

\* Every submitted message the sender does not abandon is eventually read.
\* (As at most Msgs messages are submitted and a message read or abandoned
\* stays so, this is the same as each such message leading to its read.)
ReadUnlessAbandoned ==
    <>[](\A i \in 0..(Len(submitted) - 1) : i \in abandoned \cup ReadSsns)

Spec == SafeSpec /\ ReadUnlessAbandoned
=============================================================================
