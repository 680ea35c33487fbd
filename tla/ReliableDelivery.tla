--------------------------- MODULE ReliableDelivery ---------------------------
(***************************************************************************)
(* What a reliable stream promises its user: messages are handed over in   *)
(* the order they were written, each exactly once, however large they are  *)
(* and whatever the transport loses; and every written message is          *)
(* eventually handed over.  A message is an id; the stream may hand over   *)
(* several messages in one step (one datagram can carry several).          *)
(***************************************************************************)
EXTENDS Naturals, Sequences, FiniteSets

CONSTANT Msgs            \* the message ids a producer may write

VARIABLES
    sent,                \* messages written by the producer, in order
    delivered            \* messages handed over at the far end, in order

vars == <<sent, delivered>>

Init == sent = <<>> /\ delivered = <<>>

Write(m) ==
    /\ sent' = Append(sent, m)
    /\ UNCHANGED delivered

\* Hand over the next one or more messages, in order.
Deliver ==
    \E n \in Len(delivered) + 1 .. Len(sent) :
        /\ delivered' = SubSeq(sent, 1, n)
        /\ UNCHANGED sent

Next == (\E m \in Msgs : Write(m)) \/ Deliver

SafeSpec == Init /\ [][Next]_vars

\* Every written message is eventually delivered.
EventuallyDelivered ==
    \A k \in 1 .. Cardinality(Msgs) : Len(sent) >= k ~> Len(delivered) >= k

Spec == SafeSpec /\ EventuallyDelivered
=============================================================================
