------------------------------ MODULE MC_SeqNum ------------------------------
(***************************************************************************)
(* Checks the sequence-number arithmetic at the code's real width (2^16)   *)
(* against the midpoint rule stated for it, over pairs of values taken     *)
(* from the boundaries of the ring: 0, the half ring and the top.          *)
(***************************************************************************)
EXTENDS Integers, SeqNum

\* Operands: both ends of the ring, both sides of the half ring and a few
\* values in between.
Sample == {0, 1, 2, 100, 12345, 32766, 32767, 32768, 32769, 40000,
           65534, 65535}

\* History sizes a stream may be created with: the powers of two that
\* uxr_init_output_reliable_stream's comment requires (line 51), the
\* examples' STREAM_HISTORY = 8 among them.
Histories == {2^e : e \in 0 .. 4}

\* uxr_get_reliable_buffer (common_reliable_stream.c): the slot of a
\* sequence number is seq_num % history.
RingSlot(s, h) == s % h

VARIABLES a, b
vars == <<a, b>>

Init == a \in Sample /\ b \in Sample
Next == \E x, y \in Sample : a' = x /\ b' = y
Spec == Init /\ [][Next]_vars

\* Reference definition of the order: a precedes b iff the forward distance
\* from a to b is strictly less than half the ring; equal values compare 0;
\* everything else, the exact half ring included, compares 1.
ForwardDistance(x, y) == (y - x) % SeqNumSize
RefCmp(x, y) ==
    CASE x = y                                   -> 0
      [] ForwardDistance(x, y) < SeqNumMidSize   -> -1
      [] OTHER                                   -> 1

\* uxr_seq_num_cmp agrees with the midpoint rule on every pair, including
\* the pairs that straddle the wrap and the tie at exactly half the ring.
CmpIsMidpointRule == SeqCmp(a, b) = RefCmp(a, b)

\* The slot ring follows the sequence numbers across the 65535 -> 0 wrap:
\* for every power-of-two history, the slot of seq + k is k slots after
\* the slot of seq.  Otherwise the stream, which walks slots by
\* uxr_seq_num_add, would write, send and free a slot other than the one
\* the sequence number names once the numbers wrap.
SlotFollowsSeq ==
    \A h \in Histories :
        RingSlot(SeqAdd(a, b), h) = (RingSlot(a, h) + RingSlot(b, h)) % h
=============================================================================
