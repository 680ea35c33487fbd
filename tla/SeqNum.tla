------------------------------- MODULE SeqNum -------------------------------
(***************************************************************************)
(* Wrap-around sequence numbers of the reliable streams                    *)
(* (src/c/core/session/stream/seq_num.c).  The code fixes the ring at      *)
(* 1 << 16; the ring size is a constant so that the stream models can use  *)
(* a small ring in which wrap-around happens within a few steps.           *)
(***************************************************************************)
EXTENDS Integers

CONSTANT SeqNumSize            \* SEQ_NUM_SIZE

ASSUME SeqNumSize \in Nat /\ SeqNumSize >= 4 /\ SeqNumSize % 2 = 0

SeqNumMidSize == SeqNumSize \div 2   \* SEQ_NUM_MIDSIZE

SeqNums == 0 .. SeqNumSize - 1

SeqNumMax == SeqNumSize - 1          \* SEQ_NUM_MAX

\* Plausible faults of the arithmetic below, used to show that the checks
\* of MC_SeqNum can tell them apart from the code: an add wrapping at
\* UINT16_MAX instead of 1 << 16, and a compare
\* that treats the exact half ring as "precedes" across the wrap.
SeqAddWrapOffByOne(s, k) == (s + k) % (SeqNumSize - 1)
SeqCmpHalfRingPrecedes(s1, s2) ==
    IF s1 = s2 THEN 0
    ELSE IF \/ s1 < s2 /\ s2 - s1 < SeqNumMidSize
            \/ s1 > s2 /\ s1 - s2 >= SeqNumMidSize
         THEN -1
         ELSE 1

\* uxr_seq_num_add: (seq_num + increment) % SEQ_NUM_SIZE
SeqAdd(s, k) == (s + k) % SeqNumSize

\* uxr_seq_num_sub: the two branches avoid a negative intermediate value.
\* The (uxrSeqNum) cast is the final modulo.
SeqSub(s, k) == (IF k > s THEN s + (SeqNumSize - k) ELSE s - k) % SeqNumSize

\* uxr_seq_num_cmp: 0 if equal, -1 if s1 precedes s2 by less than half the
\* ring (directly or across the wrap), 1 otherwise.
SeqCmp(s1, s2) ==
    IF s1 = s2 THEN 0
    ELSE IF \/ s1 < s2 /\ s2 - s1 < SeqNumMidSize
            \/ s1 > s2 /\ s1 - s2 > SeqNumMidSize
         THEN -1
         ELSE 1

\* Convenience forms of the comparisons the stream code writes as
\* "0 >= uxr_seq_num_cmp(a, b)" and "0 > uxr_seq_num_cmp(a, b)".
SeqLeq(s1, s2) == SeqCmp(s1, s2) <= 0
SeqLt(s1, s2)  == SeqCmp(s1, s2) < 0

\* The set of sequence numbers strictly after lo and up to hi, walking
\* forward around the ring.
SeqRange(lo, hi) == { SeqAdd(lo, i) : i \in 1 .. SeqSub(hi, lo) }
=============================================================================
