------------------------- MODULE OutputReliableStream -------------------------
(***************************************************************************)
(* The output reliable stream of the client                                *)
(* (src/c/core/session/stream/output_reliable_stream.c): a ring of        *)
(* History slots indexed by sequence number, the three watermarks          *)
(* last_written, last_sent and last_acknown, the NACK replay flag and the  *)
(* heartbeat schedule.                                                     *)
(*                                                                         *)
(* Byte counts are kept exactly (slot sizes, header offset, fragment       *)
(* sub-header) because every branch of the write path is decided by them.  *)
(* The bytes themselves are abstracted to "pieces": each slot holds the    *)
(* sequence of pieces written into it, a piece naming the message it       *)
(* belongs to and, for a fragment, its index and whether it is the last.   *)
(*                                                                         *)
(* The heartbeat timestamp is abstracted to whether it is scheduled        *)
(* (next_heartbeat_timestamp # INT64_MAX) and the try counter to whether   *)
(* it is non-zero (module HeartbeatSchedule): the only things the stream's *)
(* control reads.  HeartbeatTimer keeps the clock and the back-off and is  *)
(* checked to implement that abstraction.                                  *)
(***************************************************************************)
EXTENDS Integers, Sequences, FiniteSets, SeqNum

CONSTANTS
    History,        \* stream->base.history: number of slots
    Capacity,       \* uxr_get_reliable_buffer_capacity: bytes per slot
    Offset,         \* stream->offset: header_offset reserved in each slot
    SubheaderSize,  \* SUBHEADER_SIZE of a FRAGMENT submessage
    MaxMsgs         \* bound on the number of messages the producer writes

ASSUME /\ History \in Nat \ {0}
       /\ Offset + SubheaderSize < Capacity
       /\ MaxMsgs \in Nat

Slots == 0 .. History - 1

\* uxr_get_reliable_buffer / uxr_get_reliable_buffer_size address the slot
\* of a sequence number as seq_num % history.
Slot(s) == s % History

\* The sizes computed on the fragmentation path are cast to uint16_t.
U16(x) == x % 65536

Pieces == [msg : 1 .. MaxMsgs, frag : Nat, last : BOOLEAN]
Whole(m) == [msg |-> m, frag |-> 0, last |-> TRUE]

VARIABLES
    lastWritten,     \* last_written
    lastSent,        \* last_sent
    lastAcknown,     \* last_acknown
    bufSize,         \* slot -> used length (uxr_get/set_reliable_buffer_size)
    bufData,         \* slot -> pieces held (abstraction of the bytes)
    hbScheduled,     \* next_heartbeat_timestamp # INT64_MAX
    hbTriesNonZero,  \* next_heartbeat_tries # 0
    sendLost,        \* send_lost
    msgCount,        \* messages accepted so far (history variable)
    written          \* pieces in the order they were written (history)

streamVars == <<lastWritten, lastSent, lastAcknown, bufSize, bufData,
                hbScheduled, hbTriesNonZero, sendLost, msgCount, written>>

-----------------------------------------------------------------------------
(* uxr_reset_output_reliable_stream, called by uxr_init_output_reliable_   *)
(* stream: every slot emptied to the header offset, the watermarks at      *)
(* 0 / SEQ_NUM_MAX / SEQ_NUM_MAX, heartbeat unscheduled.                   *)
ResetStream ==
    /\ bufSize        = [i \in Slots |-> Offset]
    /\ bufData        = [i \in Slots |-> <<>>]
    /\ lastWritten    = 0
    /\ lastSent       = SeqNumMax
    /\ lastAcknown    = SeqNumMax
    /\ hbScheduled    = FALSE
    /\ hbTriesNonZero = FALSE
    /\ sendLost       = FALSE

StreamInit == ResetStream /\ msgCount = 0 /\ written = <<>>

\* get_available_free_slots: slots whose size equals the header offset.
FreeSlots == Cardinality({i \in Slots : bufSize[i] = Offset})

\* Mutant: the window bound taken one slot too far.
AvailableToWriteOffByOne(s) == SeqLeq(s, SeqAdd(lastAcknown, History + 1))

\* The window check of both non-fragmented branches.
AvailableToWrite(s) == SeqLeq(s, SeqAdd(lastAcknown, History))

-----------------------------------------------------------------------------
\* Mutant: the capacity test of the first branch dropped.
AppendToCurrentNoCapacity(len, m) ==
    LET i == Slot(lastWritten) IN
    /\ AvailableToWrite(lastWritten)
    /\ bufSize' = [bufSize EXCEPT ![i] = @ + len]
    /\ bufData' = [bufData EXCEPT ![i] = Append(@, Whole(m))]
    /\ UNCHANGED lastWritten

(* uxr_prepare_reliable_buffer_to_write(length), first branch: the message *)
(* is appended to the slot of last_written.                                *)
AppendToCurrent(len, m) ==
    LET i == Slot(lastWritten) IN
    /\ bufSize[i] + len <= Capacity
    /\ AvailableToWrite(lastWritten)
    /\ bufSize' = [bufSize EXCEPT ![i] = @ + len]
    /\ bufData' = [bufData EXCEPT ![i] = Append(@, Whole(m))]
    /\ UNCHANGED lastWritten

(* Second branch: the message opens the slot of last_written + 1.          *)
WriteToNext(len, m) ==
    LET s == SeqAdd(lastWritten, 1)
        i == Slot(s)
    IN
    /\ bufSize[Slot(lastWritten)] + len > Capacity
    /\ Offset + len <= Capacity
    /\ AvailableToWrite(s)
    /\ bufSize' = [bufSize EXCEPT ![i] = Offset + len]
    /\ bufData' = [bufData EXCEPT ![i] = <<Whole(m)>>]
    /\ lastWritten' = s

(* Third branch: the message is split into fragments.  If the current slot *)
(* cannot take even a sub-header the chain starts at last_written + 1.     *)
(* Fragment k (k = 1 .. n) goes to the slot of start + k - 1; every slot   *)
(* but the last is filled to capacity, the last one gets offset +          *)
(* sub-header + last_fragment_size.  The only admission check is          *)
(* necessary_complete_blocks <= get_available_free_slots.                  *)
FragmentStart ==
    IF bufSize[Slot(lastWritten)] + SubheaderSize >= Capacity
    THEN SeqAdd(lastWritten, 1) ELSE lastWritten

FragmentPlan(len) ==
    LET start == FragmentStart
        block == U16(Capacity - U16(Offset + SubheaderSize))
        first == U16(Capacity - U16(bufSize[Slot(start)] + SubheaderSize))
        rest  == U16(len - first)
        ncb   == IF rest % block = 0 THEN rest \div block
                 ELSE rest \div block + 1
        lastf == IF rest % block = 0 THEN block ELSE rest % block
    IN [start |-> start, ncb |-> ncb, first |-> first, block |-> block,
        lastSize |-> lastf]

FragmentSlots(p) == { Slot(SeqAdd(p.start, k)) : k \in 0 .. p.ncb }

WriteFragmented(len, m) ==
    LET p   == FragmentPlan(len)
        \* a slot reached twice (a chain longer than the ring) keeps what
        \* the later iteration wrote
        Pos(i) == LET ks == {k \in 0 .. p.ncb : Slot(SeqAdd(p.start, k)) = i}
                  IN CHOOSE k \in ks : \A j \in ks : j <= k
        Frag(k) == [msg |-> m, frag |-> k + 1, last |-> k = p.ncb]
    IN
    /\ bufSize[Slot(lastWritten)] + len > Capacity
    /\ Offset + len > Capacity
    /\ p.ncb <= FreeSlots
    /\ bufSize' = [i \in Slots |->
                     IF i \notin FragmentSlots(p) THEN bufSize[i]
                     ELSE IF Pos(i) < p.ncb THEN Capacity
                     ELSE Offset + SubheaderSize + p.lastSize]
    /\ bufData' = [i \in Slots |->
                     IF i \notin FragmentSlots(p) THEN bufData[i]
                     ELSE IF Pos(i) = 0 THEN Append(bufData[i], Frag(0))
                     ELSE <<Frag(Pos(i))>>]
    /\ lastWritten' = SeqAdd(p.start, p.ncb)

\* The pieces a successful write of message m adds, in order.
WrittenPieces(len, m) ==
    IF bufSize[Slot(lastWritten)] + len <= Capacity \/ Offset + len <= Capacity
    THEN <<Whole(m)>>
    ELSE [k \in 1 .. FragmentPlan(len).ncb + 1 |->
            [msg |-> m, frag |-> k, last |-> k = FragmentPlan(len).ncb + 1]]

(* The producer writes message msgCount + 1 of len bytes.  A refused       *)
(* write (the function returns false) changes nothing and is not a step.   *)
PrepareToWrite(len) ==
    LET m == msgCount + 1 IN
    /\ msgCount < MaxMsgs
    /\ \/ AppendToCurrent(len, m)
       \/ WriteToNext(len, m)
       \/ WriteFragmented(len, m)
    /\ msgCount' = m
    /\ written' = written \o WrittenPieces(len, m)
    /\ UNCHANGED <<lastSent, lastAcknown, hbScheduled, hbTriesNonZero,
                   sendLost>>

-----------------------------------------------------------------------------
\* Mutant: the in-flight window test dropped.
PrepareNextToSendNoWindow(s) ==
    /\ s = SeqAdd(lastSent, 1)
    /\ SeqLeq(s, lastWritten)
    /\ bufSize[Slot(s)] > Offset
    /\ lastSent' = s
    /\ lastWritten' = IF s = lastWritten THEN SeqAdd(lastWritten, 1)
                      ELSE lastWritten
    /\ UNCHANGED <<lastAcknown, bufSize, bufData, hbScheduled,
                   hbTriesNonZero, sendLost, msgCount, written>>

\* Mutant: sending last_written does not move last_written on.
PrepareNextToSendNoAdvance(s) ==
    /\ s = SeqAdd(lastSent, 1)
    /\ SeqLeq(s, lastWritten)
    /\ bufSize[Slot(s)] > Offset
    /\ SeqSub(lastSent, lastAcknown) # History
    /\ lastSent' = s
    /\ UNCHANGED <<lastWritten, lastAcknown, bufSize, bufData, hbScheduled,
                   hbTriesNonZero, sendLost, msgCount, written>>

(* uxr_prepare_next_reliable_buffer_to_send: slot last_sent + 1 is handed  *)
(* to the transport if it is written, non-empty and the in-flight window   *)
(* is not full; sending last_written moves last_written to a fresh slot.   *)
(* s is the sequence number sent.                                          *)
PrepareNextToSend(s) ==
    /\ s = SeqAdd(lastSent, 1)
    /\ SeqLeq(s, lastWritten)
    /\ bufSize[Slot(s)] > Offset
    /\ SeqSub(lastSent, lastAcknown) # History
    /\ lastSent' = s
    /\ lastWritten' = IF s = lastWritten THEN SeqAdd(lastWritten, 1)
                      ELSE lastWritten
    /\ UNCHANGED <<lastAcknown, bufSize, bufData, hbScheduled,
                   hbTriesNonZero, sendLost, msgCount, written>>

-----------------------------------------------------------------------------
(* uxr_update_output_stream_heartbeat_timestamp, as HeartbeatSchedule     *)
(* abstracts it: data is outstanding when last_acknown < last_sent.        *)
HB == INSTANCE HeartbeatSchedule WITH outstanding <- SeqLt(lastAcknown, lastSent)

HeartbeatArm == HB!Arm

HeartbeatDue == HB!Due          \* must_confirm = true

HeartbeatIdle == HB!Idle

-----------------------------------------------------------------------------
\* Mutant: the heartbeat try counter is not reset by an ACKNACK.
ProcessAcknackKeepTries(firstUnacked, nack) ==
    LET lastAcked == SeqSub(firstUnacked, 1)
        toClean   == SeqSub(lastAcked, lastAcknown)
        cleaned   == { Slot(SeqAdd(lastAcknown, k)) : k \in 1 .. toClean }
    IN
    /\ lastAcknown' = SeqAdd(lastAcknown, toClean)
    /\ bufSize' = [i \in Slots |-> IF i \in cleaned THEN Offset ELSE bufSize[i]]
    /\ bufData' = [i \in Slots |-> IF i \in cleaned THEN <<>> ELSE bufData[i]]
    /\ sendLost' = nack
    /\ UNCHANGED <<lastWritten, lastSent, hbScheduled, hbTriesNonZero,
                   msgCount, written>>

\* Mutant: the NACK bitmap is ignored (send_lost left as it was).
ProcessAcknackIgnoreBitmap(firstUnacked, nack) ==
    LET lastAcked == SeqSub(firstUnacked, 1)
        toClean   == SeqSub(lastAcked, lastAcknown)
        cleaned   == { Slot(SeqAdd(lastAcknown, k)) : k \in 1 .. toClean }
    IN
    /\ lastAcknown' = SeqAdd(lastAcknown, toClean)
    /\ bufSize' = [i \in Slots |-> IF i \in cleaned THEN Offset ELSE bufSize[i]]
    /\ bufData' = [i \in Slots |-> IF i \in cleaned THEN <<>> ELSE bufData[i]]
    /\ hbTriesNonZero' = FALSE
    /\ UNCHANGED <<lastWritten, lastSent, hbScheduled, sendLost, msgCount,
                   written>>

(* uxr_process_acknack(bitmap, first_unacked): last_acknown walks forward  *)
(* uxr_seq_num_sub(first_unacked - 1, last_acknown) steps, resetting the   *)
(* size of every slot it passes; send_lost := bitmap # 0; tries := 0.     *)
(* A walk of History steps or more passes every slot.                      *)
ProcessAcknack(firstUnacked, nack) ==
    LET lastAcked == SeqSub(firstUnacked, 1)
        toClean   == SeqSub(lastAcked, lastAcknown)
        cleaned   == { Slot(SeqAdd(lastAcknown, k)) : k \in 1 .. toClean }
    IN
    /\ lastAcknown' = SeqAdd(lastAcknown, toClean)
    /\ bufSize' = [i \in Slots |-> IF i \in cleaned THEN Offset ELSE bufSize[i]]
    /\ bufData' = [i \in Slots |-> IF i \in cleaned THEN <<>> ELSE bufData[i]]
    /\ sendLost' = nack
    /\ hbTriesNonZero' = FALSE
    /\ UNCHANGED <<lastWritten, lastSent, hbScheduled, msgCount, written>>

-----------------------------------------------------------------------------
(* uxr_next_reliable_nack_buffer_to_send(it).  While send_lost, the        *)
(* iterator walks forward from it; the first sequence number up to         *)
(* last_sent whose slot is not empty is returned; a walk that passes       *)
(* last_sent clears send_lost.  The result record gives the final          *)
(* iterator and whether a buffer was found.                                *)
RECURSIVE NackScan(_)
NackScan(it) ==
    LET n == SeqAdd(it, 1) IN
    IF ~SeqLeq(n, lastSent) THEN [found |-> FALSE, it |-> n]
    ELSE IF bufSize[Slot(n)] # Offset THEN [found |-> TRUE, it |-> n]
    ELSE NackScan(n)

NextNackToSend(it, r) ==
    /\ sendLost
    /\ r = NackScan(it)
    /\ sendLost' = r.found
    /\ UNCHANGED <<lastWritten, lastSent, lastAcknown, bufSize, bufData,
                   hbScheduled, hbTriesNonZero, msgCount, written>>

\* uxr_is_output_up_to_date
IsUpToDate == SeqCmp(lastAcknown, lastSent) = 0

-----------------------------------------------------------------------------
StreamTypeOK ==
    /\ lastWritten \in SeqNums
    /\ lastSent \in SeqNums
    /\ lastAcknown \in SeqNums
    /\ bufSize \in [Slots -> Offset .. Capacity]
    /\ bufData \in [Slots -> Seq(Pieces)]
    /\ hbScheduled \in BOOLEAN
    /\ hbTriesNonZero \in BOOLEAN
    /\ sendLost \in BOOLEAN
    /\ msgCount \in 0 .. MaxMsgs
    /\ written \in Seq(Pieces)
=============================================================================
