--------------------------- MODULE ReliableTransfer ---------------------------
(***************************************************************************)
(* The output reliable stream driven by its session and talking to a       *)
(* receiving peer over datagram channels.                                  *)
(*                                                                         *)
(*  - the producer calls uxr_prepare_reliable_buffer_to_write and          *)
(*    serialises one message;                                              *)
(*  - the session flushes with uxr_prepare_next_reliable_buffer_to_send,   *)
(*    polls uxr_update_output_stream_heartbeat_timestamp and sends a       *)
(*    HEARTBEAT(last_acknown + 1, last_sent) when it reports must_confirm; *)
(*  - on an ACKNACK it calls uxr_process_acknack, takes the iterator from  *)
(*    uxr_begin_output_nack_buffer_it and replays with                     *)
(*    uxr_next_reliable_nack_buffer_to_send;                               *)
(*  - the peer (the agent's input reliable stream, outside src/) accepts   *)
(*    DATA in sequence order and answers each HEARTBEAT with an ACKNACK    *)
(*    whose first_unacked is the next sequence number it expects.          *)
(*                                                                         *)
(* DATA and HEARTBEAT datagrams may be lost and reordered (the network is  *)
(* a set); a DATA datagram is duplicated whenever it is sent again, by a   *)
(* NACK replay.  ACKNACKs may be lost; whether they may also be reordered  *)
(* is the constant AckReorder.                                             *)
(***************************************************************************)
EXTENDS Integers, Sequences, FiniteSets, SequencesExt, OutputReliableStream

CONSTANTS
    Lengths,      \* lengths the producer may ask for
    AckReorder,   \* TRUE: ACKNACKs may overtake each other
    MaxAcks       \* bound on ACKNACKs in the network at once

VARIABLES
    nackIt,       \* the session's iterator for the NACK replay
    expected,     \* peer: next sequence number it accepts
    received,     \* peer: pieces delivered in order (history variable)
    dataNet,      \* DATA datagrams in the network: [seq, data]
    hbNet,        \* HEARTBEAT datagrams in the network: [first, last]
    ackNet        \* ACKNACK datagrams in the network, oldest first

netVars == <<dataNet, hbNet, ackNet>>
peerVars == <<expected, received>>
vars == <<streamVars, nackIt, peerVars, netVars>>

Init ==
    /\ StreamInit
    /\ nackIt = lastAcknown
    /\ expected = 0
    /\ received = <<>>
    /\ dataNet = {}
    /\ hbNet = {}
    /\ ackNet = <<>>

-----------------------------------------------------------------------------
(* Sender side                                                             *)

\* The producer: the publish loop of examples/PublishHelloWorld calls
\* uxr_prepare_output_stream for each topic and serialises it, up to
\* max_topics (MaxMsgs) of them, running the session between two topics.
Write(len) ==
    /\ PrepareToWrite(len)
    /\ UNCHANGED <<nackIt, peerVars, netVars>>

\* One iteration of the session's flush loop: the buffer handed out by
\* uxr_prepare_next_reliable_buffer_to_send goes to the transport.
SendNext ==
    \E s \in SeqNums :
        /\ PrepareNextToSend(s)
        /\ dataNet' = dataNet \cup {[seq |-> s, data |-> bufData[Slot(s)]]}
        /\ UNCHANGED <<nackIt, peerVars, hbNet, ackNet>>

ArmHeartbeat ==
    /\ HeartbeatArm
    /\ UNCHANGED <<lastWritten, lastSent, lastAcknown, bufSize, bufData,
                   sendLost, msgCount, written, nackIt, peerVars, netVars>>

SendHeartbeat ==
    /\ HeartbeatDue
    /\ hbNet' = hbNet \cup {[first |-> SeqAdd(lastAcknown, 1), last |-> lastSent]}
    /\ UNCHANGED <<lastWritten, lastSent, lastAcknown, bufSize, bufData,
                   sendLost, msgCount, written, nackIt, peerVars, dataNet,
                   ackNet>>

UnscheduleHeartbeat ==
    /\ HeartbeatIdle
    /\ UNCHANGED <<lastWritten, lastSent, lastAcknown, bufSize, bufData,
                   sendLost, msgCount, written, nackIt, peerVars, netVars>>

\* The ACKNACK the session takes next: the oldest one, or any one when
\* ACKNACKs may be reordered.
NextAckIndex == IF AckReorder \/ ackNet = <<>> THEN 1 .. Len(ackNet) ELSE {1}

ReceiveAcknack ==
    \E i \in NextAckIndex :
        LET a == ackNet[i] IN
        /\ ProcessAcknack(a.first, a.nack)
        /\ nackIt' = lastAcknown'
        /\ ackNet' = RemoveAt(ackNet, i)
        /\ UNCHANGED <<peerVars, dataNet, hbNet>>

ResendLost ==
    \E r \in [found : BOOLEAN, it : SeqNums] :
        /\ NextNackToSend(nackIt, r)
        /\ nackIt' = r.it
        /\ dataNet' = IF r.found
                      THEN dataNet \cup {[seq |-> r.it, data |-> bufData[Slot(r.it)]]}
                      ELSE dataNet
        /\ UNCHANGED <<peerVars, hbNet, ackNet>>

-----------------------------------------------------------------------------
(* Peer side                                                               *)

\* DATA for the sequence number the peer expects is accepted: its pieces are
\* delivered and the peer expects the next one.
PeerAcceptData ==
    \E d \in dataNet :
        /\ d.seq = expected
        /\ dataNet' = dataNet \ {d}
        /\ received' = received \o d.data
        /\ expected' = SeqAdd(expected, 1)
        /\ UNCHANGED <<streamVars, nackIt, hbNet, ackNet>>

\* DATA for any other sequence number (a duplicate or one that overtook a
\* lost one) is dropped.
PeerDiscardData ==
    \E d \in dataNet :
        /\ d.seq # expected
        /\ dataNet' = dataNet \ {d}
        /\ UNCHANGED <<streamVars, nackIt, peerVars, hbNet, ackNet>>

PeerReceiveHeartbeat ==
    \E h \in hbNet :
        /\ Len(ackNet) < MaxAcks
        /\ hbNet' = hbNet \ {h}
        /\ ackNet' = Append(ackNet, [first |-> expected,
                                     nack  |-> SeqLeq(expected, h.last)])
        /\ UNCHANGED <<streamVars, nackIt, peerVars, dataNet>>

-----------------------------------------------------------------------------
(* Network faults.  A datagram is lost in the network, or already by its   *)
(* sender: send_udp_msg of the client's UDP transport returns false when   *)
(* sendto fails or sends short, and the agent's send_msg_function reports  *)
(* server_error; neither call is retried, the reliable stream recovers     *)
(* through HEARTBEAT and NACK replay.                                      *)

LoseData == \E d \in dataNet : dataNet' = dataNet \ {d}
            /\ UNCHANGED <<streamVars, nackIt, peerVars, hbNet, ackNet>>
LoseHeartbeat == \E h \in hbNet : hbNet' = hbNet \ {h}
            /\ UNCHANGED <<streamVars, nackIt, peerVars, dataNet, ackNet>>
LoseAcknack == \E i \in 1 .. Len(ackNet) : ackNet' = RemoveAt(ackNet, i)
            /\ UNCHANGED <<streamVars, nackIt, peerVars, dataNet, hbNet>>

\* The producer has written its MaxMsgs messages and all are acknowledged:
\* the session keeps polling with nothing to do.  Only the bound on the
\* producer ends a behaviour, so this is the one state allowed to stutter.
Finished ==
    /\ msgCount = MaxMsgs
    /\ IsUpToDate
    /\ UNCHANGED vars

-----------------------------------------------------------------------------
Next ==
    \/ \E len \in Lengths : Write(len)
    \/ SendNext
    \/ ArmHeartbeat
    \/ SendHeartbeat
    \/ UnscheduleHeartbeat
    \/ ReceiveAcknack
    \/ ResendLost
    \/ PeerAcceptData
    \/ PeerDiscardData
    \/ PeerReceiveHeartbeat
    \/ LoseData
    \/ LoseHeartbeat
    \/ LoseAcknack
    \/ Finished

Spec == Init /\ [][Next]_vars

(* The session loop (uxr_run_session_time) keeps flushing the output       *)
(* streams, polling the heartbeat timer and reading the transport, and     *)
(* time advances, so the sender's steps are weakly fair.  A datagram sent  *)
(* again and again is eventually received: accepting the DATA the peer     *)
(* waits for, receiving a HEARTBEAT and receiving an ACKNACK are strongly  *)
(* fair.  The producer, the losses and the discards are not fair.          *)
Fairness ==
    /\ WF_vars(SendNext)
    /\ WF_vars(ArmHeartbeat)
    /\ WF_vars(SendHeartbeat)
    /\ WF_vars(ResendLost)
    /\ SF_vars(ReceiveAcknack)
    /\ SF_vars(PeerAcceptData)
    /\ SF_vars(PeerReceiveHeartbeat)

FairSpec == Spec /\ Fairness

\* State constraint for runs in which the stream may resend stale slots
\* under new sequence numbers without end: bounds what the peer accepts.
MaxReceived == 2 * MaxMsgs
ReceivedBound == Len(received) <= MaxReceived

-----------------------------------------------------------------------------
TypeOK ==
    /\ StreamTypeOK
    /\ nackIt \in SeqNums
    /\ expected \in SeqNums
    /\ received \in Seq(Pieces)
    /\ dataNet \subseteq [seq : SeqNums, data : Seq(Pieces)]
    /\ hbNet \subseteq [first : SeqNums, last : SeqNums]
    /\ ackNet \in Seq([first : SeqNums, nack : BOOLEAN])

\* End-to-end: what the peer has accepted, in order, is exactly a prefix of
\* what the producer wrote -- nothing lost, duplicated, reordered or
\* replaced, across the write path, the send path, acknowledgment and NACK
\* replay.
DeliveredIsWrittenPrefix == IsPrefix(received, written)

\* A DATA datagram still in the network for a sequence number that is sent
\* and not yet acknowledged carries what that slot holds now: a replay (by
\* NACK) of a sequence number sends the same data as its first transmission,
\* i.e. no write reuses a slot that is still in flight.
InFlightSlotsUnchanged ==
    \A d \in dataNet :
        d.seq \in SeqRange(lastAcknown, lastSent) => bufData[Slot(d.seq)] = d.data

\* The watermarks keep their order on the ring: last_acknown <= last_sent <
\* last_written, at most History sequence numbers are in flight and
\* last_written is at most one past a full window.
WatermarkOrder ==
    /\ SeqSub(lastSent, lastAcknown) <= History
    /\ SeqSub(lastSent, lastAcknown) < SeqSub(lastWritten, lastAcknown)
    /\ SeqSub(lastWritten, lastAcknown) <= History + 1

(* Refinement: the stream, its session and the peer implement the         *)
(* abstract reliable delivery of ReliableDelivery.  The producer's         *)
(* messages are 1 .. msgCount in write order; a message counts as          *)
(* delivered when the peer has accepted its last piece (the whole message, *)
(* or its last fragment).                                                  *)
CompletedMsgs ==
    LET ends == SelectSeq(received, LAMBDA p : p.last) IN
    [i \in 1 .. Len(ends) |-> ends[i].msg]

Delivery == INSTANCE ReliableDelivery
                WITH Msgs <- 1 .. MaxMsgs,
                     sent <- [i \in 1 .. msgCount |-> i],
                     delivered <- CompletedMsgs

\* Every step of the system is a step of the abstract delivery: nothing is
\* ever handed over out of order, twice, or before it was written.
DeliveryRefined == Delivery!SafeSpec

\* The same, with the promise that every written message is delivered.
DeliveryRefinedLive == Delivery!Spec

\* The retry timer cannot be stranded: while sent data is unacknowledged
\* and the try counter is non-zero (so the next call will not re-arm), the
\* heartbeat timestamp is a real deadline and not INT64_MAX -- otherwise
\* no heartbeat, hence no ACKNACK and no replay, would ever come again.
RetryTimerArmed ==
    SeqLt(lastAcknown, lastSent) /\ hbTriesNonZero => hbScheduled
=============================================================================
