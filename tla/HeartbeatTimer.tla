---------------------------- MODULE HeartbeatTimer ----------------------------
(***************************************************************************)
(* The heartbeat timer of the output reliable stream with its clock        *)
(* (output_reliable_stream.c, uxr_update_output_stream_heartbeat_timestamp *)
(* with next_heartbeat_timestamp and next_heartbeat_tries, and the tries   *)
(* reset of uxr_process_acknack), polled by the session with               *)
(* current_timestamp = uxr_millis().                                       *)
(*                                                                         *)
(* Time is kept relative to the present: `wait` is                         *)
(* next_heartbeat_timestamp - current_timestamp while the timestamp is a   *)
(* deadline; time passing lowers it.  Only how late a poll is up to the    *)
(* largest increment matters to the arithmetic, so lateness is clamped     *)
(* there.  Time is counted in units of 1 ms.                               *)
(*                                                                         *)
(* The stream around the timer is reduced to whether data is outstanding   *)
(* (last_acknown < last_sent); the peer answers a HEARTBEAT with an        *)
(* ACKNACK, as in ReliableTransfer.                                        *)
(***************************************************************************)
EXTENDS Integers

CONSTANTS
    MinInterval,   \* MIN_HEARTBEAT_TIME_INTERVAL (ms)
    ShiftMod,      \* MAX_HEARTBEAT_TRIES = sizeof(int64_t) * 8 - 1
    TriesMod,      \* next_heartbeat_tries is a uint8_t: 256
    MaxStep,       \* largest time step between two polls (ms)
    MaxTries       \* bound: the peer answers before the MaxTries-th retry

ASSUME /\ MinInterval \in Nat \ {0}
       /\ MaxTries \in 1 .. TriesMod - 2

VARIABLES
    outstanding,   \* uxr_seq_num_cmp(last_acknown, last_sent) < 0
    scheduled,     \* next_heartbeat_timestamp # INT64_MAX
    wait,          \* next_heartbeat_timestamp - current_timestamp
    tries,         \* next_heartbeat_tries
    confirmed,     \* what the last step's poll returned (must_confirm)
    unanswered,    \* a HEARTBEAT was sent since the last ACKNACK
    burst          \* history: HEARTBEATs fired since time last passed

vars == <<outstanding, scheduled, wait, tries, confirmed, unanswered, burst>>

\* MIN_HEARTBEAT_TIME_INTERVAL << (tries % MAX_HEARTBEAT_TRIES)
Increment(t) == MinInterval * 2 ^ (t % ShiftMod)

\* A heartbeat fires with tries <= MaxTries, so lateness beyond the largest
\* increment of a run is not told apart.
LateCap == Increment(MaxTries)

TimerInit ==
    /\ outstanding = FALSE
    /\ scheduled = FALSE
    /\ wait = 0
    /\ tries = 0
    /\ confirmed = FALSE
    /\ unanswered = FALSE
    /\ burst = 0

\* Time passes before the next poll.  Retry rounds past MaxTries are not
\* explored: by then the peer's ACKNACK arrives (see Fairness).
Elapse ==
    /\ tries < MaxTries
    /\ \E d \in 1 .. MaxStep :
          wait' = IF scheduled THEN IF wait - d < -LateCap THEN -LateCap ELSE wait - d
                  ELSE wait
    /\ confirmed' = FALSE
    /\ burst' = 0
    /\ UNCHANGED <<outstanding, scheduled, tries, unanswered>>

\* Mutant: the first call sets the deadline but leaves tries at 0.
ArmTimerNoTries ==
    /\ scheduled' = TRUE
    /\ wait' = MinInterval
    /\ UNCHANGED <<tries, unanswered>>

\* The first call with data outstanding (tries = 0): the deadline is set
\* MIN_HEARTBEAT_TIME_INTERVAL ahead and tries := 1.
ArmTimer ==
    /\ scheduled' = TRUE
    /\ wait' = MinInterval
    /\ tries' = 1
    /\ UNCHANGED unanswered

\* current_timestamp >= next_heartbeat_timestamp (never while INT64_MAX).
HeartbeatDue == scheduled /\ wait <= 0

\* Mutant: the deadline moves by the increment alone, without catching up
\* with a late poll.
FireHeartbeatNoCatchUp ==
    /\ wait' = wait + Increment(tries)
    /\ tries' = (tries + 1) % TriesMod
    /\ unanswered' = TRUE
    /\ UNCHANGED scheduled

\* Mutant: the shift uses the incremented try counter.
FireHeartbeatShiftAfter ==
    LET difference == -wait
        increment  == Increment(tries + 1)
    IN  /\ wait' = wait + (IF difference > increment THEN difference ELSE increment)
        /\ tries' = (tries + 1) % TriesMod
        /\ unanswered' = TRUE
        /\ UNCHANGED scheduled

\* The deadline moves by max(now - deadline, MIN << (tries % 63)), tries is
\* incremented and must_confirm returned: the session sends a HEARTBEAT.
FireHeartbeat ==
    LET difference == -wait
        increment  == Increment(tries)
    IN  /\ wait' = wait + (IF difference > increment THEN difference ELSE increment)
        /\ tries' = (tries + 1) % TriesMod
        /\ unanswered' = TRUE
        /\ UNCHANGED scheduled

\* Nothing outstanding: the deadline becomes INT64_MAX.
Disarm ==
    /\ scheduled' = FALSE
    /\ wait' = 0
    /\ UNCHANGED <<tries, unanswered>>

\* uxr_update_output_stream_heartbeat_timestamp(current_timestamp).
Update ==
    /\ IF outstanding
       THEN IF tries = 0 THEN ArmTimer
            ELSE IF HeartbeatDue THEN FireHeartbeat
            ELSE UNCHANGED <<scheduled, wait, tries, unanswered>>
       ELSE Disarm
    /\ confirmed' = (outstanding /\ tries # 0 /\ HeartbeatDue)
    /\ burst' = IF confirmed' THEN burst + 1 ELSE burst
    /\ UNCHANGED outstanding

\* uxr_prepare_next_reliable_buffer_to_send hands out a sequence number.
Send ==
    /\ outstanding' = TRUE
    /\ confirmed' = FALSE
    /\ UNCHANGED <<scheduled, wait, tries, unanswered, burst>>

\* Mutant: uxr_process_acknack leaves the try counter alone.
AcknackKeepTries ==
    /\ unanswered
    /\ outstanding' \in {outstanding, FALSE}
    /\ unanswered' = FALSE
    /\ confirmed' = FALSE
    /\ UNCHANGED <<scheduled, wait, tries, burst>>

\* The ACKNACK answering a HEARTBEAT: uxr_process_acknack acknowledges
\* some (outstanding stays) or all (nothing outstanding) of the sent data
\* and resets next_heartbeat_tries to 0; the deadline is left as it is.
Acknack ==
    /\ unanswered
    /\ outstanding' \in {outstanding, FALSE}
    /\ tries' = 0
    /\ unanswered' = FALSE
    /\ confirmed' = FALSE
    /\ UNCHANGED <<scheduled, wait, burst>>

Next == Elapse \/ Update \/ Send \/ Acknack

Spec == TimerInit /\ [][Next]_vars

(* The session loop polls the timer on every iteration, and time passes:   *)
(* Update and Elapse are weakly fair.  The peer's answer is not fair,      *)
(* except at the bound MaxTries, where the model assumes it arrives.       *)
Fairness ==
    /\ WF_vars(Update)
    /\ WF_vars(Elapse)
    /\ WF_vars(tries >= MaxTries /\ Acknack)

FairSpec == Spec /\ Fairness

-----------------------------------------------------------------------------
TypeOK ==
    /\ outstanding \in BOOLEAN
    /\ scheduled \in BOOLEAN
    /\ wait \in -LateCap .. LateCap
    /\ tries \in 0 .. TriesMod - 1
    /\ confirmed \in BOOLEAN
    /\ unanswered \in BOOLEAN
    /\ burst \in Nat

(* Refinement: the timer with its clock implements the boolean schedule    *)
(* that OutputReliableStream (and so every ReliableTransfer run) assumes:  *)
(* every poll, ACKNACK and send is an Arm, Due, Idle, Acknack or Send step *)
(* of HeartbeatSchedule, or leaves the schedule as it is.                  *)
Schedule == INSTANCE HeartbeatSchedule
                WITH hbScheduled <- scheduled, hbTriesNonZero <- tries # 0

StreamHeartbeatRefined == Schedule!ScheduleSpec

\* The retry is never stranded: whenever data is outstanding, the session
\* eventually sends a HEARTBEAT for it (or the data is acknowledged),
\* however late the polls and whichever ACKNACKs come.
HeartbeatEventuallySent == outstanding ~> (confirmed \/ ~outstanding)

\* The catch-up of a late poll (difference > increment) moves the deadline
\* to the current time, so the next poll in the same millisecond sends a
\* second HEARTBEAT at once; the deadline is then one increment ahead.
\* However many increments late the session polls, no more than two
\* HEARTBEATs go out before time passes again.
HeartbeatBurstBounded == burst <= 2
=============================================================================
