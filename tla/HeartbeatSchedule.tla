-------------------------- MODULE HeartbeatSchedule --------------------------
(***************************************************************************)
(* The heartbeat schedule of the output reliable stream as the stream's    *)
(* control sees it (output_reliable_stream.c,                             *)
(* uxr_update_output_stream_heartbeat_timestamp and the tries reset of    *)
(* uxr_process_acknack): whether next_heartbeat_timestamp is a deadline   *)
(* (not INT64_MAX) and whether next_heartbeat_tries is non-zero.  When a  *)
(* deadline passes is left open: the clock is abstracted away.            *)
(*                                                                         *)
(* OutputReliableStream instantiates this module with `outstanding` the   *)
(* stream's last_acknown < last_sent; HeartbeatTimer, which keeps the     *)
(* clock and the back-off arithmetic, is checked to implement it.          *)
(***************************************************************************)
VARIABLES
    outstanding,     \* uxr_seq_num_cmp(last_acknown, last_sent) < 0
    hbScheduled,     \* next_heartbeat_timestamp # INT64_MAX
    hbTriesNonZero   \* next_heartbeat_tries # 0

hbVars == <<outstanding, hbScheduled, hbTriesNonZero>>

\* With data outstanding, the first call arms the timer (tries 0 -> 1).
Arm ==
    /\ outstanding
    /\ ~hbTriesNonZero
    /\ hbScheduled' = TRUE
    /\ hbTriesNonZero' = TRUE

\* A later call at or after the deadline reports must_confirm.
\* current_timestamp >= next_heartbeat_timestamp cannot hold while the
\* timestamp is INT64_MAX, so a due heartbeat needs a scheduled one.
Due ==
    /\ outstanding
    /\ hbTriesNonZero
    /\ hbScheduled
    /\ UNCHANGED <<hbScheduled, hbTriesNonZero>>

\* Nothing outstanding: the timestamp is set to INT64_MAX.
Idle ==
    /\ ~outstanding
    /\ hbScheduled
    /\ hbScheduled' = FALSE
    /\ UNCHANGED hbTriesNonZero

\* uxr_process_acknack: whatever it acknowledges, tries := 0.
Acknack ==
    /\ hbTriesNonZero' = FALSE
    /\ UNCHANGED hbScheduled

\* uxr_prepare_next_reliable_buffer_to_send hands out a new sequence
\* number: data is outstanding; the schedule is left alone.
Send ==
    /\ outstanding' = TRUE
    /\ UNCHANGED <<hbScheduled, hbTriesNonZero>>

ScheduleInit ==
    /\ outstanding = FALSE
    /\ hbScheduled = FALSE
    /\ hbTriesNonZero = FALSE

ScheduleNext ==
    \/ Arm /\ UNCHANGED outstanding
    \/ Due /\ UNCHANGED outstanding
    \/ Idle /\ UNCHANGED outstanding
    \/ Acknack
    \/ Send

ScheduleSpec == ScheduleInit /\ [][ScheduleNext]_hbVars
=============================================================================
