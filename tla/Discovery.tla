------------------------------ MODULE Discovery ------------------------------
(***************************************************************************)
(* Agent discovery of the client (src/c/profile/discovery/discovery.c      *)
(* over the datagram transport of                                          *)
(* discovery/transport/udp_transport_datagram_freertos_plus_tcp.c).        *)
(*                                                                         *)
(* uxr_discovery_agents opens a datagram socket and, for up to `attempts`  *)
(* rounds, sends GET_INFO to every locator of the agent list and listens   *)
(* for INFO replies for `period` ms; every locator of a well-formed INFO   *)
(* with the client's XRCE version is offered to the application callback   *)
(* on_agent, whose answer says whether the agent is taken.                 *)
(*                                                                         *)
(* Time is counted in ms from the timestamp taken after the sends of the   *)
(* current attempt.  The contents of a datagram are abstracted to what     *)
(* the parsing path branches on.  A field the code reads without having    *)
(* deserialised it (an uninitialised stack variable) takes any value.      *)
(***************************************************************************)
EXTENDS Integers, Sequences

CONSTANTS
    Attempts,        \* attempts
    Period,          \* period (ms)
    AgentListSize,   \* agent_list_size
    LocatorMax,      \* UXR_TRANSPORT_LOCATOR_SEQUENCE_MAX
    MaxDatagrams,    \* bound on datagrams that reach the socket
    TickMs           \* ms per FreeRTOS tick: 1000 / configTICK_RATE_HZ

ASSUME TickMs \in Nat \ {0}

VARIABLES
    pc,              \* "init" | "attempt" | "send" | "listen" | "done"
    a,               \* attempt counter of the outer loop
    i,               \* index of the send loop over agent_list
    found,           \* is_agent_found
    poll,            \* poll: the remaining listening budget
    elapsed,         \* uxr_millis() - timestamp
    datagrams,       \* datagrams received so far
    callbacks,       \* answers of on_agent, in call order (history)
    socket,          \* transport.fd is an open FreeRTOS socket
    socketSet        \* transport.poll_fd is an allocated socket set

vars == <<pc, a, i, found, poll, elapsed, datagrams, callbacks,
          socket, socketSet>>

\* What a datagram on the discovery port can be, as far as the parsing path
\* tells apart: a valid message/submessage header or not; an INFO whose
\* optional config is present (with a matching version or not), whose
\* optional activity is present (describing an agent or not), and the
\* length of address_seq it announces.
Datagrams ==
    [header : {FALSE}] \cup
    [header : {TRUE}, config : BOOLEAN, version : BOOLEAN,
     activity : BOOLEAN, agent : BOOLEAN, addrs : 0 .. LocatorMax + 1]

\* read_info_headers: the message header and a submessage header parse.
ReadInfoHeaders(dg) == dg.header

\* uxr_deserialize_discovery_INFO_Payload: fails when the activity is
\* present but not that of an agent.
DeserializeInfo(dg) == dg.activity => dg.agent

\* The address_seq.size read_info_message loops over: the announced length
\* clamped to UXR_TRANSPORT_LOCATOR_SEQUENCE_MAX when the activity was
\* deserialised; otherwise the uninitialised field, any value, where
\* LocatorMax + 1 stands for every value past the array.
LocatorCounts(dg) ==
    IF dg.activity
    THEN {IF dg.addrs > LocatorMax THEN LocatorMax ELSE dg.addrs}
    ELSE 0 .. LocatorMax + 1

\* Whether the version memcmp matches: the deserialised version, or the
\* uninitialised one when the config was absent.
VersionMatches(dg) == IF dg.config THEN {dg.version} ELSE BOOLEAN

DiscoveryInit ==
    /\ pc = "init"
    /\ a = 0
    /\ i = 0
    /\ found = FALSE
    /\ poll = 0
    /\ elapsed = 0
    /\ datagrams = 0
    /\ callbacks = <<>>
    /\ socket = FALSE
    /\ socketSet = FALSE

\* uxr_init_udp_transport_datagram: FreeRTOS_socket may fail; otherwise
\* FreeRTOS_CreateSocketSet may fail, and the socket is kept open.  Unless
\* both succeed, uxr_discovery_agents returns at once.
InitTransport ==
    /\ pc = "init"
    /\ \/ /\ socket' = FALSE /\ socketSet' = FALSE /\ pc' = "done"
       \/ /\ socket' = TRUE  /\ socketSet' = FALSE /\ pc' = "done"
       \/ /\ socket' = TRUE  /\ socketSet' = TRUE  /\ pc' = "attempt"
    /\ UNCHANGED <<a, i, found, poll, elapsed, datagrams, callbacks>>

\* uxr_close_udp_transport_datagram: FreeRTOS_closesocket on the socket;
\* the socket set is not deleted.
CloseTransport ==
    /\ socket' = FALSE
    /\ UNCHANGED socketSet

\* The test of the outer for loop: another attempt, or close the socket.
AttemptLoop ==
    /\ pc = "attempt"
    /\ IF a < Attempts /\ ~found
       THEN pc' = "send" /\ UNCHANGED <<socket, socketSet>>
       ELSE pc' = "done" /\ CloseTransport
    /\ i' = 0
    /\ UNCHANGED <<a, found, poll, elapsed, datagrams, callbacks>>

\* One GET_INFO to agent_list[i]; the result of uxr_udp_send_datagram_to is
\* ignored.  After the last one the attempt's timestamp is taken and the
\* budget is the whole period.
SendGetInfo ==
    /\ pc = "send"
    /\ IF i < AgentListSize
       THEN /\ i' = i + 1
            /\ UNCHANGED <<pc, poll, elapsed>>
       ELSE /\ pc' = "listen"
            /\ poll' = Period
            /\ elapsed' = 0
            /\ UNCHANGED i
    /\ UNCHANGED <<a, found, datagrams, callbacks, socket, socketSet>>

\* read_info_message: every locator of the sequence is offered to on_agent
\* when the version matches, and is_succeed is the answer for the last one.
ReadInfoMessage(n, vm, answers) ==
    /\ callbacks' = IF vm THEN callbacks \o answers ELSE callbacks
    /\ found' = (vm /\ n > 0 /\ answers[n])

\* pdMS_TO_TICKS(timeout): the poll in whole ticks, rounded down.
TimeoutTicks(p) == p \div TickMs

\* How long FreeRTOS_select blocks for `t` ticks, as uxr_millis sees it:
\* the first tick may come at once, so between t - 1 and t tick periods.
\* For 0 ticks it returns at once; the loop then spins, and each pass
\* sees uxr_millis advance by 0 or 1 ms.
SelectWait(p) ==
    LET t == TimeoutTicks(p)
    IN  IF t = 0 THEN 0 .. 1 ELSE (t - 1) * TickMs .. t * TickMs

\* uxr_udp_recv_datagram(transport, &buf, &len, poll): FreeRTOS_select
\* returns 0 when its timeout expires with nothing to read, and the call
\* fails.
RecvTimeout ==
    /\ \E d \in SelectWait(poll) : elapsed' = elapsed + d
    /\ UNCHANGED datagrams

\* Or select returns within the `poll` ms, because the socket is readable
\* (> 0) or on an error (< 0); FreeRTOS_recvfrom may then still return no
\* bytes.  Every such return is an event on the socket, at most
\* MaxDatagrams of them.
RecvEvent ==
    /\ datagrams < MaxDatagrams
    /\ datagrams' = datagrams + 1
    /\ \E d \in 0 .. TimeoutTicks(poll) * TickMs : elapsed' = elapsed + d

\* listen_info_message(transport, poll): a received datagram whose headers
\* parse and whose INFO deserialises is read by read_info_message; any
\* other outcome leaves is_agent_found false.
ListenInfoMessage ==
    \/ /\ RecvTimeout
       /\ UNCHANGED <<found, callbacks>>
    \/ /\ RecvEvent
       /\ \/ UNCHANGED <<found, callbacks>>       \* nothing received
          \/ \E dg \in Datagrams :
                IF ReadInfoHeaders(dg) /\ DeserializeInfo(dg)
                THEN \E n \in LocatorCounts(dg), vm \in VersionMatches(dg) :
                       \E answers \in [1 .. n -> BOOLEAN] :
                          ReadInfoMessage(n, vm, answers)
                ELSE UNCHANGED <<found, callbacks>>

ListenNoDecrement ==
    /\ pc = "listen"
    /\ 0 < poll /\ ~found
    /\ ListenInfoMessage
    /\ UNCHANGED <<pc, a, i, poll, socket, socketSet>>

\* One pass of the inner while loop: while budget is left and no agent is
\* taken, listen for up to `poll` ms, then take the whole time since the
\* attempt's timestamp off the budget.
Listen ==
    /\ pc = "listen"
    /\ 0 < poll /\ ~found
    /\ ListenInfoMessage
    /\ poll' = poll - elapsed'
    /\ UNCHANGED <<pc, a, i, socket, socketSet>>

EndAttemptNoIncrement ==
    /\ pc = "listen"
    /\ ~(0 < poll /\ ~found)
    /\ pc' = "attempt"
    /\ UNCHANGED <<a, i, found, poll, elapsed, datagrams, callbacks,
                   socket, socketSet>>

\* The while test fails: the attempt is over.
EndAttempt ==
    /\ pc = "listen"
    /\ ~(0 < poll /\ ~found)
    /\ pc' = "attempt"
    /\ a' = a + 1
    /\ UNCHANGED <<i, found, poll, elapsed, datagrams, callbacks,
                   socket, socketSet>>

\* uxr_discovery_agents has returned.
Done ==
    /\ pc = "done"
    /\ UNCHANGED vars

Next ==
    \/ InitTransport
    \/ AttemptLoop
    \/ SendGetInfo
    \/ Listen
    \/ EndAttempt
    \/ Done

Spec == DiscoveryInit /\ [][Next]_vars

\* Discovery is one sequential call: while it has not returned, its next
\* step is taken.  Datagrams are finitely many, so every wait ends; a pass
\* in which uxr_millis has not moved is a stutter step, and wall-clock time
\* passing makes a later pass see it move.
FairSpec == Spec /\ WF_vars(Next /\ pc # "done")

-----------------------------------------------------------------------------
TypeOK ==
    /\ pc \in {"init", "attempt", "send", "listen", "done"}
    /\ a \in 0 .. Attempts
    /\ i \in 0 .. AgentListSize
    /\ found \in BOOLEAN
    /\ poll \in -Period .. Period
    /\ elapsed \in 0 .. Period
    /\ datagrams \in 0 .. MaxDatagrams
    /\ callbacks \in Seq(BOOLEAN)
    /\ socket \in BOOLEAN
    /\ socketSet \in BOOLEAN

\* uxr_discovery_agents always returns, whatever replies arrive.
DiscoveryReturns == <>(pc = "done")

\* The remaining-time comment of the inner loop: an attempt that finds no
\* agent listens for its whole period before the next attempt.
AttemptListensFullPeriod ==
    (pc = "listen" /\ ~found /\ poll <= 0) => elapsed >= Period

\* The callback's answer ends discovery: on_agent is never called again
\* after it has returned true.
NoCallbackAfterAccept ==
    \A j \in 1 .. Len(callbacks) - 1 : ~callbacks[j]
=============================================================================
