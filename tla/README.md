# TLA+ models of the XRCE-DDS client reliable stream, agent scheduler and discovery

This directory holds TLA+ models of the code under `src/`, the TLC
configurations that check them, and `PROJECT.json`, which records:

- each component and whether it is modelled;
- each run and the properties it checks;
- the mutants that show each property can fail;
- the source lines each definition translates (the map);
- the findings and the hazards.

## The system and its parts

| Part | Source | Role |
|---|---|---|
| Sequence numbers | `client/src/c/core/session/stream/seq_num.c` | 16-bit wrap-around add, sub and midpoint compare |
| Output reliable stream | `client/src/c/core/session/stream/output_reliable_stream.c`, its header | Ring of `history` slots indexed by `seq % history`, with the watermarks `last_written`, `last_sent` and `last_acknown` |
| Fragmentation | same file, third branch of `uxr_prepare_reliable_buffer_to_write`, and `on_full_output_buffer` | A message larger than a slot is written as a chain of FRAGMENT submessages over consecutive slots |
| Heartbeat timer | `uxr_update_output_stream_heartbeat_timestamp` | Arms, fires with back-off and disarms the HEARTBEAT that asks the peer for an ACKNACK |
| FCFS task scheduler | `agent/include/uxr/agent/scheduler/FCFSScheduler.hpp` (interface `Scheduler.hpp`) | Bounded deque with one mutex and one condition variable, shared by many producer and consumer threads |
| Discovery | `client/src/c/profile/discovery/discovery.c` over `udp_transport_datagram_freertos_plus_tcp.c` | Sends GET_INFO to a list of agents, listens for INFO, offers each locator to the application callback |
| UDP transport, ProxyClient, examples | `udp_transport.c`, `ProxyClient.hpp`, `examples/` | I/O glue, a bare declaration, and wiring |

How they interact. The session (not under `src/`) serves a producer: it
calls the stream's write path, flushes unsent slots to the transport and polls
the heartbeat timer. It also feeds every ACKNACK it receives to
`uxr_process_acknack` and then replays NACKed slots with
`uxr_next_reliable_nack_buffer_to_send`. The peer is the agent's input
reliable stream. It accepts DATA in sequence order and answers each HEARTBEAT
with an ACKNACK naming the next sequence number it expects. The network may
lose or reorder datagrams. The scheduler and discovery run independently of
the stream.

## Modules

| Module | Models | State / actions |
|---|---|---|
| `SeqNum` | `seq_num.c` | Operators `SeqAdd`, `SeqSub`, `SeqCmp` (+ `SeqLeq`, `SeqLt`). The ring size is a constant. `SeqSub` keeps the code's final `(uxrSeqNum)` cast as a modulo, so `SeqSub(0, 0)` at width 2^16 is 0, as in the code. |
| `MC_SeqNum` | check of `SeqNum` | Two operands ranging over the ring's boundary values at the real width 2^16, and the slot `seq % history` (`RingSlot`) for the power-of-two histories 1..16. |
| `OutputReliableStream` | `output_reliable_stream.c` | Variables: the three watermarks, slot sizes (bytes, exact), slot contents abstracted to *pieces* (message id, fragment index, last flag), the heartbeat schedule as an instance of `HeartbeatSchedule` (*scheduled* and *tries non-zero*), and `send_lost`. There is one operator per function or branch: `AppendToCurrent`, `WriteToNext` and `WriteFragmented` (the three branches of the write path, joined in `PrepareToWrite`), `PrepareNextToSend`, `HeartbeatArm`, `HeartbeatDue`, `HeartbeatIdle`, `ProcessAcknack`, and `NextNackToSend` with the recursive scan `NackScan`. |
| `ReliableTransfer` | stream + session + peer + network | Composes the stream with the session's calls and a peer, over DATA and HEARTBEAT channels that may lose or reorder datagrams and an ACKNACK channel that is FIFO, or reorders when `AckReorder` is set. The peer and session are modelled from the design (marked `spec_modelled` in the map). |
| `ReliableDelivery` | abstract spec | What the stream promises: messages are delivered in write order, each exactly once, and every written message is eventually delivered. `ReliableTransfer` instantiates it with a refinement mapping: `sent` is `1..msgCount`, and `delivered` is the list of messages whose last piece the peer has accepted. |
| `HeartbeatSchedule` | abstract heartbeat schedule | What the stream's control sees of the timer: is data outstanding, is the timestamp a deadline (not `INT64_MAX`), is `next_heartbeat_tries` non-zero. Actions `Arm`, `Due`, `Idle`, `Acknack`, `Send`. `OutputReliableStream` instantiates it with `outstanding <- SeqLt(lastAcknown, lastSent)`. |
| `HeartbeatTimer` | `uxr_update_output_stream_heartbeat_timestamp`, tries reset in `uxr_process_acknack` | The timer with its clock. `wait` is `next_heartbeat_timestamp - now`; `Elapse` lowers it by 1..`MaxStep` ms (clamped at the largest increment, since lateness beyond it is not told apart). `Update` is the whole function: `ArmTimer` (tries 0 -> 1, deadline now + MIN), `FireHeartbeat` (deadline += max(difference, MIN << tries % 63), tries + 1 mod 256, must_confirm), `Disarm` (INT64_MAX). `Acknack` resets tries. Checked to refine `HeartbeatSchedule`. |
| `FCFSScheduler` | `FCFSScheduler.hpp` | Variables: `deque`, `running`, a per-consumer location (`idle`, `waiting`, `woken`, `stopped`), and histories of popped and evicted tasks. Actions: `init`, `deinit`, `push`, `push_front`, `pop` (entry to `pop`), `Wake` (retaking the mutex after a notify), `SpuriousWakeup`. `notify_one` wakes any one waiting thread. `deinit` may be called any number of times, as the code allows; `init` is taken once, the lifecycle of the agent's server (a second `init` after `deinit` notifies nobody, so consumers already waiting would stay blocked, a case the server never creates). |
| `Discovery` | `discovery.c`, datagram transport | Variables: the loop counters, `poll`, time since the attempt's timestamp, `is_agent_found`, the callback answers, and whether the FreeRTOS socket and socket set are allocated. Actions: `InitTransport` (socket creation fails, socket-set creation fails with the socket left open, or both succeed), `AttemptLoop` (closing the socket through `CloseTransport` on exit), `SendGetInfo`, `Listen` (one pass of the inner loop: a select timeout, which `TimeoutTicks`/`SelectWait` round down to whole ticks, or a datagram), `EndAttempt`. A datagram is abstracted to what parsing branches on. A field read without being deserialised takes any value. |

Each component has an `MC_*` module (`MC_HeartbeatTimer` extends `HeartbeatTimer` and adds nothing). `MC_ReliableTransfer` extends
`ReliableTransfer` and adds nothing.

Mutants are operators named `<Definition><Fault>`, placed just before the
definition they replace. Examples are `PrepareNextToSendNoWindow` and
`pushNoNotify`. They are not part of any specification.

## Runs

| Run | Expect | What it shows |
|---|---|---|
| `seqnum_arith` | pass | At width 2^16, compare agrees with the design's midpoint rule (`CmpIsMidpointRule`). Operands are 0, 1, 2, 100, 12345, 32766-32769, 40000, 65534 and 65535, which cover the wrap and the exact half ring. For every power-of-two history, the slot of `seq + k` is `k` slots after the slot of `seq`, across the wrap too (`SlotFollowsSeq`); a history of 3 breaks this at 65535 -> 0, which is why line 51 asks for a power of two. |
| `transfer_nofrag` | pass | Messages of 3 and 7 bytes go through a ring of 2 slots, with loss and reordering of DATA and HEARTBEAT. The run checks four things. The system refines `ReliableDelivery` (`DeliveryRefined`). A NACK replay always sends what the first transmission sent (`InFlightSlotsUnchanged`). The watermarks keep their order (`WatermarkOrder`). The retry timer is never stranded (`RetryTimerArmed`). |
| `transfer_frag` | pass | With 11-byte messages, which need fragments, the slot sizes stay within the fragment bounds and the `uint16` casts (`TypeOK`), and the watermark order holds (`WatermarkOrder`). Its `H+1` bound admits the state the overrun leaves, so finding 1 is shown by `transfer_frag_overrun`, not here. |
| `transfer_liveness` | pass | Session steps are weakly fair. Delivery of a datagram sent infinitely often is strongly fair. Under these assumptions every written message is eventually delivered (`DeliveryRefinedLive`), with loss and reordering allowed. |
| `transfer_frag_overrun` | violation | The fragment admission off-by-one loses undelivered messages (finding 1). |
| `transfer_stale_ack` | violation | A reordered, stale ACKNACK frees the whole ring (finding 2). |
| `sched` | pass | Three consumers, five tasks, capacity 2 and one `push_front`. Every task is in exactly one place: queued, popped once or evicted (`TaskConservation`). Back-pushed tasks are popped in push order (`PushOrderKept`). While running, every task pushed at the back is eventually taken: no wake-up is lost by `push` or `pop` (`QueuedEventuallyTaken`). |
| `sched_pop_blocks` | violation | The design says `pop` blocks until an entry exists or the scheduler is deinitialised (`PopReturnsWhenReady`). TLC finds a consumer still blocked after `deinit` woke the other one (finding 3); `push_front` without notify breaks it too (finding 6). |
| `heartbeat` | pass | The timer with clock and back-off refines `HeartbeatSchedule` (`StreamHeartbeatRefined`), so the boolean schedule every `ReliableTransfer` run uses is sound. Whenever data is outstanding, a HEARTBEAT is eventually sent or the data acknowledged (`HeartbeatEventuallySent`), however late the polls. `TypeOK` bounds the deadline by the largest increment. A late poll moves the deadline to the current time, so a second HEARTBEAT goes out in the same millisecond; no more than two go out before time passes (`HeartbeatBurstBounded`, checked through the history variable `burst`; the bound 2 is reached). |
| `discovery` | pass | Discovery always returns (`DiscoveryReturns`), through 0 ms passes and 0-tick selects. `TypeOK` keeps the clock within the attempt's period and the budget within one period of it. |
| `discovery_short_attempt` | violation | The cumulative `poll -=` ends attempts early, with no reply needed once the select timeout is rounded to ticks (finding 4). |
| `discovery_callback_after_accept` | violation | An accepted agent is forgotten when a later locator of the same INFO is rejected (finding 5). |

Every property of a passing run has a mutant, a plausible bug in the mapped
code, that TLC finds violating it under the same configuration. The mutants
are listed in `PROJECT.json`.

## Findings

1. **Fragment admission off by one** (`output_reliable_stream.c:151`).
   Admission tests `necessary_complete_blocks <= free slots`, but the chain
   uses `necessary_complete_blocks + 1` slots whenever its first slot is
   empty. That happens right after the current slot was sent, or when the
   chain jumps to `last_written + 1` at lines 126-131. The last fragment then
   overwrites a slot that holds data. Example: three 3-byte messages, then an
   11-byte one, in a ring of two 12-byte slots. The peer receives fragment 2
   of message 4 where messages 1-3 should be. In a 2-message variant, a NACK
   replay resends the new fragment under the old sequence number.
2. **Stale ACKNACK wraps the clean-up** (`:316`). An older ACKNACK processed
   after a newer one gives `uxr_seq_num_sub(first-1, last_acknown)` close
   to the ring size. The loop then resets every slot, including written but
   unsent ones, and moves `last_acknown` backwards.
3. **`deinit` wakes one consumer** (`FCFSScheduler.hpp:75`). The design
   says deinit unblocks all waiters. With `notify_one`, and no notification
   from a consumer that returns false, the other blocked consumers stay
   blocked.
4. **Discovery poll budget** (`discovery.c:108`). `poll -= now - timestamp`
   subtracts the cumulative elapsed time on every pass. With the select
   timeout rounded down to whole ticks (`pdMS_TO_TICKS`), a select that
   ends early is enough: with period 3 and 2 ms ticks, a one-tick select
   that ends after 2 ms leaves `poll = 1`, which is 0 ticks; the next pass
   returns at once and subtracts the 2 ms again, so the attempt ends at 2 ms
   without any reply. The same
   configuration with `poll = period - elapsed` passes.
5. **Callback answer overwritten** (`discovery.c:252`). Only the last
   locator's answer counts.
6. **`push_front` does not notify** (`FCFSScheduler.hpp:98`). A task put at
   the front while every consumer waits stays queued until a later `push`,
   against the design's "pop blocks until an entry exists".

Two more defects are recorded as hazards in `PROJECT.json` without a run of
their own, because each is a single missing guard.

- `push_front` (`FCFSScheduler.hpp:98`) has no capacity check. It breaks the
  design's invariant `length <= max_size` in three calls. `TypeOK` still
  bounds the deque by `max_size` plus the number of `push_front` calls.
- `read_info_message` (`discovery.c:244`) loops over an uninitialised
  `address_seq.size` when an INFO carries no optional activity. The model
  lets that count take any value.

## Bounds, and why they are enough

- **Ring.** `SeqNumSize = 8`, `History = 2`, `Capacity = 12`, `Offset = 2`
  and `SubheaderSize = 4`. A 3-byte message fits three to a slot, a 7-byte
  one alone, and an 11-byte one needs two fragments. The watermarks
  start at `SEQ_NUM_MAX` (7), so every behaviour crosses the 7 -> 0 wrap.
  Three messages over two slots reuse a slot, so a full window, a full slot,
  and all three write branches happen. `SeqNum` is checked separately at 2^16, so the small
  ring changes no arithmetic.
- **ACKNACKs.** `MaxAcks = 1` (at most one ACKNACK in flight) in the FIFO runs
  and 2 in the reorder run. A stale ACKNACK needs two of them.
- **Producer.** `MaxMsgs` is 3 in `transfer_nofrag` (116k states in about 25 s), 4 in
  the two violation runs, and 2 in the fragmentation and liveness runs, to
  keep them under a few minutes. Resends of stale slots are bounded by the
  constraint `ReceivedBound` in `transfer_frag`.
- **Scheduler.** `sched`: three consumers, capacity 2, five pushes and one
  `push_front` (24k states). This is enough for a full deque, an eviction, a
  `push_front`, and every waiting/woken interleaving of consumers around one
  task. No symmetry: it is unsound with the liveness property.
  `sched_pop_blocks` needs only two consumers and two pushes.
- **Heartbeat.** `MinInterval = 1`, the real shift modulus 63 and try
  modulus 256, polls 1..6 ms apart, and at most 5 tries before the peer's
  answer. Increments 1, 2, 4, 8, 16 are reached, so both sides of
  `max(difference, increment)` occur (a poll later than the increment and
  one earlier). Relative time keeps the state space finite (332 states).
- **Discovery.** 2 attempts, a period of 3 ms, 2 agents in the list, 2
  locators at most, 2 datagrams, and 2 ms ticks (`TickMs`), so a poll of 3
  is one tick, a poll of 1 is zero ticks (select returns at once and the
  loop spins), and select may return a tick early. Three locator counts (0, 2, and past the array) cover
  every branch of the loop.

## Fairness

- **ReliableTransfer.** The session loop runs `SendNext`, `ArmHeartbeat`,
  `SendHeartbeat` and `ResendLost` for as long as they are enabled, so these
  steps are weakly fair. Receiving the DATA the peer waits for, receiving a
  HEARTBEAT and receiving an ACKNACK are strongly fair: a datagram that keeps
  being sent is eventually received, but any single one may be lost. The
  producer, losses and discards are not fair.
- **FCFSScheduler.** Consumer threads are weakly fair on entering `pop` and
  on retaking the mutex after a notify. Producers, `init`/`deinit` and
  spurious wake-ups are not fair, since the standard never promises a
  spurious wake-up.
- **HeartbeatTimer.** The session polls the timer on every loop pass and
  time passes, so `Update` and `Elapse` are weakly fair. The peer's ACKNACK
  is not fair, except that at `MaxTries` the model assumes it comes (the
  bound on retry rounds).
- **Discovery.** Discovery is one sequential call, so its next step is weakly
  fair. A spinning pass in which `uxr_millis` has not moved is a stutter
  step; wall-clock time passes, so weak fairness of the non-stuttering step
  (the clock moving by 1 ms) is what the hardware gives.

## Not modelled, and why

- **Heartbeat overflow edges.** `HeartbeatTimer` keeps `tries % 256` and the
  shift `% 63`, but tries past 5 and the int64 overflow of `MIN << 57` and
  beyond (2^57 ms of unanswered heartbeats) are out of reach.
- **Socket release.** `Discovery` records that a failed socket-set creation
  leaves the socket open and that closing never deletes the socket set
  (hazards in `PROJECT.json`). No run states that resources are released:
  the design places the transports out of scope and no comment promises it.
- **Examples.** Only the PublishHelloWorld publish loop (the producer of
  `ReliableTransfer`) and the agent's non-retried `sendto` (ACKNACK loss) are
  modelled; the rest is wiring.
- **Byte contents.** Serialisation, GET_INFO formatting and the UDP/serial
  I/O glue are pure I/O or formatting.
- **`ProxyClient.hpp`.** A declaration only.
- **Session and agent input stream.** They are not under `src/`. They appear
  only as the environment of `ReliableTransfer`, modelled from the design.

## Plan for later work

1. Compose `HeartbeatTimer` into `ReliableTransfer` for a liveness run
   with real back-off (state space permitting).
2. `on_full_output_buffer` as its own step of the serialisation, so that a
   producer serialising into a fragment chain interleaves with sends.
3. A bounded run with a history that is not a power of two, to show the slot
   discontinuity at the 65535 -> 0 wrap that line 51 warns about.
