---------------------------- MODULE FCFSScheduler ----------------------------
(***************************************************************************)
(* The agent's first-come-first-served task scheduler                     *)
(* (include/uxr/agent/scheduler/FCFSScheduler.hpp): a bounded deque        *)
(* guarded by one mutex and one condition variable, shared by any number   *)
(* of producer threads (push, push_front) and consumer threads (pop).      *)
(*                                                                         *)
(* Every method body runs under the mutex, so each is one atomic step,     *)
(* except pop, whose condition_variable::wait releases the mutex: a        *)
(* consumer is "idle" (not in pop: it is processing what it popped and     *)
(* will call pop again), "waiting" (blocked in wait), "woken" (notified,   *)
(* about to retake the mutex and re-test the predicate) or "stopped" (pop  *)
(* returned false and the worker loop ended).  notify_one wakes one        *)
(* waiting thread, any one; a waiting thread may also wake spuriously,     *)
(* which the C++ standard allows but never promises.                       *)
(*                                                                         *)
(* Tasks are the numbers 1, 2, ... in the order they are pushed.           *)
(***************************************************************************)
EXTENDS Naturals, Sequences, FiniteSets, SequencesExt

CONSTANTS
    Consumers,     \* consumer threads
    MaxSize,       \* max_size_
    MaxPushes,     \* bound on push and push_front calls together
    MaxFront       \* bound on push_front calls

VARIABLES
    deque,         \* deque_
    running,       \* running_cond_
    pc,            \* where each consumer thread is
    started,       \* init() has been called at least once
    pushes,        \* tasks pushed so far (push and push_front)
    frontTasks,    \* tasks put in by push_front (history)
    popped,        \* tasks returned by pop, in order (history)
    evicted        \* tasks dropped by push on a full deque (history)

vars == <<deque, running, pc, started, pushes, frontTasks, popped, evicted>>

Tasks == 1 .. MaxPushes

Waiting(f) == {c \in Consumers : f[c] = "waiting"}

\* cond_var_.notify_one(): the successor values of the thread states f when
\* one waiting thread, any one, is woken; nothing happens if none waits.
NotifyOne(f) ==
    IF Waiting(f) = {} THEN {f}
    ELSE {[f EXCEPT ![w] = "woken"] : w \in Waiting(f)}

\* The constructor: empty deque, running_cond_(false).
SchedInit ==
    /\ deque = <<>>
    /\ running = FALSE
    /\ pc = [c \in Consumers |-> "idle"]
    /\ started = FALSE
    /\ pushes = 0
    /\ frontTasks = {}
    /\ popped = <<>>
    /\ evicted = {}

\* init(): running_cond_ = true under the mutex; it notifies nobody.  The
\* code allows a second init after deinit; the model takes the lifecycle of
\* the agent's server, which calls init once (see the README).
init ==
    /\ ~started
    /\ running' = TRUE
    /\ started' = TRUE
    /\ UNCHANGED <<deque, pc, pushes, frontTasks, popped, evicted>>

\* deinit(): running_cond_ = false and notify_one, on every call.
deinit ==
    /\ running' = FALSE
    /\ pc' \in NotifyOne(pc)
    /\ UNCHANGED <<deque, started, pushes, frontTasks, popped, evicted>>

\* push(element, priority): priority is ignored; a full deque drops its
\* oldest task to admit the new one at the back; one waiter is woken.
pushNoNotify ==
    /\ pushes < MaxPushes
    /\ LET full == MaxSize <= Len(deque)
           kept == IF full THEN Tail(deque) ELSE deque
       IN  /\ deque' = Append(kept, pushes + 1)
           /\ evicted' = IF full THEN evicted \cup {Head(deque)} ELSE evicted
    /\ pushes' = pushes + 1
    /\ UNCHANGED <<running, pc, started, frontTasks, popped>>

pushOffByOne ==
    /\ pushes < MaxPushes
    /\ LET full == MaxSize < Len(deque)
           kept == IF full THEN Tail(deque) ELSE deque
       IN  /\ deque' = Append(kept, pushes + 1)
           /\ evicted' = IF full THEN evicted \cup {Head(deque)} ELSE evicted
    /\ pushes' = pushes + 1
    /\ pc' \in NotifyOne(pc)
    /\ UNCHANGED <<running, started, frontTasks, popped>>

push ==
    /\ pushes < MaxPushes
    /\ LET full == MaxSize <= Len(deque)
           kept == IF full THEN Tail(deque) ELSE deque
       IN  /\ deque' = Append(kept, pushes + 1)
           /\ evicted' = IF full THEN evicted \cup {Head(deque)} ELSE evicted
    /\ pushes' = pushes + 1
    /\ pc' \in NotifyOne(pc)
    /\ UNCHANGED <<running, started, frontTasks, popped>>

\* push_front(element): no capacity check and no notification.
push_front ==
    /\ pushes < MaxPushes
    /\ Cardinality(frontTasks) < MaxFront
    /\ deque' = <<pushes + 1>> \o deque
    /\ pushes' = pushes + 1
    /\ frontTasks' = frontTasks \cup {pushes + 1}
    /\ UNCHANGED <<running, pc, started, popped, evicted>>

\* One pass of pop(element) for consumer c holding the mutex: the wait
\* predicate !(deque_.empty() && running_cond_) is tested; if it is false
\* the thread blocks (releasing the mutex); otherwise, if running it takes
\* the front task and wakes one waiter, and if not it returns false.
TryPopNoRemove(c) ==
    IF deque = <<>> /\ running
    THEN /\ pc' = [pc EXCEPT ![c] = "waiting"]
         /\ UNCHANGED <<deque, popped>>
    ELSE IF running
         THEN /\ popped' = Append(popped, Head(deque))
              /\ pc' \in NotifyOne([pc EXCEPT ![c] = "idle"])
              /\ UNCHANGED deque
         ELSE /\ pc' = [pc EXCEPT ![c] = "stopped"]
              /\ UNCHANGED <<deque, popped>>

TryPopBack(c) ==
    IF deque = <<>> /\ running
    THEN /\ pc' = [pc EXCEPT ![c] = "waiting"]
         /\ UNCHANGED <<deque, popped>>
    ELSE IF running
         THEN /\ popped' = Append(popped, Last(deque))
              /\ deque' = Front(deque)
              /\ pc' \in NotifyOne([pc EXCEPT ![c] = "idle"])
         ELSE /\ pc' = [pc EXCEPT ![c] = "stopped"]
              /\ UNCHANGED <<deque, popped>>

TryPop(c) ==
    IF deque = <<>> /\ running
    THEN /\ pc' = [pc EXCEPT ![c] = "waiting"]
         /\ UNCHANGED <<deque, popped>>
    ELSE IF running
         THEN /\ popped' = Append(popped, Head(deque))
              /\ deque' = Tail(deque)
              /\ pc' \in NotifyOne([pc EXCEPT ![c] = "idle"])
         ELSE /\ pc' = [pc EXCEPT ![c] = "stopped"]
              /\ UNCHANGED <<deque, popped>>

\* A consumer calls pop().
pop(c) ==
    /\ pc[c] = "idle"
    /\ TryPop(c)
    /\ UNCHANGED <<running, started, pushes, frontTasks, evicted>>

\* A notified consumer retakes the mutex and re-tests the predicate.
Wake(c) ==
    /\ pc[c] = "woken"
    /\ TryPop(c)
    /\ UNCHANGED <<running, started, pushes, frontTasks, evicted>>

\* A waiting consumer wakes without being notified.
SpuriousWakeup(c) ==
    /\ pc[c] = "waiting"
    /\ pc' = [pc EXCEPT ![c] = "woken"]
    /\ UNCHANGED <<deque, running, started, pushes, frontTasks, popped, evicted>>

\* Every consumer has left its worker loop: nothing more can happen.
Terminated ==
    /\ \A c \in Consumers : pc[c] = "stopped"
    /\ UNCHANGED vars

Next ==
    \/ init
    \/ deinit
    \/ push
    \/ push_front
    \/ \E c \in Consumers : pop(c) \/ Wake(c) \/ SpuriousWakeup(c)
    \/ Terminated

Spec == SchedInit /\ [][Next]_vars

(* Consumer threads are scheduled by the OS and the mutex is free between  *)
(* method bodies, so a thread that can go on (call pop again, or retake    *)
(* the mutex after a notification) eventually does.  Producers, init,     *)
(* deinit and spurious wakeups are not fair.                               *)
Fairness == \A c \in Consumers : WF_vars(pop(c)) /\ WF_vars(Wake(c))

FairSpec == Spec /\ Fairness

-----------------------------------------------------------------------------
\* Types; the deque only outgrows max_size_ by what push_front adds.
TypeOK ==
    /\ deque \in Seq(Tasks)
    /\ Len(deque) <= MaxSize + Cardinality(frontTasks)
    /\ running \in BOOLEAN
    /\ pc \in [Consumers -> {"idle", "waiting", "woken", "stopped"}]
    /\ started \in BOOLEAN
    /\ pushes \in 0 .. MaxPushes
    /\ frontTasks \subseteq Tasks
    /\ popped \in Seq(Tasks)
    /\ evicted \subseteq Tasks

\* Every task pushed is, at any time, in exactly one place: still queued,
\* returned by exactly one pop, or dropped by push on a full deque -- no
\* task is handed to two consumers, handed out twice, or silently lost.
TaskConservation ==
    /\ IsInjective(popped)
    /\ IsInjective(deque)
    /\ \A t \in 1 .. pushes :
          Cardinality({i \in 1 .. Len(deque) : deque[i] = t})
          + Cardinality({i \in 1 .. Len(popped) : popped[i] = t})
          + (IF t \in evicted THEN 1 ELSE 0) = 1

\* Tasks put at the back by push are handed out in the order they were
\* pushed, whichever consumers take them and however pops interleave.
PushOrderKept ==
    \A i, j \in 1 .. Len(popped) :
        /\ i < j
        /\ popped[i] \notin frontTasks
        /\ popped[j] \notin frontTasks
        => popped[i] < popped[j]

\* While the scheduler runs and some consumer is still in its worker loop
\* (one that called pop before init got false and left), every task put in
\* by push is eventually taken by a consumer (or dropped by a later push on
\* a full deque): a push always wakes a waiting consumer, and a consumer
\* that takes a task passes the notification on, so no pushed task is
\* stranded while consumers sleep -- even behind a push_front task.
QueuedEventuallyTaken ==
    \A t \in Tasks :
        (running /\ t \in ToSet(deque) \ frontTasks
                 /\ \E c \in Consumers : pc[c] # "stopped")
            ~> (~running \/ t \notin ToSet(deque))

\* Section 4.4 of the design: pop "blocks until either an entry exists or
\* the scheduler has been deinitialized", and deinit unblocks all waiters.
\* A consumer blocked in pop while the deque holds a task or after deinit
\* eventually returns from the wait.
PopReturnsWhenReady ==
    \A c \in Consumers :
        (pc[c] = "waiting" /\ (deque # <<>> \/ (started /\ ~running)))
            ~> pc[c] # "waiting"
=============================================================================
