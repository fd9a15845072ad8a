------------------------------ MODULE Scheduler ------------------------------
(***************************************************************************)
(* The kernel threads of kernel/scheduler.c on CPU 0: round robin driven   *)
(* by the timer, sleeping, blocking and unblocking, and the mutex.         *)
(*                                                                         *)
(* Threads run with interrupts enabled, so a tick can come between any two *)
(* steps of a thread, also while the thread holds the scheduler's          *)
(* spinlock; scheduler_tick takes the same lock on the same CPU and then   *)
(* spins for ever.  Thread 0 is the bootstrap context, which is never put  *)
(* back into the run queue.  No thread is started once ticks are on: the   *)
(* kernel creates its threads before scheduler_start_current_cpu.          *)
(*                                                                         *)
(* wake_tick is kept as the number of ticks left.  Wait queues are written *)
(* and never read, so a queue is only the state BLOCKED.                   *)
(***************************************************************************)
EXTENDS Naturals, Sequences, FiniteSets, SequencesExt

CONSTANTS
    Threads,     \* 1..n: the ids of the threads that are created
    Wakers,      \* the threads that call thread_unblock
    Lockers,     \* the threads that use the mutex
    WakeStates,  \* the states of a thread they call it for
    SleepTicks   \* the arguments of thread_sleep

ASSUME SchedulerAssumption ==
    /\ Threads \subseteq Nat \ {0} /\ IsFiniteSet(Threads)
    /\ Wakers \subseteq Threads /\ Lockers \subseteq Threads
    /\ WakeStates \subseteq {"BLOCKED", "SLEEPING", "DEAD"}
    /\ SleepTicks \subseteq Nat

VARIABLES
    started,          \* sched[0].started
    st, rem,          \* state and ticks left of each thread
    queue, current,   \* sched[0].run_queue and sched[0].current
    lock,             \* sched[0].lock: the thread that holds it, or Free
    pc, target,       \* each thread: where it is, the thread it unblocks
    mlock, owner,     \* a Mutex: the holder of its spinlock, its owner
    hung,             \* the CPU spins on the scheduler lock in scheduler_tick
    broken,           \* a thread was linked into the run queue twice
    napping           \* history: in thread_sleep or just back from it

Free == 0
sched == <<started, st, rem, queue, current, lock>>
mutex == <<mlock, owner>>
vars == <<sched, pc, target, mutex, hung, broken, napping>>

Init ==
    /\ started = FALSE
    /\ st = [t \in Threads |-> "NEW"] /\ rem = [t \in Threads |-> 0]
    /\ queue = <<>> /\ current = 0 /\ lock = Free
    /\ pc = [t \in Threads |-> "run"] /\ target = [t \in Threads |-> t]
    /\ mlock = Free /\ owner = Free
    /\ hung = FALSE /\ broken = FALSE
    /\ napping = [t \in Threads |-> FALSE]

\* Ids are given out in order.
thread_create(t) ==
    /\ ~started /\ st[t] = "NEW"
    /\ \A u \in Threads : u < t => st[u] # "NEW"
    /\ st' = [st EXCEPT ![t] = "RUNNABLE"]
    /\ queue' = Append(queue, t)
    /\ UNCHANGED <<started, rem, current, lock, pc, target, mutex, hung, broken, napping>>

scheduler_start_current_cpu ==
    /\ ~started
    /\ started' = TRUE
    /\ UNCHANGED <<st, rem, queue, current, lock, pc, target, mutex, hung, broken, napping>>

-----------------------------------------------------------------------------
(* The timer interrupt, and int $32 of thread_yield. *)

InQueue(t) == t \in {queue[k] : k \in DOMAIN queue}

\* The tick counter goes up before scheduler_tick looks at it.
Elapsed == [t \in Threads |-> IF rem[t] > 0 THEN rem[t] - 1 ELSE 0]

Due_None == {}

\* wake_sleepers
Due == {t \in Threads : st[t] = "SLEEPING" /\ Elapsed[t] = 0}

Requeued_Any(woken) == current # 0

\* Whether scheduler_tick puts the interrupted thread back into the queue.
Requeued(woken) == current # 0 /\ woken[current] = "RUNNING"

\* scheduler_tick with the lock free; npc is where the threads continue.
Dispatch(npc) ==
    LET q == queue \o SetToSortSeq(Due, <)
        woken == [t \in Threads |-> IF t \in Due THEN "RUNNABLE" ELSE st[t]]
        old == [t \in Threads |-> IF t = current /\ Requeued(woken) THEN "RUNNABLE"
                                  ELSE woken[t]]
    IN  /\ rem' = Elapsed
        /\ pc' = npc
        /\ \/ /\ q = <<>>
              /\ UNCHANGED <<st, queue, current>>
           \/ /\ q # <<>>
              /\ queue' = IF Requeued(woken) THEN Append(Tail(q), current) ELSE Tail(q)
              /\ st' = [old EXCEPT ![Head(q)] = "RUNNING"]
              /\ current' = Head(q)
        /\ UNCHANGED <<started, lock, target, mutex, hung, broken, napping>>

Tick ==
    /\ started /\ ~hung /\ ~broken /\ lock = Free
    /\ Dispatch(pc)

\* The interrupted thread holds the lock: the handler never returns.
TickUnderLock ==
    /\ started /\ ~hung /\ ~broken /\ lock # Free
    /\ hung' = TRUE
    /\ UNCHANGED <<sched, pc, target, mutex, broken, napping>>

-----------------------------------------------------------------------------
(* The running thread. *)

\* t has the CPU and is at l; next it is at m.
Runs(t, l) == ~hung /\ ~broken /\ current = t /\ pc[t] = l
Goto(t, m) == pc' = [pc EXCEPT ![t] = m]

\* spinlock_lock on the scheduler lock, from l.
TakeLock(t, l, m) ==
    /\ Runs(t, l) /\ lock = Free
    /\ lock' = t
    /\ Goto(t, m)
    /\ UNCHANGED <<started, st, rem, queue, current, target, mutex, hung, broken>>

thread_sleep(t) == TakeLock(t, "run", "sleep") /\ napping' = [napping EXCEPT ![t] = FALSE]

SleepBody(t, ticks) ==
    /\ Runs(t, "sleep")
    /\ rem' = [rem EXCEPT ![t] = ticks]
    /\ st' = [st EXCEPT ![t] = "SLEEPING"]
    /\ lock' = Free
    /\ Goto(t, "yield")
    /\ napping' = [napping EXCEPT ![t] = TRUE]
    /\ UNCHANGED <<started, queue, current, target, mutex, hung, broken>>

thread_block(t) == TakeLock(t, "run", "block") /\ napping' = [napping EXCEPT ![t] = FALSE]

BlockBody(t) ==
    /\ Runs(t, "block")
    /\ st' = [st EXCEPT ![t] = "BLOCKED"]
    /\ lock' = Free
    /\ Goto(t, "yield")
    /\ UNCHANGED <<started, rem, queue, current, target, mutex, hung, broken, napping>>

thread_yield(t) == Runs(t, "yield") /\ Dispatch([pc EXCEPT ![t] = "run"])

\* thread_unblock tests the state before it has the lock ...
thread_unblock(t, u) ==
    /\ t \in Wakers /\ u # t /\ st[u] \in WakeStates
    /\ Runs(t, "run")
    /\ target' = [target EXCEPT ![t] = u]
    /\ Goto(t, "unblock")
    /\ UNCHANGED <<sched, mutex, hung, broken, napping>>

UnblockLock(t) == TakeLock(t, "unblock", "enqueue") /\ UNCHANGED napping

\* ... and does not test it again.  Linking a thread that is in the queue
\* already cuts the list behind it or ties it into a loop.
UnblockBody(t) ==
    /\ Runs(t, "enqueue")
    /\ st' = [st EXCEPT ![target[t]] = "RUNNABLE"]
    /\ broken' = InQueue(target[t])
    /\ queue' = Append(queue, target[t])
    /\ lock' = Free
    /\ Goto(t, "run")
    /\ UNCHANGED <<started, rem, current, target, mutex, hung, napping>>

\* The thread function returns: THREAD_DEAD, thread_yield, then hlt for ever.
ThreadExit(t) ==
    /\ Runs(t, "run")
    /\ st' = [st EXCEPT ![t] = "DEAD"]
    /\ Goto(t, "exit")
    /\ UNCHANGED <<started, rem, queue, current, lock, target, mutex, hung, broken, napping>>

ExitYield(t) == Runs(t, "exit") /\ Dispatch([pc EXCEPT ![t] = "halted"])

-----------------------------------------------------------------------------
(* The mutex: a spinlock around a flag; a thread that finds it held yields.*)

MutexSpin(t, l, m) ==
    /\ Runs(t, l) /\ mlock = Free
    /\ mlock' = t
    /\ Goto(t, m)
    /\ UNCHANGED <<sched, target, owner, hung, broken, napping>>

mutex_lock(t) ==
    t \in Lockers /\ (MutexSpin(t, "run", "test") \/ MutexSpin(t, "retry", "test"))

MutexTest_NotHeld(t) ==
    /\ Runs(t, "test")
    /\ owner' = t /\ mlock' = Free /\ Goto(t, "critical")
    /\ UNCHANGED <<sched, target, hung, broken, napping>>

MutexTest(t) ==
    /\ Runs(t, "test")
    /\ \/ owner = Free /\ owner' = t /\ Goto(t, "critical")
       \/ owner # Free /\ UNCHANGED owner /\ Goto(t, "wait")
    /\ mlock' = Free
    /\ UNCHANGED <<sched, target, hung, broken, napping>>

MutexYield(t) == Runs(t, "wait") /\ Dispatch([pc EXCEPT ![t] = "retry"])

mutex_unlock(t) == MutexSpin(t, "critical", "release")

MutexRelease(t) ==
    /\ Runs(t, "release")
    /\ owner' = Free /\ mlock' = Free
    /\ Goto(t, "run")
    /\ UNCHANGED <<sched, target, hung, broken, napping>>

-----------------------------------------------------------------------------

Step(t) ==
    \/ thread_sleep(t) \/ \E ticks \in SleepTicks : SleepBody(t, ticks)
    \/ thread_block(t) \/ BlockBody(t) \/ thread_yield(t)
    \/ \E u \in Threads : thread_unblock(t, u)
    \/ UnblockLock(t) \/ UnblockBody(t)
    \/ ThreadExit(t) \/ ExitYield(t)
    \/ mutex_lock(t) \/ MutexTest(t) \/ MutexYield(t) \/ mutex_unlock(t) \/ MutexRelease(t)

Next ==
    \/ \E t \in Threads : thread_create(t)
    \/ scheduler_start_current_cpu
    \/ Tick \/ TickUnderLock
    \/ \E t \in Threads : Step(t)

\* The timer keeps interrupting: it is periodic and CPU 0 has interrupts on.
Spec == Init /\ [][Next]_vars /\ WF_vars(Tick \/ TickUnderLock)

-----------------------------------------------------------------------------
(* Properties. *)

\* The run queue holds each runnable thread exactly once and no other thread,
\* and the thread in RUNNING is the one that has the CPU: nobody is lost,
\* nobody gets two turns, whatever ticks come between the steps of
\* thread_unblock, thread_sleep and thread_block.  It holds when one thread
\* does the unblocking, of threads that are BLOCKED or DEAD: scheduler.c:207
\* lets a SLEEPING thread through as well, and a tick that wakes it before the
\* lock is taken has it linked twice.
RunQueueSound ==
    /\ ~broken
    /\ \A t \in Threads : InQueue(t) <=> st[t] = "RUNNABLE"
    /\ \A j, k \in DOMAIN queue : queue[j] = queue[k] => j = k
    /\ \A t \in Threads : st[t] = "RUNNING" => t = current

\* At most one thread is between mutex_lock and mutex_unlock.
MutexExcludes ==
    \A t, u \in Threads :
        pc[t] \in {"critical", "release"} /\ pc[u] \in {"critical", "release"} => t = u

\* A thread that is back from thread_sleep has slept the ticks it asked for: what
\* scheduler_sleep_test_thread panics about if it is not so (scheduler.c:250).
SleepLasts ==
    \A t \in Threads : napping[t] /\ current = t /\ pc[t] = "run" => rem[t] = 0

\* Round robin: a thread that waits in the run queue gets the CPU, and one that
\* left the CPU to sleep wakes and gets it, unless a tick hits a thread that
\* holds the scheduler lock.  A thread that sleeps on the CPU, because nobody
\* else was there to run, has it already.
ThreadsProgress ==
    \A t \in Threads :
        (started /\ st[t] \in {"RUNNABLE", "SLEEPING"} /\ current # t)
            ~> (current = t \/ hung)

=============================================================================
