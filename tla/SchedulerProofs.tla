--------------------------- MODULE SchedulerProofs ---------------------------
(***************************************************************************)
(* The mutex of kernel/scheduler.c excludes for any number of threads,     *)
(* wherever the timer interrupts them and whoever wakes them.              *)
(***************************************************************************)
EXTENDS Scheduler, TLAPS

Holding == {"critical", "release"}

\* The owner field names the thread that is past mutex_lock.  The test and the
\* store of mutex_lock are one step because they run under the mutex's spinlock;
\* after that the field is cleared only by the thread it names.
HolderInv ==
    /\ DOMAIN pc = Threads
    /\ \A t \in Threads : pc[t] \in Holding => owner = t

\* A scheduling decision leaves the mutex alone, and puts nobody past mutex_lock.
LEMMA DispatchKeeps ==
    ASSUME NEW npc, DOMAIN npc = Threads,
           \A t \in Threads : npc[t] \in Holding => pc[t] \in Holding,
           HolderInv, Dispatch(npc)
    PROVE  HolderInv'
BY DEF Dispatch, HolderInv, mutex

\* The steps that only move one thread to a place outside the critical section.
LEMMA GotoKeeps ==
    ASSUME NEW t \in Threads, NEW m, m \notin Holding, HolderInv, Goto(t, m), UNCHANGED owner
    PROVE  HolderInv'
BY DEF Goto, HolderInv

\* Every step keeps the invariant.
LEMMA HolderStep == HolderInv /\ [Next]_vars => HolderInv'
<1> SUFFICES ASSUME HolderInv, [Next]_vars PROVE HolderInv'
  OBVIOUS
<1> USE DEF mutex, sched, vars
<1>1. CASE (\E t \in Threads : thread_create(t)) \/ scheduler_start_current_cpu \/ TickUnderLock
  BY <1>1 DEF thread_create, scheduler_start_current_cpu, TickUnderLock, HolderInv
<1>2. CASE Tick
  BY <1>2, DispatchKeeps DEF Tick, HolderInv
<1>3. ASSUME NEW t \in Threads, Step(t) PROVE HolderInv'
  <2>1. CASE thread_sleep(t) \/ thread_block(t) \/ UnblockLock(t)
    BY <2>1, GotoKeeps DEF thread_sleep, thread_block, UnblockLock, TakeLock, Holding
  <2>2. CASE (\E ticks \in SleepTicks : SleepBody(t, ticks)) \/ BlockBody(t) \/ UnblockBody(t) \/ ThreadExit(t)
    BY <2>2, GotoKeeps DEF SleepBody, BlockBody, UnblockBody, ThreadExit, Holding
  <2>3. CASE \E u \in Threads : thread_unblock(t, u)
    BY <2>3, GotoKeeps DEF thread_unblock, Holding
  <2>4. ASSUME NEW m, m \notin Holding, Dispatch([pc EXCEPT ![t] = m]) PROVE HolderInv'
    <3> DEFINE npc == [pc EXCEPT ![t] = m]
    <3>1. DOMAIN npc = Threads /\ \A u \in Threads : npc[u] \in Holding => pc[u] \in Holding
      BY <2>4 DEF HolderInv
    <3> HIDE DEF npc
    <3>2. Dispatch(npc)
      BY <2>4 DEF npc
    <3> QED BY <3>1, <3>2, DispatchKeeps
  <2>5. CASE thread_yield(t) \/ ExitYield(t) \/ MutexYield(t)
    BY <2>4, <2>5 DEF thread_yield, ExitYield, MutexYield, Holding
  <2>6. CASE mutex_lock(t)
    BY <2>6, GotoKeeps DEF mutex_lock, MutexSpin, Holding
  <2>7. CASE MutexTest(t)
    <3>1. CASE owner = Free /\ owner' = t /\ Goto(t, "critical")
      <4>1. \A u \in Threads : pc[u] \notin Holding
        BY <3>1, SchedulerAssumption DEF HolderInv, Free
      <4> QED BY <3>1, <4>1 DEF Goto, HolderInv
    <3>2. CASE UNCHANGED owner /\ Goto(t, "wait")
      BY <3>2, GotoKeeps DEF Holding
    <3> QED BY <2>7, <3>1, <3>2 DEF MutexTest
  <2>8. CASE mutex_unlock(t)
    BY <2>8 DEF mutex_unlock, MutexSpin, Runs, Goto, HolderInv, Holding
  <2>9. CASE MutexRelease(t)
    <3>1. \A u \in Threads : u # t => pc[u] \notin Holding
      BY <2>9 DEF MutexRelease, Runs, HolderInv, Holding
    <3> QED BY <2>9, <3>1 DEF MutexRelease, Goto, HolderInv, Holding
  <2> QED
    BY <1>3, <2>1, <2>2, <2>3, <2>5, <2>6, <2>7, <2>8, <2>9 DEF Step
<1>4. CASE UNCHANGED vars
  BY <1>4 DEF HolderInv
<1> QED BY <1>1, <1>2, <1>3, <1>4 DEF Next

\* At most one thread is between mutex_lock and mutex_unlock.
THEOREM MutualExclusion == Spec => []MutexExcludes
<1>1. Init => HolderInv
  BY DEF Init, HolderInv, Holding
<1>2. HolderInv => MutexExcludes
  BY DEF HolderInv, MutexExcludes, Holding
<1> QED BY <1>1, <1>2, HolderStep, PTL DEF Spec

=============================================================================
