------------------------------ MODULE Process ------------------------------
(***************************************************************************)
(* The user processes of the kernel: the process table of process.c, the   *)
(* system calls of syscall.c that create, switch, block and end processes, *)
(* and the switch made by the timer interrupt.                             *)
(*                                                                         *)
(* All of this runs on CPU 0 with interrupts off (MSR_FMASK clears IF, the *)
(* interrupt gate too), so a system call or a tick is one step.  User code *)
(* is reduced to a position: 0 is a null rip, Entry the start of the image *)
(* and every completed system call moves one position on, up to MaxRip,    *)
(* the position of a loop the program may stay in.  An rip and the rsp     *)
(* that is always saved and restored with it are one value.                *)
(***************************************************************************)
EXTENDS Integers

CONSTANTS
  MAX_PROCESSES, \* slots of the process table
  Codes,         \* exit codes programs use, as int32_t
  UINT32_SPAN,   \* number of uint32_t values: 2^32, scaled down for TLC
  MaxRip         \* bound: last position of a program; later ones are merged

ASSUME ProcessAssumption ==
  /\ MAX_PROCESSES \in Nat /\ MAX_PROCESSES >= 2
  /\ UINT32_SPAN \in Nat /\ 0 \in Codes
  /\ Codes \subseteq {c \in Int : -UINT32_SPAN <= 2 * c /\ 2 * c < UINT32_SPAN}
  /\ MaxRip \in Nat /\ MaxRip >= 1

VARIABLES
  process_count,   \* slots in use; a slot is never given back
  current_proc,    \* the process the kernel regards as running
  cr3,             \* the process whose page tables are loaded
  state,           \* per slot: ORE_PROC_*
  parent_pid,      \* per slot: 0 when there is no parent
  exit_code,       \* per slot: 0 until the process exits
  user_entry,      \* per slot: 0 until an image is loaded
  waiting_for_pid, \* per slot: the child a blocked process waits for
  wait_return,     \* per slot: wait_return_rip/rsp
  saved_user,      \* per slot: saved_user_rip/rsp
  has_user_frame,  \* per slot: user_frame was filled by the timer path
  user_frame,      \* per slot: InterruptFrame, its rip and whose registers
  mode,            \* what CPU 0 does: user code, a waiting system call, stopped
  rip,             \* position of the user code CPU 0 returns to
  regs,            \* process whose values the registers held on return; 0: zeroed
  rax,             \* value returned by the last system call
  left             \* history: per slot, the position the process left the CPU at

table   == <<process_count, parent_pid, user_entry>>
wait    == <<waiting_for_pid, wait_return>>
context == <<saved_user, has_user_frame, user_frame>>
machine == <<current_proc, cr3, mode, rip, regs, rax>>
vars    == <<table, wait, context, machine, state, exit_code, left>>

Pid    == 0..(MAX_PROCESSES - 1)
Entry  == 1
EINVAL == -22

(* (uint64_t)(uint32_t)code: a negative exit code turns positive. *)
ZeroExtended(code) == IF code < 0 THEN code + UINT32_SPAN ELSE code

ReturnValues == Codes \cup {ZeroExtended(c) : c \in Codes} \cup Pid \cup {EINVAL, 1}

(* Processes other than the kernel's own slot 0. *)
Users == {p \in Pid : 0 < p /\ p < process_count}

Init ==
  /\ process_count = 2 /\ current_proc = 1 /\ cr3 = 1
  /\ state = [p \in Pid |-> IF p <= 1 THEN "RUNNING" ELSE "UNUSED"]
  /\ parent_pid = [p \in Pid |-> 0]
  /\ exit_code = [p \in Pid |-> 0]
  /\ user_entry = [p \in Pid |-> IF p = 1 THEN Entry ELSE 0]
  /\ waiting_for_pid = [p \in Pid |-> 0]
  /\ wait_return = [p \in Pid |-> 0]
  /\ saved_user = [p \in Pid |-> 0]
  /\ has_user_frame = [p \in Pid |-> FALSE]
  /\ user_frame = [p \in Pid |-> [rip |-> 0, regs |-> 0]]
  /\ mode = "user" /\ rip = Entry /\ regs = 0 /\ rax = 0
  /\ left = [p \in Pid |-> IF p = 1 THEN Entry ELSE 0]

-----------------------------------------------------------------------------
(* Choosing and entering the next process. *)

(* Mutant: every scan begins at the first slot. *)
ScanSlot_FromFirst(exclude_pid, scanned) == scanned

(* The slot looked at in the scanned-th round of next_ready_process. *)
ScanSlot(exclude_pid, scanned) ==
  LET start == IF exclude_pid + 1 >= process_count THEN 1 ELSE exclude_pid + 1
      i     == start + scanned - 1
  IN  IF i >= process_count THEN 1 + (i - process_count) ELSE i

(* Mutant: the scan stops at the end of the table instead of wrapping. *)
Hits_NoWrap(exclude_pid, st) ==
  {s \in 1..(process_count - 1) :
     /\ ScanSlot(exclude_pid, s) > exclude_pid
     /\ st[ScanSlot(exclude_pid, s)] = "READY"}

(* The rounds of the scan that meet a READY process, st being the states. *)
Hits(exclude_pid, st) ==
  {s \in 1..(process_count - 1) :
     /\ ScanSlot(exclude_pid, s) # exclude_pid
     /\ st[ScanSlot(exclude_pid, s)] = "READY"}

(* 0 stands for the null pointer: slot 0 is never scanned. *)
next_ready_process(exclude_pid, st) ==
  LET hits == Hits(exclude_pid, st)
  IN  IF hits = {}
      THEN 0
      ELSE ScanSlot(exclude_pid, CHOOSE s \in hits : \A t \in hits : s <= t)

(* Mutant: the new process is not marked RUNNING. *)
process_set_current_Unmarked(next, st) ==
  /\ current_proc' = next
  /\ state' = st

(* process_set_current, given the states st assigned before the call. *)
process_set_current(next, st) ==
  /\ current_proc' = next
  /\ state' = [st EXCEPT ![next] = "RUNNING"]

(* Switch on the way out of a system call.  Only rip and rsp are replaced: *)
(* every other register still holds the value the caller left in it.       *)
enter_process_from_syscall(next, st) ==
  /\ process_set_current(next, st)
  /\ cr3' = next
  /\ rip' = IF saved_user'[next] # 0 THEN saved_user'[next] ELSE user_entry'[next]
  /\ regs' = current_proc

(* The position after the system call the program is at. *)
AfterCall == IF rip < MaxRip THEN rip + 1 ELSE rip

(* A system call that returns to its caller. *)
ReturnToCaller(value) ==
  /\ rip' = AfterCall /\ regs' = current_proc /\ rax' = value
  /\ mode' = "user"
  /\ UNCHANGED <<current_proc, cr3>>

(* The running program issues a system call. *)
InSyscall == mode = "user" /\ rip # 0

-----------------------------------------------------------------------------
(* Creation *)

(* process_create_user: the next slot, READY before any image is loaded.   *)
(* image is the entry the loader set, 0 when loading failed; a failure     *)
(* returns before parent_pid is set.                                       *)
process_create_user(image) ==
  LET child == process_count
  IN  /\ process_count < MAX_PROCESSES
      /\ process_count' = process_count + 1
      /\ user_entry' = [user_entry EXCEPT ![child] = image]
      /\ saved_user' = [saved_user EXCEPT ![child] = image]
      /\ parent_pid' = [parent_pid EXCEPT ![child] = IF image = 0 THEN 0 ELSE current_proc]
      /\ UNCHANGED <<has_user_frame, user_frame, exit_code>>

(* ORE_SYS_SPAWN, or with image = 0 either ORE_SYS_SPAWN of a file that is *)
(* no valid executable or ORE_SYS_EXEC_IMAGE of an image that is rejected. *)
Spawn(image) ==
  /\ InSyscall
  /\ process_create_user(image)
  /\ state' = [state EXCEPT ![process_count] = "READY"]
  /\ left' = [left EXCEPT ![process_count] = image]
  /\ ReturnToCaller(IF image = 0 THEN EINVAL ELSE process_count)
  /\ UNCHANGED wait

(* ORE_SYS_SPAWN and ORE_SYS_EXEC_IMAGE refused before a slot is taken:    *)
(* bad path, size or arguments, no memory, read error, or a full table.    *)
CreateRefused ==
  /\ InSyscall
  /\ ReturnToCaller(EINVAL)
  /\ UNCHANGED <<table, wait, context, state, exit_code, left>>

(* The caller of wait or exec blocks and the child is entered. *)
BlockOnChild(child) ==
  /\ wait_return' = [wait_return EXCEPT ![current_proc] = AfterCall]
  /\ waiting_for_pid' = [waiting_for_pid EXCEPT ![current_proc] = child]
  /\ enter_process_from_syscall(child, [state EXCEPT ![current_proc] = "BLOCKED"])
  /\ rax' = 0
  /\ UNCHANGED mode

(* ORE_SYS_EXEC_IMAGE *)
ExecImage ==
  /\ InSyscall
  /\ process_create_user(Entry)
  /\ BlockOnChild(process_count)
  /\ left' = [left EXCEPT ![process_count] = Entry, ![current_proc] = AfterCall]

-----------------------------------------------------------------------------
(* ORE_SYS_WAIT *)

(* Mutant: a child that is not READY is entered as well. *)
Wait_AnyState(pid) ==
  /\ InSyscall
  /\ UNCHANGED <<table, context, exit_code>>
  /\ IF \/ pid >= process_count \/ pid = current_proc
        \/ parent_pid[pid] # current_proc
     THEN /\ ReturnToCaller(EINVAL)
          /\ UNCHANGED <<wait, state, left>>
     ELSE /\ BlockOnChild(pid)
          /\ left' = [left EXCEPT ![current_proc] = AfterCall]

Wait(pid) ==
  /\ InSyscall
  /\ UNCHANGED <<table, context, exit_code>>
  /\ IF \/ pid >= process_count \/ pid = current_proc
        \/ parent_pid[pid] # current_proc
     THEN /\ ReturnToCaller(EINVAL)
          /\ UNCHANGED <<wait, state, left>>
     ELSE IF state[pid] = "READY"
          THEN /\ BlockOnChild(pid)
               /\ left' = [left EXCEPT ![current_proc] = AfterCall]
          ELSE /\ ReturnToCaller(exit_code[pid])
               /\ UNCHANGED <<wait, state, left>>

-----------------------------------------------------------------------------
(* ORE_SYS_EXIT *)

(* Mutant: wait_return is not cleared. *)
ExitToParent_KeepsReturn(parent, code, st) ==
  /\ process_set_current(parent, st)
  /\ cr3' = parent
  /\ rip' = wait_return[parent]
  /\ regs' = current_proc
  /\ rax' = ZeroExtended(code)
  /\ waiting_for_pid' = [waiting_for_pid EXCEPT ![parent] = 0]
  /\ UNCHANGED <<mode, wait_return>>

(* Return to the parent through wait_return.  The child the parent waits   *)
(* for is not compared with the one that exits.                            *)
ExitToParent(parent, code, st) ==
  /\ process_set_current(parent, st)
  /\ cr3' = parent
  /\ rip' = wait_return[parent]
  /\ regs' = current_proc
  /\ rax' = ZeroExtended(code)
  /\ wait_return' = [wait_return EXCEPT ![parent] = 0]
  /\ waiting_for_pid' = [waiting_for_pid EXCEPT ![parent] = 0]
  /\ UNCHANGED mode

(* No return to the parent: wake it if it is blocked on this process, then *)
(* enter another process, or stop the CPU.                                 *)
ExitToNext(parent, exited) ==
  LET wakes == /\ parent # 0
               /\ exited[parent] = "BLOCKED"
               /\ waiting_for_pid[parent] = current_proc
      st    == IF wakes THEN [exited EXCEPT ![parent] = "READY"] ELSE exited
  IN
  /\ waiting_for_pid' = IF wakes THEN [waiting_for_pid EXCEPT ![parent] = 0]
                                 ELSE waiting_for_pid
  /\ UNCHANGED wait_return
  /\ LET next == next_ready_process(current_proc, st)
     IN  \/ /\ next # 0
            /\ enter_process_from_syscall(next, st)
            /\ rax' = 0
            /\ UNCHANGED mode
         \/ /\ next = 0
            /\ mode' = "halted"
            /\ state' = st
            /\ UNCHANGED <<current_proc, cr3, rip, regs, rax>>

(* Mutant: the parent is not looked for. *)
Exit_IgnoresParent(code) ==
  /\ InSyscall
  /\ exit_code' = [exit_code EXCEPT ![current_proc] = code]
  /\ saved_user' = [saved_user EXCEPT ![current_proc] = 0]
  /\ UNCHANGED <<table, has_user_frame, user_frame, left>>
  /\ ExitToNext(0, [state EXCEPT ![current_proc] = "EXITED"])

Exit(code) ==
  LET parent == parent_pid[current_proc]
      st     == [state EXCEPT ![current_proc] = "EXITED"]
  IN  /\ InSyscall
      /\ exit_code' = [exit_code EXCEPT ![current_proc] = code]
      /\ saved_user' = [saved_user EXCEPT ![current_proc] = 0]
      /\ UNCHANGED <<table, has_user_frame, user_frame, left>>
      /\ IF parent # 0 /\ wait_return[parent] # 0
         THEN ExitToParent(parent, code, st)
         ELSE ExitToNext(parent, st)

-----------------------------------------------------------------------------
(* ORE_SYS_YIELD *)

(* Mutant: the caller's return address is not saved. *)
Yield_NoSave ==
  LET next == next_ready_process(current_proc, state)
  IN  /\ InSyscall
      /\ UNCHANGED <<table, wait, exit_code, context>>
      /\ \/ /\ next = 0
            /\ ReturnToCaller(0)
            /\ UNCHANGED <<state, left>>
         \/ /\ next # 0
            /\ enter_process_from_syscall(next, [state EXCEPT ![current_proc] = "READY"])
            /\ rax' = 0
            /\ left' = [left EXCEPT ![current_proc] = AfterCall]
            /\ UNCHANGED mode

Yield ==
  LET next == next_ready_process(current_proc, state)
  IN  /\ InSyscall
      /\ UNCHANGED <<table, wait, exit_code, has_user_frame, user_frame>>
      /\ \/ /\ next = 0
            /\ ReturnToCaller(0)
            /\ UNCHANGED <<saved_user, state, left>>
         \/ /\ next # 0
            /\ saved_user' = [saved_user EXCEPT ![current_proc] = AfterCall]
            /\ enter_process_from_syscall(next, [state EXCEPT ![current_proc] = "READY"])
            /\ rax' = 0
            /\ left' = [left EXCEPT ![current_proc] = AfterCall]
            /\ UNCHANGED mode

-----------------------------------------------------------------------------
(* System calls that leave the process table alone *)

(* ORE_SYS_GETPID stands for every call that returns at once. *)
GetPid ==
  /\ InSyscall
  /\ ReturnToCaller(current_proc)
  /\ UNCHANGED <<table, wait, context, state, exit_code, left>>

(* ORE_SYS_SLEEP halts inside the kernel; the ticks that end it come from  *)
(* ring 0, where process_schedule_user_tick does nothing.  ORE_SYS_READ    *)
(* polls the keyboard with interrupts off.                                 *)
BeginKernelWait ==
  /\ InSyscall
  /\ mode' \in {"sleep", "read"}
  /\ UNCHANGED <<table, wait, context, state, exit_code, left>>
  /\ UNCHANGED <<current_proc, cr3, rip, regs, rax>>

EndKernelWait(in, value) ==
  /\ mode = in
  /\ ReturnToCaller(value)
  /\ UNCHANGED <<table, wait, context, state, exit_code, left>>

SleepOver == EndKernelWait("sleep", 0)
KeyArrives == EndKernelWait("read", 1)

-----------------------------------------------------------------------------
(* The timer interrupt in user mode: process_schedule_user_tick. *)

process_schedule_user_tick ==
  LET next == next_ready_process(current_proc, state)
  IN  /\ mode = "user"
      /\ state[current_proc] = "RUNNING"
      /\ current_proc # 1
      /\ next # 0
      /\ LET here  == [rip |-> rip, regs |-> current_proc]
             fresh == [rip |-> IF saved_user[next] # 0 THEN saved_user[next]
                                                       ELSE user_entry[next],
                       regs |-> 0]
             frame == IF has_user_frame[next] THEN user_frame[next] ELSE fresh
         IN  /\ user_frame' = [user_frame EXCEPT ![current_proc] = here, ![next] = frame]
             /\ rip' = frame.rip
             /\ regs' = frame.regs
      /\ has_user_frame' = [has_user_frame EXCEPT ![current_proc] = TRUE, ![next] = TRUE]
      /\ saved_user' = [saved_user EXCEPT ![current_proc] = rip]
      /\ process_set_current(next, [state EXCEPT ![current_proc] = "READY"])
      /\ cr3' = next
      /\ left' = [left EXCEPT ![current_proc] = rip]
      /\ UNCHANGED <<table, wait, exit_code, mode, rax>>

(* Fetching an instruction at address 0 faults; isr_dispatch panics. *)
UserFault ==
  /\ mode = "user" /\ rip = 0
  /\ mode' = "panic"
  /\ UNCHANGED <<table, wait, context, state, exit_code, left>>
  /\ UNCHANGED <<current_proc, cr3, rip, regs, rax>>

-----------------------------------------------------------------------------
Next ==
  \/ \E image \in {0, Entry} : Spawn(image)
  \/ CreateRefused
  \/ ExecImage
  \/ \E pid \in Pid : Wait(pid)
  \/ \E code \in Codes : Exit(code)
  \/ Yield
  \/ GetPid
  \/ BeginKernelWait
  \/ SleepOver
  \/ KeyArrives
  \/ process_schedule_user_tick
  \/ UserFault

Spec == Init /\ [][Next]_vars

(* The LAPIC timer fires periodically and user code runs with interrupts   *)
(* on; ticks also end a sleep.  Nothing makes a program or a key proceed.  *)
FairSpec ==
  Spec /\ WF_vars(process_schedule_user_tick) /\ WF_vars(SleepOver)

-----------------------------------------------------------------------------
(* Properties *)

(* Every variable holds a value the C types and the boot sequence allow. *)
TypeOK ==
  /\ process_count \in 2..MAX_PROCESSES
  /\ current_proc \in Users /\ cr3 \in Users
  /\ state \in [Pid -> {"UNUSED", "READY", "RUNNING", "EXITED", "BLOCKED"}]
  /\ parent_pid \in [Pid -> Pid]
  /\ exit_code \in [Pid -> Codes]
  /\ user_entry \in [Pid -> {0, Entry}]
  /\ waiting_for_pid \in [Pid -> Pid]
  /\ wait_return \in [Pid -> 0..MaxRip]
  /\ saved_user \in [Pid -> 0..MaxRip]
  /\ has_user_frame \in [Pid -> BOOLEAN]
  /\ user_frame \in [Pid -> [rip : 0..MaxRip, regs : Pid]]
  /\ mode \in {"user", "sleep", "read", "halted", "panic"}
  /\ rip \in 0..MaxRip /\ regs \in Pid /\ rax \in ReturnValues
  /\ left \in [Pid -> 0..MaxRip]

(* The process whose page tables are loaded is current_proc, and it is the *)
(* only user process marked RUNNING, whichever of yield, wait, exec, exit  *)
(* and the tick made the switch.  Once the CPU has stopped none is.        *)
OneRunning ==
  /\ cr3 = current_proc
  /\ \A p \in Users :
       state[p] = "RUNNING" <=> (p = current_proc /\ mode # "halted")

(* Slots are handed out in order and a parent sits in an earlier slot than *)
(* its children, so a chain of processes waiting for one another ends.     *)
(* Slot 0 and the free slots take no part in waiting.                      *)
ParentsOlder ==
  /\ state[0] = "RUNNING"
  /\ \A p \in Users : state[p] # "UNUSED" /\ parent_pid[p] < p
  /\ \A p \in Pid \ Users :
       /\ p # 0 => state[p] = "UNUSED"
       /\ parent_pid[p] = 0 /\ waiting_for_pid[p] = 0 /\ wait_return[p] = 0

(* A process is BLOCKED exactly while its return address for wait is set,  *)
(* and the process it waits for is a child of its own.  Exit relies on it: *)
(* it resumes the parent on wait_return alone, without looking at state.   *)
WaitConsistent ==
  \A p \in Users :
    /\ state[p] = "BLOCKED" <=> wait_return[p] # 0
    /\ state[p] = "BLOCKED" <=> waiting_for_pid[p] # 0
    /\ state[p] = "BLOCKED" => parent_pid[waiting_for_pid[p]] = p

(* No wakeup is lost: the child a blocked process waits for has not exited *)
(* yet, so its exit is still to come and will resume the parent.           *)
NoLostWakeup ==
  \A p \in Users :
    state[p] = "BLOCKED" => state[waiting_for_pid[p]] \in {"READY", "RUNNING", "BLOCKED"}

(* A process that waits is woken: what exit looks at to find it agrees     *)
(* with its state, and the exit that wakes it is still to come.            *)
WaitersAreWoken == WaitConsistent /\ NoLostWakeup

(* The hlt loop at the end of exit is reached only when every process has  *)
(* exited: the kernel never stops on a process that could still run or on  *)
(* parents waiting for one another.                                        *)
HaltsOnlyWhenAllExited ==
  mode = "halted" => \A p \in Users : state[p] = "EXITED"

(* What the kernel has stored for a process that is off the CPU is where   *)
(* the process left it, so a switch made by a system call always resumes   *)
(* the user code where it stopped.                                         *)
SavedWhereItLeft ==
  \A p \in Users :
    /\ state[p] = "READY" =>
         left[p] = IF saved_user[p] # 0 THEN saved_user[p] ELSE user_entry[p]
    /\ state[p] = "BLOCKED" => left[p] = wait_return[p]

(* An exited process stays exited and is not run again, and its exit code  *)
(* is not overwritten: a later wait still reads it.                        *)
ExitIsFinal ==
  [][\A p \in Users : state[p] = "EXITED" =>
       state'[p] = "EXITED" /\ exit_code'[p] = exit_code[p]]_vars

(* Every READY process gets the CPU: the timer interrupt and yield move on *)
(* through the table, and neither exec, wait nor exit can pass a process   *)
(* over for ever, also while init keeps taking turns.  Not promised: when  *)
(* init, which the tick never preempts, keeps the CPU for good, or when a  *)
(* process sleeps, reads a key or has brought the kernel down.             *)
ReadyRuns ==
  \A p \in Pid \ {0, 1} :
    state[p] = "READY" ~> \/ state[p] = "RUNNING"
                          \/ mode \in {"sleep", "read", "panic"}
                          \/ [](current_proc = 1)

-----------------------------------------------------------------------------
(* Claims of the user side that the kernel does not keep *)

(* The shell prints the value of sys_wait(pid) as the exit code of pid: a  *)
(* blocked parent resumes when the child it waits for has exited, with     *)
(* that child's exit code.                                                 *)
WaitReturnsThatChild ==
  [][\A p \in Users :
       state[p] = "BLOCKED" /\ state'[p] = "RUNNING" =>
         /\ state'[waiting_for_pid[p]] = "EXITED"
         /\ rax' = ZeroExtended(exit_code'[waiting_for_pid[p]])]_vars

(* When spawn fails the shell reports a bad executable and goes on: no     *)
(* process is entered whose image was never loaded.  Not kept: the slot of *)
(* the failed spawn stays READY.                                           *)
OnlyLoadedImagesRun == mode = "user" => rip # 0

(* syscall6 is an ordinary C function for the program, so a program that   *)
(* made a system call finds its own callee-saved registers again.  Not     *)
(* kept: the switch in a system call replaces only rip and rsp.            *)
RegistersSurviveSyscall ==
  [][current_proc' # current_proc /\ left'[current_proc'] > Entry =>
       regs' = current_proc']_vars

(* sys_yield returns once to the statement after it: a process that left   *)
(* the CPU continues where it left, whichever path gives it back.  Not     *)
(* kept: the tick prefers an older interrupt frame.                        *)
ResumesWhereItLeft ==
  [][current_proc' # current_proc => rip' = left'[current_proc']]_vars

=============================================================================
