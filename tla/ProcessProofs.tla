--------------------------- MODULE ProcessProofs ---------------------------
(***************************************************************************)
(* Proofs about Process for every size of the process table, every set of  *)
(* exit codes and programs of every length.                                *)
(***************************************************************************)
EXTENDS Process, WellFoundedInduction, TLAPS

(* A nonempty set of naturals has a least element: what the scan loops and *)
(* the argument that wait chains end rest on.                              *)
LEMMA LeastElement ==
  ASSUME NEW T, T \subseteq Nat, T # {}
  PROVE  \E x \in T : \A y \in T : x <= y
<1> DEFINE R == OpToRel(<, Nat)
<1>1. IsWellFoundedOn(R, Nat)
  BY NatLessThanWellFounded, Zenon
<1>2. PICK x \in T : \A y \in T : ~ (<<y, x>> \in R)
  <2> HIDE DEF R
  <2> QED BY <1>1, WFMin
<1>3. \A y \in T : ~ (y < x)
  BY <1>2 DEF OpToRel
<1> QED BY <1>3

(* What the proofs need to know of the bounds. *)
LEMMA BoundTypes ==
  /\ MAX_PROCESSES \in Nat /\ MAX_PROCESSES >= 2
  /\ MaxRip \in Nat /\ MaxRip >= 1
  BY ProcessAssumption

(* A nonempty set of slots has a greatest element. *)
LEMMA GreatestPid ==
  ASSUME NEW T, T \subseteq Pid, T # {}
  PROVE  \E x \in T : \A y \in T : y <= x
<1> USE ProcessAssumption DEF Pid
<1> DEFINE U == {MAX_PROCESSES - p : p \in T}
<1>1. U \subseteq Nat /\ U # {}
  OBVIOUS
<1>2. PICK u \in U : \A v \in U : u <= v
  <2> HIDE DEF U
  <2> QED BY <1>1, LeastElement
<1>3. PICK x \in T : u = MAX_PROCESSES - x
  OBVIOUS
<1>4. \A y \in T : u <= MAX_PROCESSES - y
  BY <1>2
<1> QED BY <1>3, <1>4

(* The scan of next_ready_process visits slots 1 .. process_count-1 only. *)
LEMMA ScanSlotRange ==
  ASSUME process_count \in 2..MAX_PROCESSES, NEW e \in Users,
         NEW s \in 1..(process_count - 1)
  PROVE  ScanSlot(e, s) \in Users
  BY BoundTypes DEF ScanSlot, Users, Pid

(* ... and it visits each of them. *)
LEMMA ScanSlotOnto ==
  ASSUME process_count \in 2..MAX_PROCESSES, NEW e \in Users, NEW p \in Users
  PROVE  \E s \in 1..(process_count - 1) : ScanSlot(e, s) = p
<1> USE BoundTypes DEF Users, Pid
<1> DEFINE start == IF e + 1 >= process_count THEN 1 ELSE e + 1
           s == IF p >= start THEN p - start + 1 ELSE p - start + process_count
<1>1. s \in 1..(process_count - 1) /\ ScanSlot(e, s) = p
  BY DEF ScanSlot
<1> QED BY <1>1

(* next_ready_process returns a READY process other than the excluded one, *)
(* and null only when there is none.                                       *)
LEMMA NextReady ==
  ASSUME process_count \in 2..MAX_PROCESSES, NEW e \in Users, NEW st
  PROVE  LET next == next_ready_process(e, st)
         IN  /\ next # 0 => next \in Users /\ next # e /\ st[next] = "READY"
             /\ next = 0 => \A p \in Users \ {e} : st[p] # "READY"
<1> DEFINE hits == Hits(e, st)
<1>1. CASE hits = {}
  <2>1. next_ready_process(e, st) = 0
    BY <1>1 DEF next_ready_process
  <2>2. ASSUME NEW p \in Users \ {e}, st[p] = "READY" PROVE FALSE
    <3>1. PICK s \in 1..(process_count - 1) : ScanSlot(e, s) = p
      BY ScanSlotOnto
    <3> QED BY <1>1, <2>2, <3>1 DEF Hits
  <2> QED BY <2>1, <2>2
<1>2. CASE hits # {}
  <2> DEFINE first == CHOOSE s \in hits : \A t \in hits : s <= t
  <2>1. hits \subseteq Nat
    BY ProcessAssumption DEF Hits
  <2>2. \E s \in hits : \A t \in hits : s <= t
    <3> HIDE DEF hits
    <3> QED BY <1>2, <2>1, LeastElement
  <2>3. first \in hits
    <3> HIDE DEF hits
    <3> QED BY <2>2
  <2>4. next_ready_process(e, st) = ScanSlot(e, first)
    BY <1>2 DEF next_ready_process
  <2>5. ScanSlot(e, first) \in Users
    BY <2>3, ScanSlotRange DEF Hits
  <2>6. ScanSlot(e, first) # e /\ st[ScanSlot(e, first)] = "READY"
    BY <2>3 DEF Hits
  <2>7. ScanSlot(e, first) # 0
    BY <2>5, ProcessAssumption DEF Users
  <2> QED BY <2>4, <2>5, <2>6, <2>7
<1> QED BY <1>1, <1>2

(* What system calls return: pids, exit codes of either width, errors. *)
LEMMA ReturnValuesHave ==
  /\ Pid \subseteq ReturnValues /\ Codes \subseteq ReturnValues
  /\ {EINVAL, 0, 1} \subseteq ReturnValues
  /\ \A c \in Codes : ZeroExtended(c) \in ReturnValues
  BY ProcessAssumption DEF ReturnValues, Pid

-----------------------------------------------------------------------------
(* Type correctness, the per-slot variables and those of the CPU apart. *)

SlotTypes ==
  /\ state \in [Pid -> {"UNUSED", "READY", "RUNNING", "EXITED", "BLOCKED"}]
  /\ parent_pid \in [Pid -> Pid]
  /\ exit_code \in [Pid -> Codes]
  /\ user_entry \in [Pid -> {0, Entry}]
  /\ waiting_for_pid \in [Pid -> Pid]
  /\ wait_return \in [Pid -> 0..MaxRip]
  /\ saved_user \in [Pid -> 0..MaxRip]
  /\ has_user_frame \in [Pid -> BOOLEAN]
  /\ user_frame \in [Pid -> [rip : 0..MaxRip, regs : Pid]]
  /\ left \in [Pid -> 0..MaxRip]

CpuTypes ==
  /\ process_count \in 2..MAX_PROCESSES
  /\ current_proc \in Users /\ cr3 \in Users
  /\ mode \in {"user", "sleep", "read", "halted", "panic"}
  /\ rip \in 0..MaxRip /\ regs \in Pid /\ rax \in ReturnValues

(* The type invariant in two parts, the table and CPU 0, which are shown   *)
(* apart.                                                                  *)
LEMMA TypeSplit == TypeOK <=> SlotTypes /\ CpuTypes
  BY DEF TypeOK, SlotTypes, CpuTypes

(* ... and the same after a step. *)
LEMMA TypeSplitPrimed == SlotTypes' /\ CpuTypes' => TypeOK'
  BY DEF TypeOK, SlotTypes, CpuTypes

(* The processes in use are slots of the table. *)
LEMMA UsersArePids ==
  ASSUME CpuTypes PROVE Users \subseteq Pid /\ current_proc \in Pid
  BY ProcessAssumption DEF CpuTypes, Users, Pid

(* The position a system call returns to is a position of the program. *)
LEMMA AfterCallType ==
  ASSUME CpuTypes
  PROVE  AfterCall \in 0..MaxRip /\ (InSyscall => AfterCall # 0)
  BY ProcessAssumption DEF CpuTypes, AfterCall, InSyscall

(* A call that returns to its caller keeps the CPU's variables typed. *)
LEMMA ReturnTypes ==
  ASSUME CpuTypes, NEW v \in ReturnValues, ReturnToCaller(v),
         process_count' \in process_count..MAX_PROCESSES
  PROVE  CpuTypes'
<1>1. AfterCall \in 0..MaxRip
  BY AfterCallType
<1>2. ReturnValues' = ReturnValues
  BY DEF ReturnValues, Pid
<1>3. process_count \in 2..MAX_PROCESSES /\ process_count' \in 2..MAX_PROCESSES
  BY ProcessAssumption DEF CpuTypes
<1>5. current_proc' \in Users' /\ cr3' \in Users'
  BY <1>3, BoundTypes DEF CpuTypes, ReturnToCaller, Users, Pid
<1>4. mode' = "user" /\ rip' \in 0..MaxRip /\ regs' \in Pid /\ rax' \in ReturnValues'
  BY <1>1, <1>2, UsersArePids DEF ReturnToCaller
<1> QED BY <1>3, <1>4, <1>5 DEF CpuTypes, Pid

(* ... and so does one that enters another process. *)
LEMMA EnterTypes ==
  ASSUME CpuTypes, NEW next \in Pid, 0 < next, next < process_count', NEW st,
         enter_process_from_syscall(next, st), rax' \in ReturnValues, UNCHANGED mode,
         process_count' \in process_count..MAX_PROCESSES,
         saved_user'[next] \in 0..MaxRip, user_entry'[next] \in 0..MaxRip
  PROVE  CpuTypes'
<1>1. ReturnValues' = ReturnValues
  BY DEF ReturnValues, Pid
<1>2. current_proc' \in Users' /\ cr3' \in Users'
  BY DEF enter_process_from_syscall, process_set_current, Users
<1>3. process_count' \in 2..MAX_PROCESSES
  BY ProcessAssumption DEF CpuTypes
<1>4. rip' \in 0..MaxRip /\ regs' \in Pid
  BY UsersArePids DEF enter_process_from_syscall
<1> QED BY <1>1, <1>2, <1>3, <1>4 DEF CpuTypes, Pid

-----------------------------------------------------------------------------
(* Steps that keep the table, by the change they make to the states *)

WaitInv == OneRunning /\ ParentsOlder /\ WaitConsistent /\ NoLostWakeup

(* A step that leaves the table, the states and the CPU's owner alone. *)
LEMMA QuietStep ==
  ASSUME WaitInv, mode # "halted", mode' # "halted",
         UNCHANGED <<process_count, parent_pid, state, waiting_for_pid, wait_return>>,
         UNCHANGED <<current_proc, cr3>>
  PROVE  WaitInv'
<1>1. Users' = Users /\ Pid' = Pid
  BY DEF Users, Pid
<1>2. OneRunning'
  BY <1>1 DEF WaitInv, OneRunning
<1>3. ParentsOlder'
  BY <1>1 DEF WaitInv, ParentsOlder
<1>4. WaitConsistent' /\ NoLostWakeup'
  BY <1>1 DEF WaitInv, WaitConsistent, NoLostWakeup
<1> QED BY <1>2, <1>3, <1>4 DEF WaitInv

(* Yield and the tick: the running process becomes READY and another READY *)
(* process runs.                                                           *)
LEMMA SwitchStep ==
  ASSUME SlotTypes, CpuTypes, WaitInv, mode # "halted", UNCHANGED mode,
         NEW next \in Users, next # current_proc, state[next] = "READY",
         \A p \in Pid : state'[p] = IF p = next THEN "RUNNING"
                                    ELSE IF p = current_proc THEN "READY" ELSE state[p],
         current_proc' = next, cr3' = next,
         UNCHANGED <<process_count, parent_pid, waiting_for_pid, wait_return>>
  PROVE  WaitInv'
<1>0. Users' = Users /\ Pid' = Pid
  BY DEF Users, Pid
<1>1. /\ Users \subseteq Pid /\ 0 \notin Users /\ 0 \in Pid
      /\ current_proc \in Users /\ state[current_proc] = "RUNNING"
  BY BoundTypes DEF WaitInv, OneRunning, CpuTypes, Users, Pid
<1>2. OneRunning'
  BY <1>0, <1>1 DEF WaitInv, OneRunning
<1>3. ParentsOlder'
  BY <1>0, <1>1 DEF WaitInv, ParentsOlder
<1>4. \A p \in Users : state'[p] = "BLOCKED" <=> state[p] = "BLOCKED"
  BY <1>1
<1>5. WaitConsistent'
  BY <1>0, <1>1, <1>4 DEF WaitInv, WaitConsistent
<1>6. NoLostWakeup'
  BY <1>0, <1>1, <1>4 DEF WaitInv, NoLostWakeup, SlotTypes
<1> QED BY <1>2, <1>3, <1>5, <1>6 DEF WaitInv

(* Wait: the running process blocks on a READY child of its own. *)
LEMMA BlockStep ==
  ASSUME SlotTypes, CpuTypes, WaitInv, mode # "halted", UNCHANGED mode,
         NEW child \in Users, child # current_proc, state[child] = "READY",
         parent_pid[child] = current_proc, NEW ret, ret # 0,
         \A p \in Pid : state'[p] = IF p = child THEN "RUNNING"
                                    ELSE IF p = current_proc THEN "BLOCKED" ELSE state[p],
         \A p \in Pid : waiting_for_pid'[p] =
                          IF p = current_proc THEN child ELSE waiting_for_pid[p],
         \A p \in Pid : wait_return'[p] = IF p = current_proc THEN ret ELSE wait_return[p],
         current_proc' = child, cr3' = child,
         UNCHANGED <<process_count, parent_pid>>
  PROVE  WaitInv'
<1>0. Users' = Users /\ Pid' = Pid
  BY DEF Users, Pid
<1>1. /\ Users \subseteq Pid /\ 0 \notin Users /\ 0 \in Pid
      /\ current_proc \in Users /\ state[current_proc] = "RUNNING"
  BY BoundTypes DEF WaitInv, OneRunning, CpuTypes, Users, Pid
<1>2. OneRunning'
  BY <1>0, <1>1 DEF WaitInv, OneRunning
<1>3. ParentsOlder'
  BY <1>0, <1>1 DEF WaitInv, ParentsOlder
<1>4. WaitConsistent'
  <2>1. ASSUME NEW p \in Users
        PROVE  /\ state'[p] = "BLOCKED" <=> wait_return'[p] # 0
               /\ state'[p] = "BLOCKED" <=> waiting_for_pid'[p] # 0
               /\ state'[p] = "BLOCKED" => parent_pid[waiting_for_pid'[p]] = p
    <3>1. CASE p = current_proc
      BY <3>1, <1>1
    <3>2. CASE p # current_proc
      BY <3>2, <1>1 DEF WaitInv, WaitConsistent
    <3> QED BY <3>1, <3>2
  <2> QED BY <1>0, <2>1 DEF WaitConsistent
<1>5. NoLostWakeup'
  <2>1. ASSUME NEW p \in Users, state'[p] = "BLOCKED"
        PROVE  state'[waiting_for_pid'[p]] \in {"READY", "RUNNING", "BLOCKED"}
    <3>1. CASE p = current_proc
      BY <3>1, <1>1
    <3>2. CASE p # current_proc
      <4>1. waiting_for_pid'[p] = waiting_for_pid[p] /\ waiting_for_pid[p] \in Pid
        BY <3>2, <1>1 DEF SlotTypes
      <4>2. state[waiting_for_pid[p]] \in {"READY", "RUNNING", "BLOCKED"}
        BY <2>1, <3>2, <1>1 DEF WaitInv, NoLostWakeup
      <4> QED BY <4>1, <4>2
    <3> QED BY <3>1, <3>2
  <2> QED BY <1>0, <2>1 DEF NoLostWakeup
<1> QED BY <1>2, <1>3, <1>4, <1>5 DEF WaitInv

(* Spawn: the next slot becomes READY. *)
LEMMA CreateStep ==
  ASSUME SlotTypes, CpuTypes, WaitInv, mode # "halted", mode' # "halted",
         process_count < MAX_PROCESSES, process_count' = process_count + 1,
         NEW par \in {0, current_proc},
         \A p \in Pid : state'[p] = IF p = process_count THEN "READY" ELSE state[p],
         \A p \in Pid : parent_pid'[p] = IF p = process_count THEN par ELSE parent_pid[p],
         UNCHANGED <<waiting_for_pid, wait_return, current_proc, cr3>>
  PROVE  WaitInv'
<1>1. Users' = Users \cup {process_count} /\ Pid' = Pid
  BY BoundTypes DEF CpuTypes, Users, Pid
<1>2. /\ Users \subseteq Pid /\ 0 \notin Users /\ 0 \in Pid
      /\ process_count \in Pid \ (Users \cup {0})
      /\ current_proc \in Users /\ current_proc < process_count /\ 0 < process_count
  BY BoundTypes DEF CpuTypes, Users, Pid
<1>3. OneRunning'
  BY <1>1, <1>2 DEF WaitInv, OneRunning
<1>4. ParentsOlder'
  BY <1>1, <1>2 DEF WaitInv, ParentsOlder
<1>5. waiting_for_pid[process_count] = 0 /\ wait_return[process_count] = 0
  BY <1>2 DEF WaitInv, ParentsOlder
<1>6. \A p \in Users : state[p] = "BLOCKED" =>
        waiting_for_pid[p] \in Pid /\ waiting_for_pid[p] # process_count
  BY <1>2 DEF WaitInv, WaitConsistent, ParentsOlder, SlotTypes
<1>7. WaitConsistent'
  BY <1>1, <1>2, <1>5, <1>6 DEF WaitInv, WaitConsistent
<1>8. NoLostWakeup'
  BY <1>1, <1>2, <1>6 DEF WaitInv, NoLostWakeup
<1> QED BY <1>3, <1>4, <1>7, <1>8 DEF WaitInv

(* Exec: the running process blocks on the next slot, which runs. *)
LEMMA ExecStep ==
  ASSUME SlotTypes, CpuTypes, WaitInv, mode # "halted", UNCHANGED mode,
         process_count < MAX_PROCESSES, process_count' = process_count + 1,
         NEW ret, ret # 0,
         \A p \in Pid : state'[p] = IF p = process_count THEN "RUNNING"
                                    ELSE IF p = current_proc THEN "BLOCKED" ELSE state[p],
         \A p \in Pid : parent_pid'[p] =
                          IF p = process_count THEN current_proc ELSE parent_pid[p],
         \A p \in Pid : waiting_for_pid'[p] =
                          IF p = current_proc THEN process_count ELSE waiting_for_pid[p],
         \A p \in Pid : wait_return'[p] = IF p = current_proc THEN ret ELSE wait_return[p],
         current_proc' = process_count, cr3' = process_count
  PROVE  WaitInv'
<1>1. Users' = Users \cup {process_count} /\ Pid' = Pid
  BY BoundTypes DEF CpuTypes, Users, Pid
<1>2. /\ Users \subseteq Pid /\ 0 \notin Users /\ 0 \in Pid
      /\ process_count \in Pid \ (Users \cup {0})
      /\ current_proc \in Users /\ current_proc < process_count /\ 0 < process_count
  BY BoundTypes DEF CpuTypes, Users, Pid
<1>3. OneRunning'
  BY <1>1, <1>2 DEF WaitInv, OneRunning
<1>4. ParentsOlder'
  BY <1>1, <1>2 DEF WaitInv, ParentsOlder
<1>5. waiting_for_pid[process_count] = 0 /\ wait_return[process_count] = 0
  BY <1>2 DEF WaitInv, ParentsOlder
<1>6. \A p \in Users : state[p] = "BLOCKED" =>
        waiting_for_pid[p] \in Pid /\ waiting_for_pid[p] # process_count
  BY <1>2 DEF WaitInv, WaitConsistent, ParentsOlder, SlotTypes
<1>7. WaitConsistent'
  <2>1. ASSUME NEW p \in Users'
        PROVE  /\ state'[p] = "BLOCKED" <=> wait_return'[p] # 0
               /\ state'[p] = "BLOCKED" <=> waiting_for_pid'[p] # 0
               /\ state'[p] = "BLOCKED" => parent_pid'[waiting_for_pid'[p]] = p
    <3>1. CASE p = current_proc
      BY <3>1, <1>2
    <3>2. CASE p = process_count
      BY <3>2, <1>2, <1>5
    <3>3. CASE p \in Users /\ p # current_proc
      BY <3>3, <1>2, <1>6 DEF WaitInv, WaitConsistent
    <3> QED BY <1>1, <3>1, <3>2, <3>3
  <2> QED BY <2>1 DEF WaitConsistent
<1>8. NoLostWakeup'
  <2>1. ASSUME NEW p \in Users', state'[p] = "BLOCKED"
        PROVE  state'[waiting_for_pid'[p]] \in {"READY", "RUNNING", "BLOCKED"}
    <3>1. CASE p = current_proc
      BY <3>1, <1>2
    <3>2. CASE p = process_count
      BY <2>1, <3>2, <1>2
    <3>3. CASE p \in Users /\ p # current_proc
      <4>1. p # process_count /\ p \in Pid
        BY <3>3, <1>2
      <4>2. waiting_for_pid'[p] = waiting_for_pid[p] /\ state[p] = "BLOCKED"
        BY <2>1, <3>3, <4>1
      <4>3. state[waiting_for_pid[p]] \in {"READY", "RUNNING", "BLOCKED"}
        BY <3>3, <4>2 DEF WaitInv, NoLostWakeup
      <4> QED BY <1>6, <3>3, <4>2, <4>3
    <3> QED BY <1>1, <3>1, <3>2, <3>3
  <2> QED BY <2>1 DEF NoLostWakeup
<1> QED BY <1>3, <1>4, <1>7, <1>8 DEF WaitInv

(* Exit towards a parent with a return address: the parent was blocked, on *)
(* this or on another child, and runs again.                               *)
LEMMA ExitToParentStep ==
  ASSUME SlotTypes, CpuTypes, WaitInv, mode # "halted", UNCHANGED mode,
         NEW par, par = parent_pid[current_proc], par # 0, wait_return[par] # 0,
         \A p \in Pid : state'[p] = IF p = par THEN "RUNNING"
                                    ELSE IF p = current_proc THEN "EXITED" ELSE state[p],
         \A p \in Pid : waiting_for_pid'[p] = IF p = par THEN 0 ELSE waiting_for_pid[p],
         \A p \in Pid : wait_return'[p] = IF p = par THEN 0 ELSE wait_return[p],
         current_proc' = par, cr3' = par,
         UNCHANGED <<process_count, parent_pid>>
  PROVE  WaitInv'
<1>1. Users' = Users /\ Pid' = Pid
  BY DEF Users, Pid
<1>2. /\ Users \subseteq Pid /\ 0 \notin Users /\ 0 \in Pid
      /\ current_proc \in Users /\ state[current_proc] = "RUNNING"
  BY BoundTypes DEF WaitInv, OneRunning, CpuTypes, Users, Pid
<1>3. par \in Pid
  BY <1>2 DEF SlotTypes
<1>4. par \in Users /\ par # current_proc
  <2>1. par < current_proc
    BY <1>2 DEF WaitInv, ParentsOlder
  <2> QED BY <2>1, <1>2, <1>3, BoundTypes DEF CpuTypes, Users, Pid
<1>5. OneRunning'
  BY <1>1, <1>2, <1>4 DEF WaitInv, OneRunning
<1>6. ParentsOlder'
  BY <1>1, <1>2, <1>3, <1>4 DEF WaitInv, ParentsOlder
<1>7. WaitConsistent'
  BY <1>1, <1>2, <1>4 DEF WaitInv, WaitConsistent
<1>8. NoLostWakeup'
  <2>1. ASSUME NEW p \in Users, state'[p] = "BLOCKED"
        PROVE  state'[waiting_for_pid'[p]] \in {"READY", "RUNNING", "BLOCKED"}
    <3>1. p # par /\ p # current_proc /\ state[p] = "BLOCKED" /\ p \in Pid
      BY <2>1, <1>2
    <3>2. waiting_for_pid'[p] = waiting_for_pid[p] /\ waiting_for_pid[p] \in Pid
      BY <3>1 DEF SlotTypes
    <3>3. parent_pid[waiting_for_pid[p]] = p
      BY <3>1 DEF WaitInv, WaitConsistent
    <3>4. waiting_for_pid[p] # current_proc
      BY <3>1, <3>3
    <3>5. state[waiting_for_pid[p]] \in {"READY", "RUNNING", "BLOCKED"}
      BY <3>1 DEF WaitInv, NoLostWakeup
    <3> QED BY <3>2, <3>4, <3>5
  <2> QED BY <1>1, <2>1 DEF NoLostWakeup
<1> QED BY <1>5, <1>6, <1>7, <1>8 DEF WaitInv

(* Exit without such a parent: nobody waits for the process that exits. *)
LEMMA NobodyWaits ==
  ASSUME SlotTypes, CpuTypes, WaitInv,
         NEW par, par = parent_pid[current_proc], par = 0 \/ wait_return[par] = 0
  PROVE  /\ \A p \in Users : state[p] = "BLOCKED" => waiting_for_pid[p] # current_proc
         /\ par # 0 => state[par] # "BLOCKED"
<1>1. Users \subseteq Pid /\ 0 \notin Users /\ current_proc \in Users
  BY BoundTypes DEF CpuTypes, Users, Pid
<1>2. \A p \in Users : state[p] = "BLOCKED" => waiting_for_pid[p] # current_proc
  BY <1>1 DEF WaitInv, WaitConsistent
<1>3. par # 0 => par \in Users
  <2>1. par \in Pid /\ par < current_proc
    BY <1>1 DEF WaitInv, ParentsOlder, SlotTypes
  <2> QED BY <2>1, <1>1, BoundTypes DEF CpuTypes, Users, Pid
<1>4. par # 0 => state[par] # "BLOCKED"
  BY <1>3 DEF WaitInv, WaitConsistent
<1> QED BY <1>2, <1>4

(* ... then a READY process runs, *)
LEMMA ExitToNextStep ==
  ASSUME SlotTypes, CpuTypes, WaitInv, mode # "halted", UNCHANGED mode,
         \A p \in Users : state[p] = "BLOCKED" => waiting_for_pid[p] # current_proc,
         NEW next \in Users, next # current_proc, state[next] = "READY",
         \A p \in Pid : state'[p] = IF p = next THEN "RUNNING"
                                    ELSE IF p = current_proc THEN "EXITED" ELSE state[p],
         current_proc' = next, cr3' = next,
         UNCHANGED <<process_count, parent_pid, waiting_for_pid, wait_return>>
  PROVE  WaitInv'
<1>1. Users' = Users /\ Pid' = Pid
  BY DEF Users, Pid
<1>2. /\ Users \subseteq Pid /\ 0 \notin Users /\ 0 \in Pid
      /\ current_proc \in Users /\ state[current_proc] = "RUNNING"
  BY BoundTypes DEF WaitInv, OneRunning, CpuTypes, Users, Pid
<1>3. OneRunning'
  BY <1>1, <1>2 DEF WaitInv, OneRunning
<1>4. ParentsOlder'
  BY <1>1, <1>2 DEF WaitInv, ParentsOlder
<1>5. \A p \in Users : state'[p] = "BLOCKED" <=> state[p] = "BLOCKED"
  BY <1>2
<1>6. WaitConsistent'
  BY <1>1, <1>2, <1>5 DEF WaitInv, WaitConsistent
<1>7. NoLostWakeup'
  BY <1>1, <1>2, <1>5 DEF WaitInv, NoLostWakeup, SlotTypes
<1> QED BY <1>3, <1>4, <1>6, <1>7 DEF WaitInv

(* ... or, when there is none, every process has exited: the youngest      *)
(* blocked process would wait for a child that is READY or blocked.        *)
LEMMA ExitHaltStep ==
  ASSUME SlotTypes, CpuTypes, WaitInv, mode # "halted", mode' = "halted",
         \A p \in Users : state[p] = "BLOCKED" => waiting_for_pid[p] # current_proc,
         \A p \in Users \ {current_proc} : state[p] # "READY",
         \A p \in Pid : state'[p] = IF p = current_proc THEN "EXITED" ELSE state[p],
         UNCHANGED <<process_count, parent_pid, waiting_for_pid, wait_return, current_proc, cr3>>
  PROVE  WaitInv' /\ HaltsOnlyWhenAllExited'
<1>1. Users' = Users /\ Pid' = Pid
  BY DEF Users, Pid
<1>2. /\ Users \subseteq Pid /\ 0 \notin Users /\ 0 \in Pid
      /\ current_proc \in Users /\ state[current_proc] = "RUNNING"
  BY BoundTypes DEF WaitInv, OneRunning, CpuTypes, Users, Pid
<1>3. \A p \in Users : state[p] # "BLOCKED"
  <2> DEFINE blocked == {p \in Users : state[p] = "BLOCKED"}
  <2> SUFFICES ASSUME blocked # {} PROVE FALSE
    OBVIOUS
  <2>1. PICK p \in blocked : \A q \in blocked : q <= p
    <3>1. blocked \subseteq Pid
      BY <1>2
    <3> HIDE DEF blocked
    <3> QED BY <3>1, GreatestPid
  <2> DEFINE child == waiting_for_pid[p]
  <2>2. child \in Pid /\ child # 0 /\ parent_pid[child] = p /\ p # 0 /\ p \in Pid
    BY <1>2 DEF WaitInv, WaitConsistent, SlotTypes
  <2>3. child \in Users
    BY <2>2 DEF WaitInv, ParentsOlder
  <2>4. p < child
    BY <2>2, <2>3 DEF WaitInv, ParentsOlder
  <2>5. child # current_proc
    OBVIOUS
  <2>6. state[child] # "RUNNING"
    BY <2>3, <2>5 DEF WaitInv, OneRunning
  <2>7. state[child] \in {"READY", "RUNNING", "BLOCKED"}
    BY DEF WaitInv, NoLostWakeup
  <2>8. child \in blocked
    BY <2>3, <2>5, <2>6, <2>7
  <2>9. child <= p
    BY <2>1, <2>8
  <2> QED BY <2>2, <2>4, <2>9, BoundTypes DEF Pid
<1>4. \A p \in Users : state'[p] = "EXITED"
  BY <1>2, <1>3 DEF SlotTypes, WaitInv, OneRunning, ParentsOlder
<1>5. OneRunning' /\ HaltsOnlyWhenAllExited'
  BY <1>1, <1>2, <1>4 DEF WaitInv, OneRunning, HaltsOnlyWhenAllExited
<1>6. ParentsOlder'
  BY <1>1, <1>2 DEF WaitInv, ParentsOlder
<1>7. WaitConsistent' /\ NoLostWakeup'
  BY <1>1, <1>2, <1>3, <1>4 DEF WaitInv, WaitConsistent, NoLostWakeup
<1> QED BY <1>5, <1>6, <1>7 DEF WaitInv

-----------------------------------------------------------------------------
(* The inductive invariant.  None of its parts is inductive alone: the     *)
(* types of current_proc and rip need that a parent to return to is a user *)
(* process, and that nothing is lost needs that only one process runs.     *)
Inv == TypeOK /\ WaitInv /\ HaltsOnlyWhenAllExited

(* The boot sequence establishes it. *)
LEMMA InitInv == Init => Inv
<1> SUFFICES ASSUME Init PROVE Inv
  OBVIOUS
<1> USE BoundTypes DEF Init, Users, Pid, Entry
<1>1. TypeOK
  <2>1. SlotTypes
    BY ProcessAssumption DEF SlotTypes
  <2>2. CpuTypes
    BY ReturnValuesHave DEF CpuTypes
  <2> QED BY <2>1, <2>2, TypeSplit
<1>2. OneRunning /\ HaltsOnlyWhenAllExited
  BY DEF OneRunning, HaltsOnlyWhenAllExited
<1>3. ParentsOlder
  BY DEF ParentsOlder
<1>4. WaitConsistent /\ NoLostWakeup
  BY DEF WaitConsistent, NoLostWakeup
<1> QED BY <1>1, <1>2, <1>3, <1>4 DEF Inv, WaitInv

(* A call that only returns a value. *)
LEMMA ReturnInv ==
  ASSUME Inv, mode # "halted", NEW v \in ReturnValues, ReturnToCaller(v),
         UNCHANGED <<table, wait, context, state, exit_code, left>>
  PROVE  Inv'
<1>1. SlotTypes /\ CpuTypes /\ WaitInv
  BY TypeSplit DEF Inv
<1>2. SlotTypes'
  BY <1>1 DEF SlotTypes, table, wait, context, Pid
<1>3. CpuTypes'
  <2>1. process_count' \in process_count..MAX_PROCESSES
    BY <1>1, BoundTypes DEF CpuTypes, table
  <2> QED BY <1>1, <2>1, ReturnTypes
<1>4. WaitInv' /\ mode' # "halted"
  BY <1>1, QuietStep DEF ReturnToCaller, table, wait
<1> QED BY <1>2, <1>3, <1>4, TypeSplitPrimed DEF Inv, HaltsOnlyWhenAllExited

(* A step that only changes what the CPU does. *)
LEMMA ModeInv ==
  ASSUME Inv, mode # "halted", mode' \in {"sleep", "read", "panic"},
         UNCHANGED <<table, wait, context, state, exit_code, left>>,
         UNCHANGED <<current_proc, cr3, rip, regs, rax>>
  PROVE  Inv'
<1>1. SlotTypes /\ CpuTypes /\ WaitInv
  BY TypeSplit DEF Inv
<1>2. SlotTypes'
  BY <1>1 DEF SlotTypes, table, wait, context, Pid
<1>3. CpuTypes'
  BY <1>1 DEF CpuTypes, table, Users, Pid, ReturnValues
<1>4. WaitInv' /\ mode' # "halted"
  BY <1>1, QuietStep DEF table, wait
<1> QED BY <1>2, <1>3, <1>4, TypeSplitPrimed DEF Inv, HaltsOnlyWhenAllExited

(* ORE_SYS_SPAWN *)
LEMMA SpawnInv ==
  ASSUME Inv, NEW image \in {0, Entry}, Spawn(image)
  PROVE  Inv'
<1>1. SlotTypes /\ CpuTypes /\ WaitInv /\ mode # "halted"
  BY TypeSplit DEF Inv, Spawn, InSyscall
<1>2. /\ process_count \in Pid /\ process_count < MAX_PROCESSES
      /\ process_count' = process_count + 1
      /\ process_count' \in process_count..MAX_PROCESSES
      /\ current_proc \in Pid
  BY <1>1, BoundTypes DEF CpuTypes, Users, Spawn, process_create_user, Pid
<1> DEFINE par == IF image = 0 THEN 0 ELSE current_proc
<1>3. SlotTypes'
  <2>1. image \in 0..MaxRip /\ par \in Pid
    BY <1>2, BoundTypes DEF Entry, Pid
  <2>2. /\ state' \in [Pid -> {"UNUSED", "READY", "RUNNING", "EXITED", "BLOCKED"}]
        /\ parent_pid' \in [Pid -> Pid]
        /\ user_entry' \in [Pid -> {0, Entry}]
        /\ saved_user' \in [Pid -> 0..MaxRip]
        /\ left' \in [Pid -> 0..MaxRip]
    BY <1>1, <1>2, <2>1 DEF SlotTypes, Spawn, process_create_user
  <2> QED BY <1>1, <2>2 DEF SlotTypes, Spawn, process_create_user, wait
<1>4. CpuTypes' /\ mode' # "halted"
  <2>1. (IF image = 0 THEN EINVAL ELSE process_count) \in ReturnValues
    BY <1>2, ReturnValuesHave
  <2> QED BY <1>1, <1>2, <2>1, ReturnTypes DEF Spawn, ReturnToCaller
<1>5. WaitInv'
  <2>1. par \in {0, current_proc}
    OBVIOUS
  <2>2. \A p \in Pid : state'[p] = IF p = process_count THEN "READY" ELSE state[p]
    BY <1>1 DEF Spawn, SlotTypes
  <2>3. \A p \in Pid : parent_pid'[p] = IF p = process_count THEN par ELSE parent_pid[p]
    BY <1>1 DEF Spawn, process_create_user, SlotTypes
  <2>4. UNCHANGED <<waiting_for_pid, wait_return, current_proc, cr3>>
    BY DEF Spawn, wait, ReturnToCaller
  <2> HIDE DEF par
  <2> QED BY <1>1, <1>2, <1>4, <2>1, <2>2, <2>3, <2>4, CreateStep
<1> QED BY <1>3, <1>4, <1>5, TypeSplitPrimed DEF Inv, HaltsOnlyWhenAllExited

(* ORE_SYS_EXEC_IMAGE *)
LEMMA ExecImageInv ==
  ASSUME Inv, ExecImage
  PROVE  Inv'
<1>1. SlotTypes /\ CpuTypes /\ WaitInv /\ mode # "halted"
  BY TypeSplit DEF Inv, ExecImage, InSyscall
<1>2. /\ process_count \in Pid /\ process_count < MAX_PROCESSES
      /\ process_count' = process_count + 1
      /\ process_count' \in process_count..MAX_PROCESSES
      /\ current_proc \in Pid /\ 0 < process_count /\ process_count < process_count'
      /\ process_count # current_proc
  BY <1>1, BoundTypes DEF CpuTypes, Users, ExecImage, process_create_user, Pid
<1>3. AfterCall \in 0..MaxRip /\ AfterCall # 0
  BY <1>1, AfterCallType DEF ExecImage
<1> USE DEF ExecImage, BlockOnChild, process_create_user, enter_process_from_syscall,
            process_set_current
<1>4. SlotTypes'
  <2>1. Entry \in 0..MaxRip /\ Entry # 0
    BY BoundTypes DEF Entry
  <2>2. /\ state' \in [Pid -> {"UNUSED", "READY", "RUNNING", "EXITED", "BLOCKED"}]
        /\ parent_pid' \in [Pid -> Pid]
        /\ waiting_for_pid' \in [Pid -> Pid]
    BY <1>1, <1>2, <2>1 DEF SlotTypes
  <2>3. /\ user_entry' \in [Pid -> {0, Entry}]
        /\ saved_user' \in [Pid -> 0..MaxRip]
        /\ wait_return' \in [Pid -> 0..MaxRip]
        /\ left' \in [Pid -> 0..MaxRip]
    BY <1>1, <1>2, <1>3, <2>1 DEF SlotTypes
  <2> QED BY <1>1, <2>2, <2>3 DEF SlotTypes
<1>5. CpuTypes'
  <2>1. saved_user'[process_count] \in 0..MaxRip /\ user_entry'[process_count] \in 0..MaxRip
    BY <1>2, <1>4, BoundTypes DEF SlotTypes, Pid, Entry
  <2> QED BY <1>1, <1>2, <2>1, EnterTypes, ReturnValuesHave
<1>6. WaitInv'
  <2>1. \A p \in Pid : state'[p] = IF p = process_count THEN "RUNNING"
                                   ELSE IF p = current_proc THEN "BLOCKED" ELSE state[p]
    BY <1>1, <1>2 DEF SlotTypes
  <2>2. \A p \in Pid : parent_pid'[p] =
                         IF p = process_count THEN current_proc ELSE parent_pid[p]
    BY <1>1, <1>2, BoundTypes DEF SlotTypes, Entry
  <2>3. \A p \in Pid : waiting_for_pid'[p] =
                         IF p = current_proc THEN process_count ELSE waiting_for_pid[p]
    BY <1>1, <1>2 DEF SlotTypes
  <2>4. \A p \in Pid : wait_return'[p] = IF p = current_proc THEN AfterCall ELSE wait_return[p]
    BY <1>1, <1>2 DEF SlotTypes
  <2>5. current_proc' = process_count /\ cr3' = process_count /\ UNCHANGED mode
    OBVIOUS
  <2> QED BY <1>1, <1>2, <1>3, <2>1, <2>2, <2>3, <2>4, <2>5, ExecStep
<1> QED BY <1>1, <1>4, <1>5, <1>6, TypeSplitPrimed DEF Inv, HaltsOnlyWhenAllExited

(* ORE_SYS_WAIT *)
LEMMA WaitCallInv ==
  ASSUME Inv, NEW pid \in Pid, Wait(pid)
  PROVE  Inv'
<1>1. SlotTypes /\ CpuTypes /\ WaitInv /\ mode # "halted" /\ current_proc \in Pid
  BY TypeSplit, UsersArePids DEF Inv, Wait, InSyscall
<1>2. CASE pid >= process_count \/ pid = current_proc \/ parent_pid[pid] # current_proc
  BY <1>1, <1>2, ReturnInv, ReturnValuesHave DEF Wait
<1>3. CASE /\ ~ (pid >= process_count \/ pid = current_proc \/ parent_pid[pid] # current_proc)
           /\ state[pid] # "READY"
  <2>1. exit_code[pid] \in ReturnValues
    BY <1>1, ReturnValuesHave DEF SlotTypes
  <2> QED BY <1>1, <1>3, <2>1, ReturnInv DEF Wait
<1>4. CASE /\ ~ (pid >= process_count \/ pid = current_proc \/ parent_pid[pid] # current_proc)
           /\ state[pid] = "READY"
  <2>1. /\ UNCHANGED <<table, context, exit_code>> /\ BlockOnChild(pid) /\ InSyscall
        /\ left' = [left EXCEPT ![current_proc] = AfterCall]
    BY <1>4 DEF Wait
  <2>2. AfterCall \in 0..MaxRip /\ AfterCall # 0
    BY <1>1, <2>1, AfterCallType
  <2>3. pid # 0 /\ pid < process_count /\ pid \in Users
    <3>1. process_count \in 2..MAX_PROCESSES /\ current_proc # 0
      BY <1>1, BoundTypes DEF CpuTypes, Users, Pid
    <3>2. 0 \in Pid \ Users
      BY BoundTypes DEF Users, Pid
    <3>3. parent_pid[0] = 0
      BY <1>1, <3>2 DEF WaitInv, ParentsOlder
    <3> QED BY <1>4, <3>1, <3>3, BoundTypes DEF Users, Pid
  <2> USE DEF BlockOnChild, enter_process_from_syscall, process_set_current
  <2>4. SlotTypes'
    <3>1. state' \in [Pid -> {"UNUSED", "READY", "RUNNING", "EXITED", "BLOCKED"}]
      BY <1>1, <2>1 DEF SlotTypes
    <3>2. /\ waiting_for_pid' \in [Pid -> Pid]
          /\ wait_return' \in [Pid -> 0..MaxRip]
          /\ left' \in [Pid -> 0..MaxRip]
      BY <1>1, <2>1, <2>2 DEF SlotTypes
    <3> QED BY <1>1, <2>1, <3>1, <3>2 DEF SlotTypes, table, context
  <2>5. CpuTypes'
    <3>1. saved_user'[pid] \in 0..MaxRip /\ user_entry'[pid] \in 0..MaxRip
      <4>1. saved_user[pid] \in 0..MaxRip /\ user_entry[pid] \in {0, Entry}
        BY <1>1 DEF SlotTypes
      <4>2. saved_user' = saved_user /\ user_entry' = user_entry
        BY <2>1 DEF table, context
      <4> QED BY <4>1, <4>2, BoundTypes DEF Entry
    <3>2. process_count' \in process_count..MAX_PROCESSES /\ process_count' = process_count
      BY <1>1, <2>1, BoundTypes DEF CpuTypes, table
    <3>3. 0 < pid /\ pid < process_count'
      BY <2>3, <3>2, BoundTypes DEF Pid
    <3> QED BY <1>1, <2>1, <3>1, <3>2, <3>3, EnterTypes, ReturnValuesHave
  <2>6. WaitInv'
    <3>1. \A p \in Pid : state'[p] = IF p = pid THEN "RUNNING"
                                     ELSE IF p = current_proc THEN "BLOCKED" ELSE state[p]
      BY <1>1, <2>1 DEF SlotTypes
    <3>2. \A p \in Pid : waiting_for_pid'[p] =
                           IF p = current_proc THEN pid ELSE waiting_for_pid[p]
      BY <1>1, <2>1 DEF SlotTypes
    <3>3. \A p \in Pid : wait_return'[p] = IF p = current_proc THEN AfterCall ELSE wait_return[p]
      BY <1>1, <2>1 DEF SlotTypes
    <3>4. /\ current_proc' = pid /\ cr3' = pid /\ UNCHANGED mode
          /\ UNCHANGED <<process_count, parent_pid>>
      BY <2>1 DEF table
    <3> QED BY <1>1, <1>4, <2>2, <2>3, <3>1, <3>2, <3>3, <3>4, BlockStep
  <2>7. mode' # "halted"
    BY <1>1, <2>1
  <2> QED BY <2>4, <2>5, <2>6, <2>7, TypeSplitPrimed DEF Inv, HaltsOnlyWhenAllExited
<1> QED BY <1>2, <1>3, <1>4

(* What the scan returns, for the running process of a typed state. *)
LEMMA NextOfCurrent ==
  ASSUME CpuTypes, NEW st, NEW next, next = next_ready_process(current_proc, st)
  PROVE  /\ next # 0 => next \in Users /\ next # current_proc /\ st[next] = "READY"
         /\ next = 0 => \A p \in Users \ {current_proc} : st[p] # "READY"
  BY NextReady DEF CpuTypes

(* ORE_SYS_YIELD *)
LEMMA YieldInv ==
  ASSUME Inv, Yield
  PROVE  Inv'
<1> DEFINE next == next_ready_process(current_proc, state)
<1>1. SlotTypes /\ CpuTypes /\ WaitInv /\ mode # "halted" /\ current_proc \in Pid
  BY TypeSplit, UsersArePids DEF Inv, Yield, InSyscall
<1>2. CASE next = 0
  <2>1. ReturnToCaller(0) /\ UNCHANGED <<table, wait, context, state, exit_code, left>>
    BY <1>2 DEF Yield, context
  <2> QED BY <1>1, <2>1, ReturnInv, ReturnValuesHave
<1>3. CASE next # 0
  <2>1. /\ saved_user' = [saved_user EXCEPT ![current_proc] = AfterCall]
        /\ enter_process_from_syscall(next, [state EXCEPT ![current_proc] = "READY"])
        /\ rax' = 0 /\ UNCHANGED mode /\ InSyscall
        /\ left' = [left EXCEPT ![current_proc] = AfterCall]
        /\ UNCHANGED <<table, wait, exit_code, has_user_frame, user_frame>>
    BY <1>3 DEF Yield
  <2>2. next \in Users /\ next # current_proc /\ state[next] = "READY" /\ next \in Pid
    BY <1>1, <1>3, NextOfCurrent, UsersArePids
  <2> HIDE DEF next
  <2>3. AfterCall \in 0..MaxRip
    BY <1>1, AfterCallType
  <2> USE DEF enter_process_from_syscall, process_set_current
  <2>4. SlotTypes'
    <3>1. state' \in [Pid -> {"UNUSED", "READY", "RUNNING", "EXITED", "BLOCKED"}]
      BY <1>1, <2>1 DEF SlotTypes
    <3>2. /\ saved_user' \in [Pid -> 0..MaxRip]
          /\ left' \in [Pid -> 0..MaxRip]
      BY <1>1, <2>1, <2>3 DEF SlotTypes
    <3> QED BY <1>1, <2>1, <3>1, <3>2 DEF SlotTypes, table, wait
  <2>5. CpuTypes'
    <3>1. saved_user'[next] \in 0..MaxRip
      BY <1>1, <2>1, <2>2 DEF SlotTypes
    <3>2. user_entry'[next] \in {0, Entry}
      BY <1>1, <2>1, <2>2 DEF SlotTypes, table
    <3>3. process_count' \in process_count..MAX_PROCESSES /\ process_count' = process_count
      BY <1>1, <2>1, BoundTypes DEF CpuTypes, table
    <3>4. 0 < next /\ next < process_count' /\ user_entry'[next] \in 0..MaxRip
      BY <2>2, <3>2, <3>3, BoundTypes DEF Users, Entry
    <3> QED BY <1>1, <2>1, <2>2, <3>1, <3>3, <3>4, EnterTypes, ReturnValuesHave
  <2>6. WaitInv'
    <3>1. \A p \in Pid : state'[p] = IF p = next THEN "RUNNING"
                                     ELSE IF p = current_proc THEN "READY" ELSE state[p]
      BY <1>1, <2>1 DEF SlotTypes
    <3>2. /\ current_proc' = next /\ cr3' = next
          /\ UNCHANGED <<process_count, parent_pid, waiting_for_pid, wait_return>>
      BY <2>1 DEF table, wait
    <3> QED BY <1>1, <2>1, <2>2, <3>1, <3>2, SwitchStep
  <2>7. mode' # "halted"
    BY <1>1, <2>1
  <2> QED BY <2>4, <2>5, <2>6, <2>7, TypeSplitPrimed DEF Inv, HaltsOnlyWhenAllExited
<1> QED BY <1>2, <1>3

(* The timer interrupt in user mode *)
LEMMA TickInv ==
  ASSUME Inv, process_schedule_user_tick
  PROVE  Inv'
<1> DEFINE next  == next_ready_process(current_proc, state)
           here  == [rip |-> rip, regs |-> current_proc]
           fresh == [rip |-> IF saved_user[next] # 0 THEN saved_user[next]
                                                     ELSE user_entry[next],
                     regs |-> 0]
           frame == IF has_user_frame[next] THEN user_frame[next] ELSE fresh
<1>1. SlotTypes /\ CpuTypes /\ WaitInv /\ mode # "halted" /\ current_proc \in Pid
  BY TypeSplit, UsersArePids DEF Inv, process_schedule_user_tick
<1>2. /\ next # 0
      /\ user_frame' = [user_frame EXCEPT ![current_proc] = here, ![next] = frame]
      /\ rip' = frame.rip /\ regs' = frame.regs
      /\ has_user_frame' = [has_user_frame EXCEPT ![current_proc] = TRUE, ![next] = TRUE]
      /\ saved_user' = [saved_user EXCEPT ![current_proc] = rip]
      /\ current_proc' = next /\ cr3' = next
      /\ state' = [state EXCEPT ![current_proc] = "READY", ![next] = "RUNNING"]
      /\ left' = [left EXCEPT ![current_proc] = rip]
      /\ UNCHANGED <<table, wait, exit_code, mode, rax>>
  BY DEF process_schedule_user_tick, process_set_current
<1>3. next \in Users /\ next # current_proc /\ state[next] = "READY" /\ next \in Pid
  BY <1>1, <1>2, NextOfCurrent, UsersArePids
<1> HIDE DEF next
<1>4. here \in [rip : 0..MaxRip, regs : Pid]
  BY <1>1 DEF CpuTypes
<1>5. frame \in [rip : 0..MaxRip, regs : Pid]
  <2>1. fresh \in [rip : 0..MaxRip, regs : Pid]
    <3>1. saved_user[next] \in 0..MaxRip /\ user_entry[next] \in {0, Entry}
      BY <1>1, <1>3 DEF SlotTypes
    <3> QED BY <3>1, BoundTypes DEF Entry, Pid
  <2> QED BY <1>1, <1>3, <2>1 DEF SlotTypes
<1> HIDE DEF here, frame
<1>6. SlotTypes'
  <2>1. state' \in [Pid -> {"UNUSED", "READY", "RUNNING", "EXITED", "BLOCKED"}]
    BY <1>1, <1>2 DEF SlotTypes
  <2>2. saved_user' \in [Pid -> 0..MaxRip] /\ left' \in [Pid -> 0..MaxRip]
    BY <1>1, <1>2 DEF SlotTypes, CpuTypes
  <2>3. has_user_frame' \in [Pid -> BOOLEAN]
    BY <1>1, <1>2 DEF SlotTypes
  <2>4. user_frame' \in [Pid -> [rip : 0..MaxRip, regs : Pid]]
    BY <1>1, <1>2, <1>4, <1>5 DEF SlotTypes
  <2> QED BY <1>1, <1>2, <2>1, <2>2, <2>3, <2>4 DEF SlotTypes, table, wait
<1>7. CpuTypes'
  <2>1. rip' \in 0..MaxRip /\ regs' \in Pid
    BY <1>2, <1>5
  <2> QED BY <1>1, <1>2, <1>3, <2>1 DEF CpuTypes, Users, table, ReturnValues, Pid
<1>8. WaitInv'
  <2>1. \A p \in Pid : state'[p] = IF p = next THEN "RUNNING"
                                   ELSE IF p = current_proc THEN "READY" ELSE state[p]
    BY <1>1, <1>2 DEF SlotTypes
  <2>2. UNCHANGED <<process_count, parent_pid, waiting_for_pid, wait_return>> /\ UNCHANGED mode
    BY <1>2 DEF table, wait
  <2> QED BY <1>1, <1>2, <1>3, <2>1, <2>2, SwitchStep
<1> QED BY <1>1, <1>2, <1>6, <1>7, <1>8, TypeSplitPrimed DEF Inv, HaltsOnlyWhenAllExited

(* ORE_SYS_EXIT *)
LEMMA ExitInv ==
  ASSUME Inv, NEW code \in Codes, Exit(code)
  PROVE  Inv'
<1> DEFINE par == parent_pid[current_proc]
           st  == [state EXCEPT ![current_proc] = "EXITED"]
<1>1. /\ SlotTypes /\ CpuTypes /\ WaitInv /\ mode # "halted"
      /\ current_proc \in Pid /\ Users \subseteq Pid
  BY TypeSplit, UsersArePids DEF Inv, Exit, InSyscall
<1>2. /\ exit_code' = [exit_code EXCEPT ![current_proc] = code]
      /\ saved_user' = [saved_user EXCEPT ![current_proc] = 0]
      /\ UNCHANGED <<table, has_user_frame, user_frame, left>>
      /\ UNCHANGED <<process_count, parent_pid, user_entry>>
  BY DEF Exit, table
<1>3. /\ exit_code' \in [Pid -> Codes]
      /\ saved_user' \in [Pid -> 0..MaxRip]
  BY <1>1, <1>2, BoundTypes DEF SlotTypes
<1>4. process_count' \in process_count..MAX_PROCESSES
  BY <1>1, <1>2, BoundTypes DEF CpuTypes
<1>5. par \in Pid
  BY <1>1 DEF SlotTypes
<1>6. CASE par # 0 /\ wait_return[par] # 0
  <2>1. ExitToParent(par, code, st)
    BY <1>6 DEF Exit
  <2> HIDE DEF par
  <2>2. /\ state' \in [Pid -> {"UNUSED", "READY", "RUNNING", "EXITED", "BLOCKED"}]
        /\ waiting_for_pid' \in [Pid -> Pid]
        /\ wait_return' \in [Pid -> 0..MaxRip]
    <3>1. 0 \in Pid /\ 0 \in 0..MaxRip
      BY BoundTypes DEF Pid
    <3>2. state' \in [Pid -> {"UNUSED", "READY", "RUNNING", "EXITED", "BLOCKED"}]
      BY <1>1, <2>1 DEF SlotTypes, ExitToParent, process_set_current
    <3>3. waiting_for_pid' \in [Pid -> Pid] /\ wait_return' \in [Pid -> 0..MaxRip]
      BY <1>1, <2>1, <3>1 DEF SlotTypes, ExitToParent
    <3> QED BY <3>2, <3>3
  <2>3. SlotTypes'
    BY <1>1, <1>2, <1>3, <2>2 DEF SlotTypes
  <2>4. WaitInv'
    <3>1. \A p \in Pid : state'[p] = IF p = par THEN "RUNNING"
                                     ELSE IF p = current_proc THEN "EXITED" ELSE state[p]
      BY <1>1, <2>1 DEF SlotTypes, ExitToParent, process_set_current
    <3>2. \A p \in Pid : waiting_for_pid'[p] = IF p = par THEN 0 ELSE waiting_for_pid[p]
      BY <1>1, <2>1 DEF SlotTypes, ExitToParent
    <3>3. \A p \in Pid : wait_return'[p] = IF p = par THEN 0 ELSE wait_return[p]
      BY <1>1, <2>1 DEF SlotTypes, ExitToParent
    <3>4. current_proc' = par /\ cr3' = par /\ UNCHANGED mode
      BY <2>1 DEF ExitToParent, process_set_current
    <3>5. par = parent_pid[current_proc]
      BY DEF par
    <3> QED BY <1>1, <1>2, <1>6, <3>1, <3>2, <3>3, <3>4, <3>5, ExitToParentStep
  <2>5. CpuTypes'
    <3>1. rip' \in 0..MaxRip /\ regs' \in Pid /\ rax' \in ReturnValues
      BY <1>1, <1>5, <2>1, ReturnValuesHave DEF ExitToParent, SlotTypes
    <3>2. current_proc' = par /\ cr3' = par /\ mode' = mode
      BY <2>1 DEF ExitToParent, process_set_current
    <3>3. par \in Users
      <4>1. par < current_proc
        BY <1>1 DEF WaitInv, ParentsOlder, CpuTypes, par
      <4> QED BY <1>1, <1>5, <1>6, <4>1, BoundTypes DEF CpuTypes, Users, Pid
    <3> QED BY <1>1, <1>2, <3>1, <3>2, <3>3 DEF CpuTypes, Users, ReturnValues, Pid
  <2>6. mode' # "halted"
    BY <1>1, <2>1 DEF ExitToParent
  <2> QED BY <2>3, <2>4, <2>5, <2>6, TypeSplitPrimed DEF Inv, HaltsOnlyWhenAllExited
<1>7. CASE par = 0 \/ wait_return[par] = 0
  <2> DEFINE next == next_ready_process(current_proc, st)
  <2>1. /\ \A p \in Users : state[p] = "BLOCKED" => waiting_for_pid[p] # current_proc
        /\ par # 0 => state[par] # "BLOCKED"
    BY <1>1, <1>7, NobodyWaits
  <2>2. ~ (par # 0 /\ st[par] = "BLOCKED" /\ waiting_for_pid[par] = current_proc)
    BY <1>1, <1>5, <2>1 DEF SlotTypes
  <2>3. /\ UNCHANGED <<waiting_for_pid, wait_return>>
        /\ \/ /\ next # 0
              /\ enter_process_from_syscall(next, st)
              /\ rax' = 0
              /\ UNCHANGED mode
           \/ /\ next = 0
              /\ mode' = "halted"
              /\ state' = st
              /\ UNCHANGED <<current_proc, cr3, rip, regs, rax>>
    <3>1. ExitToNext(par, st)
      BY <1>7 DEF Exit
    <3> HIDE DEF st, par
    <3> QED BY <2>2, <3>1 DEF ExitToNext
  <2>4. \A p \in Pid : st[p] = IF p = current_proc THEN "EXITED" ELSE state[p]
    BY <1>1 DEF SlotTypes
  <2>5. st \in [Pid -> {"UNUSED", "READY", "RUNNING", "EXITED", "BLOCKED"}]
    BY <1>1 DEF SlotTypes
  <2>6. CASE next # 0
    <3>1. next \in Users /\ next # current_proc /\ st[next] = "READY" /\ next \in Pid
      <4> HIDE DEF st
      <4> QED BY <1>1, <2>6, NextOfCurrent
    <3>2. state[next] = "READY"
      <4> HIDE DEF st, next
      <4> QED BY <2>4, <3>1
    <3> HIDE DEF next, st
    <3>3. state' \in [Pid -> {"UNUSED", "READY", "RUNNING", "EXITED", "BLOCKED"}]
      BY <2>3, <2>5, <2>6 DEF enter_process_from_syscall, process_set_current
    <3>4. SlotTypes'
      BY <1>1, <1>2, <1>3, <2>3, <3>3 DEF SlotTypes
    <3>5. CpuTypes'
      <4>1. saved_user'[next] \in 0..MaxRip /\ user_entry'[next] \in {0, Entry}
        BY <1>1, <1>2, <1>3, <3>1 DEF SlotTypes
      <4>2. user_entry'[next] \in 0..MaxRip /\ 0 < next /\ next < process_count'
        BY <1>2, <3>1, <4>1, BoundTypes DEF Users, Entry
      <4> QED BY <1>1, <1>4, <2>3, <2>6, <3>1, <4>1, <4>2, EnterTypes, ReturnValuesHave
    <3>6. WaitInv'
      <4>1. \A p \in Pid : state'[p] = IF p = next THEN "RUNNING"
                                       ELSE IF p = current_proc THEN "EXITED" ELSE state[p]
        BY <2>3, <2>4, <2>5, <2>6 DEF enter_process_from_syscall, process_set_current
      <4>2. current_proc' = next /\ cr3' = next /\ UNCHANGED mode
        BY <2>3, <2>6 DEF enter_process_from_syscall, process_set_current
      <4> QED BY <1>1, <1>2, <2>1, <2>3, <3>1, <3>2, <4>1, <4>2, ExitToNextStep
    <3>7. mode' # "halted"
      BY <1>1, <2>3, <2>6
    <3> QED BY <3>4, <3>5, <3>6, <3>7, TypeSplitPrimed DEF Inv, HaltsOnlyWhenAllExited
  <2>7. CASE next = 0
    <3>1. \A p \in Users \ {current_proc} : st[p] # "READY"
      <4> HIDE DEF st
      <4> QED BY <1>1, <2>7, NextOfCurrent
    <3>2. \A p \in Users \ {current_proc} : state[p] # "READY"
      <4> HIDE DEF st, next
      <4> QED BY <1>1, <2>4, <3>1
    <3> HIDE DEF next, st
    <3>3. SlotTypes'
      BY <1>1, <1>2, <1>3, <2>3, <2>5, <2>7 DEF SlotTypes
    <3>4. CpuTypes'
      BY <1>1, <1>2, <2>3, <2>7 DEF CpuTypes, Users, ReturnValues, Pid
    <3>5. WaitInv' /\ HaltsOnlyWhenAllExited'
      BY <1>1, <1>2, <2>1, <2>3, <2>4, <2>7, <3>2, ExitHaltStep
    <3> QED BY <3>3, <3>4, <3>5, TypeSplitPrimed DEF Inv
  <2> QED BY <2>6, <2>7
<1> QED BY <1>6, <1>7

-----------------------------------------------------------------------------
(* Every step keeps the invariant. *)
LEMMA NextInv ==
  ASSUME Inv, [Next]_vars
  PROVE  Inv'
<1>1. CASE \E image \in {0, Entry} : Spawn(image)
  BY <1>1, SpawnInv
<1>2. CASE CreateRefused
  BY <1>2, ReturnInv, ReturnValuesHave DEF CreateRefused, InSyscall
<1>3. CASE ExecImage
  BY <1>3, ExecImageInv
<1>4. CASE \E pid \in Pid : Wait(pid)
  BY <1>4, WaitCallInv
<1>5. CASE \E code \in Codes : Exit(code)
  BY <1>5, ExitInv
<1>6. CASE Yield
  BY <1>6, YieldInv
<1>7. CASE GetPid
  <2>1. current_proc \in ReturnValues
    BY TypeSplit, UsersArePids, ReturnValuesHave DEF Inv
  <2> QED BY <1>7, <2>1, ReturnInv DEF GetPid, InSyscall
<1>8. CASE BeginKernelWait
  BY <1>8, ModeInv DEF BeginKernelWait, InSyscall
<1>9. CASE SleepOver
  BY <1>9, ReturnInv, ReturnValuesHave DEF SleepOver, EndKernelWait
<1>10. CASE KeyArrives
  BY <1>10, ReturnInv, ReturnValuesHave DEF KeyArrives, EndKernelWait
<1>11. CASE process_schedule_user_tick
  BY <1>11, TickInv
<1>12. CASE UserFault
  BY <1>12, ModeInv DEF UserFault
<1>13. CASE UNCHANGED vars
  <2>1. SlotTypes /\ CpuTypes /\ WaitInv
    BY TypeSplit DEF Inv
  <2>2. SlotTypes'
    BY <1>13, <2>1 DEF vars, table, wait, context, machine, SlotTypes
  <2>3. CpuTypes' /\ Users' = Users
    BY <1>13, <2>1 DEF vars, table, machine, CpuTypes, Users, ReturnValues, Pid
  <2>4. OneRunning' /\ ParentsOlder'
    BY <1>13, <2>1, <2>3 DEF vars, table, wait, machine, WaitInv, OneRunning, ParentsOlder
  <2>5. WaitConsistent' /\ NoLostWakeup'
    BY <1>13, <2>1, <2>3 DEF vars, table, wait, WaitInv, WaitConsistent, NoLostWakeup
  <2>6. HaltsOnlyWhenAllExited'
    BY <1>13, <2>3 DEF vars, machine, Inv, HaltsOnlyWhenAllExited
  <2> QED BY <2>2, <2>3, <2>4, <2>5, <2>6, TypeSplitPrimed DEF Inv, WaitInv
<1> QED
  BY <1>1, <1>2, <1>3, <1>4, <1>5, <1>6, <1>7, <1>8, <1>9, <1>10, <1>11, <1>12, <1>13
     DEF Next

(* The inductive invariant holds throughout. *)
LEMMA InvHolds == Spec => []Inv
<1>1. Inv /\ [Next]_vars => Inv'
  BY NextInv
<1> QED BY <1>1, InitInv, PTL DEF Spec

(* Type correctness of the process table and of CPU 0. *)
THEOREM TypeCorrect == Spec => []TypeOK
<1>1. Inv => TypeOK
  BY DEF Inv
<1> QED BY <1>1, InvHolds, PTL

(* At any time one process runs, in its own address space, however many    *)
(* processes there are and however they are switched.                      *)
THEOREM OneRunningAlways == Spec => []OneRunning
<1>1. Inv => OneRunning
  BY DEF Inv, WaitInv
<1> QED BY <1>1, InvHolds, PTL

(* A blocked parent is found by exit, and that exit is still to come. *)
THEOREM WaitersAreWokenAlways == Spec => []WaitersAreWoken
<1>1. Inv => WaitersAreWoken
  BY DEF Inv, WaitInv, WaitersAreWoken
<1> QED BY <1>1, InvHolds, PTL

(* The kernel halts only when every process has exited. *)
THEOREM HaltsOnlyWhenAllExitedAlways == Spec => []HaltsOnlyWhenAllExited
<1>1. Inv => HaltsOnlyWhenAllExited
  BY DEF Inv
<1> QED BY <1>1, InvHolds, PTL

-----------------------------------------------------------------------------
(* Where a process is stored. *)

Stored(p) ==
  /\ state[p] = "READY" =>
       left[p] = IF saved_user[p] # 0 THEN saved_user[p] ELSE user_entry[p]
  /\ state[p] = "BLOCKED" => left[p] = wait_return[p]

(* Address 0 is met only by a process whose image was not loaded; a tick   *)
(* that stores it must not turn it into the entry of an image.             *)
ZeroInv ==
  /\ rip = 0 => user_entry[current_proc] = 0
  /\ \A p \in Users : has_user_frame[p] /\ user_frame[p].rip = 0 => user_entry[p] = 0
  /\ \A p \in Pid \ Users : ~has_user_frame[p]

(* At most one slot is taken by a step. *)
LEMMA NextCount ==
  ASSUME Inv, [Next]_vars
  PROVE  /\ process_count' \in {process_count, process_count + 1}
         /\ \A p \in Users' : p \in Pid /\ (p \in Users \/ p = process_count)
<1>1. process_count' \in {process_count, process_count + 1}
  BY DEF Next, Spawn, CreateRefused, ExecImage, Wait, Exit, Yield, GetPid, BeginKernelWait, SleepOver,
         KeyArrives, EndKernelWait, process_schedule_user_tick, UserFault, vars, table, process_create_user
<1>2. process_count \in 2..MAX_PROCESSES
  BY DEF Inv, TypeOK
<1> QED BY <1>1, <1>2, BoundTypes DEF Users, Pid

(* Every step keeps it. *)
LEMMA ZeroStep ==
  ASSUME Inv, ZeroInv, [Next]_vars PROVE ZeroInv'
<1>1. SlotTypes /\ CpuTypes /\ WaitInv /\ Users \subseteq Pid /\ current_proc \in Users
  BY TypeSplit, UsersArePids DEF Inv, CpuTypes
<1>2. /\ DOMAIN user_entry = Pid /\ DOMAIN has_user_frame = Pid /\ DOMAIN user_frame = Pid
      /\ DOMAIN saved_user = Pid /\ process_count \notin Users /\ current_proc # process_count
  BY <1>1, BoundTypes DEF SlotTypes, CpuTypes, Users, Pid
<1>3. AfterCall # 0
  BY <1>1, BoundTypes, ProcessAssumption DEF AfterCall, CpuTypes
<1>4. /\ Users \subseteq Users'
      /\ \A p \in Users' : p \in Pid /\ (p \in Users \/ p = process_count)
  BY <1>1, NextCount, BoundTypes DEF CpuTypes, Users, Pid
<1>5. ASSUME UNCHANGED <<has_user_frame, user_frame>>,
             \A p \in Users : user_entry'[p] = user_entry[p],
             rip' = 0 => user_entry'[current_proc'] = 0
      PROVE  ZeroInv'
  <2>1. \A p \in Users' : has_user_frame'[p] /\ user_frame'[p].rip = 0 => user_entry'[p] = 0
    BY <1>2, <1>4, <1>5 DEF ZeroInv
  <2>2. \A p \in Pid : p \notin Users' => ~has_user_frame'[p]
    BY <1>4, <1>5 DEF ZeroInv
  <2> QED BY <1>5, <2>1, <2>2 DEF ZeroInv, Pid
<1>6. CASE rip' = AfterCall /\ UNCHANGED <<has_user_frame, user_frame>>
           /\ \A p \in Users : user_entry'[p] = user_entry[p]
  BY <1>3, <1>5, <1>6
<1>7. CASE UNCHANGED <<has_user_frame, user_frame, user_entry, rip, current_proc>>
  BY <1>5, <1>7 DEF ZeroInv
<1>8. CASE (\E image \in {0, Entry} : Spawn(image)) \/ CreateRefused \/ GetPid \/ SleepOver \/ KeyArrives
  <2>1. rip' = AfterCall /\ UNCHANGED <<has_user_frame, user_frame>>
    BY <1>8 DEF Spawn, process_create_user, CreateRefused, GetPid, SleepOver, KeyArrives,
                EndKernelWait, ReturnToCaller, context
  <2>2. user_entry' = user_entry \/ \E i : user_entry' = [user_entry EXCEPT ![process_count] = i]
    BY <1>8 DEF Spawn, process_create_user, CreateRefused, GetPid, SleepOver, KeyArrives,
                EndKernelWait, table
  <2>3. \A p \in Users : user_entry'[p] = user_entry[p]
    BY <1>1, <1>2, <2>2
  <2> QED BY <1>6, <2>1, <2>3
<1>9. CASE BeginKernelWait \/ UserFault \/ UNCHANGED vars
  BY <1>7, <1>9 DEF BeginKernelWait, UserFault, vars, context, table, machine
<1>10. CASE ExecImage
  <2>1. /\ UNCHANGED <<has_user_frame, user_frame>>
        /\ user_entry' = [user_entry EXCEPT ![process_count] = Entry]
        /\ saved_user' = [saved_user EXCEPT ![process_count] = Entry]
        /\ process_count < MAX_PROCESSES
        /\ rip' = IF saved_user'[process_count] # 0 THEN saved_user'[process_count]
                  ELSE user_entry'[process_count]
    BY <1>10 DEF ExecImage, process_create_user, BlockOnChild, enter_process_from_syscall
  <2>2. process_count \in Pid
    BY <1>1, <2>1, BoundTypes DEF CpuTypes, Pid
  <2>3. rip' # 0
    BY <1>2, <2>1, <2>2 DEF Entry
  <2> QED BY <1>1, <1>2, <1>5, <2>1, <2>3
<1>11. ASSUME NEW next, current_proc' = next, UNCHANGED <<has_user_frame, user_frame, user_entry>>,
              rip' = IF saved_user'[next] # 0 THEN saved_user'[next] ELSE user_entry'[next]
       PROVE  ZeroInv'
  BY <1>5, <1>11
<1>12. CASE \E pid \in Pid : Wait(pid)
  <2> PICK pid \in Pid : Wait(pid)
    BY <1>12
  <2>1. UNCHANGED <<has_user_frame, user_frame, user_entry>>
    BY DEF Wait, table, context
  <2>2. rip' = AfterCall \/ enter_process_from_syscall(pid, [state EXCEPT ![current_proc] = "BLOCKED"])
    BY DEF Wait, ReturnToCaller, BlockOnChild
  <2> QED BY <1>6, <1>11, <2>1, <2>2 DEF enter_process_from_syscall, process_set_current
<1>13. CASE \E code \in Codes : Exit(code)
  <2> PICK code \in Codes : Exit(code)
    BY <1>13
  <2> DEFINE par == parent_pid[current_proc]
             st  == [state EXCEPT ![current_proc] = "EXITED"]
  <2>1. UNCHANGED <<has_user_frame, user_frame, user_entry>>
    BY DEF Exit, table
  <2>2. CASE par # 0 /\ wait_return[par] # 0
    BY <1>5, <2>1, <2>2 DEF Exit, ExitToParent
  <2>3. CASE ~(par # 0 /\ wait_return[par] # 0)
    <3>1. ExitToNext(par, st)
      BY <2>3 DEF Exit
    <3>2. \/ \E next, s : enter_process_from_syscall(next, s)
          \/ UNCHANGED <<current_proc, rip>>
      <4> HIDE DEF par, st
      <4> QED BY <3>1 DEF ExitToNext
    <3> QED BY <1>7, <1>11, <2>1, <3>2 DEF enter_process_from_syscall, process_set_current
  <2> QED BY <2>2, <2>3
<1>14. CASE Yield
  <2>1. UNCHANGED <<has_user_frame, user_frame, user_entry>>
    BY <1>14 DEF Yield, table
  <2>2. rip' = AfterCall \/ \E next, s : enter_process_from_syscall(next, s)
    BY <1>14 DEF Yield, ReturnToCaller
  <2> QED BY <1>6, <1>11, <2>1, <2>2 DEF enter_process_from_syscall, process_set_current
<1>15. CASE process_schedule_user_tick
  <2> DEFINE next == next_ready_process(current_proc, state)
             here == [rip |-> rip, regs |-> current_proc]
             entry == IF saved_user[next] # 0 THEN saved_user[next] ELSE user_entry[next]
             frame == IF has_user_frame[next] THEN user_frame[next] ELSE [rip |-> entry, regs |-> 0]
  <2>1. /\ next # 0 /\ current_proc' = next /\ rip' = frame.rip
        /\ user_frame' = [user_frame EXCEPT ![current_proc] = here, ![next] = frame]
        /\ has_user_frame' = [has_user_frame EXCEPT ![current_proc] = TRUE, ![next] = TRUE]
        /\ UNCHANGED <<user_entry, process_count>>
    BY <1>15 DEF process_schedule_user_tick, process_set_current, table
  <2>2. next \in Users /\ next # current_proc
    BY <1>1, <2>1, NextOfCurrent
  <2>3. Users' = Users /\ Pid' = Pid
    BY <2>1 DEF Users, Pid
  <2>4. frame.rip = 0 => user_entry[next] = 0
    BY <2>2 DEF ZeroInv
  <2>5. here.rip = 0 => user_entry[current_proc] = 0
    BY DEF ZeroInv
  <2> HIDE DEF next, here, frame
  <2>6. \A p \in Users : has_user_frame'[p] /\ user_frame'[p].rip = 0 => user_entry[p] = 0
    <3> SUFFICES ASSUME NEW p \in Users, has_user_frame'[p], user_frame'[p].rip = 0
                 PROVE  user_entry[p] = 0
      OBVIOUS
    <3>1. CASE p = next
      <4>1. user_frame'[p] = frame
        BY <1>1, <1>2, <2>1, <2>2, <3>1
      <4> QED BY <2>4, <3>1, <4>1
    <3>2. CASE p = current_proc
      <4>1. user_frame'[p] = here
        BY <1>1, <1>2, <2>1, <2>2, <3>2
      <4> QED BY <2>5, <3>2, <4>1
    <3>3. CASE p # next /\ p # current_proc
      <4>1. user_frame'[p] = user_frame[p]
        BY <1>1, <1>2, <2>1, <3>3
      <4>2. has_user_frame'[p] = has_user_frame[p]
        BY <1>1, <1>2, <2>1, <3>3, Zenon
      <4> QED BY <4>1, <4>2 DEF ZeroInv
    <3> QED BY <3>1, <3>2, <3>3
  <2>7. \A p \in Pid \ Users : ~has_user_frame'[p]
    BY <1>1, <1>2, <2>1, <2>2 DEF ZeroInv
  <2>8. rip' = 0 => user_entry'[current_proc'] = 0
    BY <2>1, <2>4
  <2> QED BY <2>1, <2>3, <2>6, <2>7, <2>8, Zenon DEF ZeroInv
<1> QED BY <1>8, <1>9, <1>10, <1>12, <1>13, <1>14, <1>15 DEF Next

(* Every step stores a process that leaves the CPU where it left, and      *)
(* leaves what is stored of the others alone.                              *)
LEMMA StoredStep ==
  ASSUME Inv, ZeroInv, \A p \in Users : Stored(p), [Next]_vars
  PROVE  \A p \in Users' : Stored(p)'
<1> SUFFICES ASSUME NEW p \in Users' PROVE Stored(p)'
  OBVIOUS
<1> DEFINE Kept == /\ UNCHANGED <<saved_user[p], user_entry[p], left[p], wait_return[p]>>
                   /\ state'[p] \in {"READY", "BLOCKED"} => state'[p] = state[p]
<1>1. SlotTypes /\ CpuTypes /\ WaitInv /\ Users \subseteq Pid /\ current_proc \in Users
  BY TypeSplit, UsersArePids DEF Inv, CpuTypes
<1>2. p \in Pid /\ (p \in Users \/ p = process_count)
  BY <1>1, NextCount
<1>3. /\ DOMAIN state = Pid /\ DOMAIN left = Pid /\ DOMAIN saved_user = Pid
      /\ DOMAIN user_entry = Pid /\ DOMAIN wait_return = Pid
  BY <1>1 DEF SlotTypes
<1>4. ASSUME p \in Users, Kept PROVE Stored(p)'
  BY <1>4 DEF Stored
<1>5. current_proc # process_count /\ process_count \notin Users
  BY <1>1, BoundTypes DEF CpuTypes, Users, Pid
<1>6. InSyscall => AfterCall # 0
  BY <1>1, AfterCallType
<1>7. CASE \E image \in {0, Entry} : Spawn(image)
  <2> PICK image \in {0, Entry} : Spawn(image)
    BY <1>7
  <2>1. CASE p = process_count
    BY <1>2, <1>3, <2>1 DEF Spawn, process_create_user, Stored, Entry
  <2>2. CASE p # process_count
    BY <1>2, <1>3, <1>4, <2>2 DEF Spawn, process_create_user, wait
  <2> QED BY <2>1, <2>2
<1>8. CASE CreateRefused \/ GetPid \/ BeginKernelWait \/ SleepOver \/ KeyArrives \/ UserFault
            \/ UNCHANGED vars
  <2>1. UNCHANGED <<table, wait, context, state, left>>
    BY <1>8 DEF CreateRefused, GetPid, BeginKernelWait, SleepOver, KeyArrives, EndKernelWait,
                UserFault, vars
  <2>2. p \in Users
    BY <2>1 DEF table, Users
  <2> QED BY <1>4, <2>1, <2>2 DEF table, wait, context
<1>9. CASE ExecImage
  <2>1. /\ state' = [[state EXCEPT ![current_proc] = "BLOCKED"] EXCEPT ![process_count] = "RUNNING"]
        /\ wait_return' = [wait_return EXCEPT ![current_proc] = AfterCall]
        /\ left' = [left EXCEPT ![process_count] = Entry, ![current_proc] = AfterCall]
        /\ saved_user' = [saved_user EXCEPT ![process_count] = Entry]
        /\ user_entry' = [user_entry EXCEPT ![process_count] = Entry]
    BY <1>9 DEF ExecImage, process_create_user, BlockOnChild, enter_process_from_syscall,
                process_set_current
  <2>2. CASE p = process_count
    BY <1>2, <1>3, <1>5, <2>1, <2>2 DEF Stored
  <2>3. CASE p = current_proc
    BY <1>1, <1>2, <1>3, <1>5, <2>1, <2>3 DEF Stored
  <2>4. CASE p \notin {process_count, current_proc}
    BY <1>2, <1>3, <1>4, <2>1, <2>4
  <2> QED BY <2>2, <2>3, <2>4
<1>10. CASE \E pid \in Pid : Wait(pid)
  <2> PICK pid \in Pid : Wait(pid)
    BY <1>10
  <2>1. p \in Users /\ UNCHANGED <<user_entry, saved_user>>
    BY DEF Wait, table, context, Users
  <2>2. CASE UNCHANGED <<wait, state, left>>
    BY <1>4, <2>1, <2>2 DEF wait
  <2>3. CASE pid # current_proc /\ BlockOnChild(pid) /\ left' = [left EXCEPT ![current_proc] = AfterCall]
    <3>1. /\ state' = [[state EXCEPT ![current_proc] = "BLOCKED"] EXCEPT ![pid] = "RUNNING"]
          /\ wait_return' = [wait_return EXCEPT ![current_proc] = AfterCall]
      BY <2>3 DEF BlockOnChild, enter_process_from_syscall, process_set_current
    <3>2. CASE p = current_proc
      BY <1>1, <1>2, <1>3, <2>3, <3>1, <3>2 DEF Stored
    <3>3. CASE p # current_proc
      BY <1>2, <1>3, <1>4, <2>1, <2>3, <3>1, <3>3
    <3> QED BY <3>2, <3>3
  <2> QED BY <2>2, <2>3 DEF Wait
<1>11. CASE \E code \in Codes : Exit(code)
  <2> PICK code \in Codes : Exit(code)
    BY <1>11
  <2> DEFINE par == parent_pid[current_proc]
             st  == [state EXCEPT ![current_proc] = "EXITED"]
  <2>1. /\ p \in Users /\ UNCHANGED <<user_entry, left>>
        /\ saved_user' = [saved_user EXCEPT ![current_proc] = 0]
    BY DEF Exit, table, Users
  <2>2. DOMAIN st = Pid /\ st[current_proc] = "EXITED"
    BY <1>1, <1>3
  <2>3. p # current_proc => st[p] = state[p] /\ saved_user'[p] = saved_user[p]
    BY <1>2, <1>3, <2>1
  <2>4. CASE par # 0 /\ wait_return[par] # 0
    <3>1. /\ state' = [st EXCEPT ![par] = "RUNNING"]
          /\ wait_return' = [wait_return EXCEPT ![par] = 0]
      BY <2>4 DEF Exit, ExitToParent, process_set_current
    <3>2. CASE p = current_proc \/ p = par
      <4>1. state'[p] \notin {"READY", "BLOCKED"}
        <5> HIDE DEF st, par
        <5> QED BY <1>2, <2>2, <3>1, <3>2
      <4> QED BY <4>1 DEF Stored
    <3>3. CASE p # current_proc /\ p # par
      <4> HIDE DEF st, par
      <4> QED BY <1>2, <1>3, <1>4, <2>1, <2>2, <2>3, <3>1, <3>3
    <3> QED BY <3>2, <3>3
  <2>5. CASE par = 0 \/ wait_return[par] = 0
    <3> DEFINE next == next_ready_process(current_proc, st)
    <3>1. ~ (par # 0 /\ st[par] = "BLOCKED" /\ waiting_for_pid[par] = current_proc)
      <4>1. par # 0 => state[par] # "BLOCKED"
        BY <1>1, <2>5, NobodyWaits
      <4>2. par \in Pid
        BY <1>1 DEF SlotTypes, CpuTypes
      <4> QED BY <1>3, <4>1, <4>2
    <3>2. ExitToNext(par, st)
      BY <2>5 DEF Exit
    <3>3. state' = [st EXCEPT ![next] = "RUNNING"] \/ state' = st
      <4> HIDE DEF st, par
      <4> QED BY <3>1, <3>2 DEF ExitToNext, enter_process_from_syscall, process_set_current
    <3>4. UNCHANGED wait_return
      <4> HIDE DEF st, par
      <4> QED BY <3>2 DEF ExitToNext
    <3>5. CASE p = current_proc
      <4>1. state'[p] \notin {"READY", "BLOCKED"}
        <5> HIDE DEF st, next
        <5> QED BY <1>2, <2>2, <3>3, <3>5
      <4> QED BY <4>1 DEF Stored
    <3>6. CASE p # current_proc
      <4> HIDE DEF st, next
      <4> QED BY <1>2, <1>4, <2>1, <2>2, <2>3, <3>3, <3>4, <3>6
    <3> QED BY <3>5, <3>6
  <2> QED BY <2>4, <2>5
<1>12. CASE Yield \/ process_schedule_user_tick
  <2> DEFINE next == next_ready_process(current_proc, state)
  <2>1. p \in Users /\ UNCHANGED <<user_entry, wait_return>>
    BY <1>12 DEF Yield, process_schedule_user_tick, table, wait, Users
  <2>2. CASE UNCHANGED <<saved_user, state, left>>
    BY <1>4, <2>1, <2>2
  <2>3. ASSUME NEW at, at = 0 => user_entry[current_proc] = 0,
               next # 0, next # current_proc, next \in Pid,
               saved_user' = [saved_user EXCEPT ![current_proc] = at],
               left' = [left EXCEPT ![current_proc] = at],
               state' = [[state EXCEPT ![current_proc] = "READY"] EXCEPT ![next] = "RUNNING"]
        PROVE  Stored(p)'
    <3> HIDE DEF next
    <3>1. CASE p = current_proc
      BY <1>2, <1>3, <2>1, <2>3, <3>1 DEF Stored
    <3>2. CASE p # current_proc
      BY <1>2, <1>3, <1>4, <2>1, <2>3, <3>2
    <3> QED BY <3>1, <3>2
  <2>4. next # 0 => next # current_proc /\ next \in Pid
    BY <1>1, NextOfCurrent
  <2>5. CASE Yield
    BY <1>6, <2>2, <2>3, <2>4, <2>5
       DEF Yield, enter_process_from_syscall, process_set_current
  <2>6. CASE process_schedule_user_tick
    <3>1. /\ next # 0
          /\ saved_user' = [saved_user EXCEPT ![current_proc] = rip]
          /\ left' = [left EXCEPT ![current_proc] = rip]
          /\ state' = [[state EXCEPT ![current_proc] = "READY"] EXCEPT ![next] = "RUNNING"]
      BY <2>6 DEF process_schedule_user_tick, process_set_current
    <3>2. rip = 0 => user_entry[current_proc] = 0
      BY DEF ZeroInv
    <3> HIDE DEF next
    <3> QED BY <2>3, <2>4, <3>1, <3>2, Zenon
  <2> QED BY <1>12, <2>5, <2>6
<1> QED BY <1>7, <1>8, <1>9, <1>10, <1>11, <1>12 DEF Next

(* What is stored of a process that is off the CPU is where it left. *)
THEOREM SavedWhereItLeftAlways == Spec => []SavedWhereItLeft
<1> DEFINE All == \A p \in Users : Stored(p)
<1>1. Init => ZeroInv /\ All
  <2> SUFFICES ASSUME Init PROVE ZeroInv /\ All
    OBVIOUS
  <2>1. Users = {1} /\ 1 \in Pid
    BY BoundTypes, ProcessAssumption DEF Init, Users, Pid
  <2> QED BY <2>1 DEF Init, ZeroInv, Stored, Entry
<1>2. Inv /\ ZeroInv /\ All /\ [Next]_vars => ZeroInv' /\ All'
  BY ZeroStep, StoredStep
<1>3. All => SavedWhereItLeft
  BY DEF Stored, SavedWhereItLeft
<1> HIDE DEF All
<1> QED BY <1>1, <1>2, <1>3, InvHolds, PTL DEF Spec

-----------------------------------------------------------------------------
(* An exited process stays exited with its code: yield and the tick enter  *)
(* READY processes, exit enters a BLOCKED parent, wait a READY child and   *)
(* exec a slot that was not in use.                                        *)
LEMMA ExitIsFinalStep ==
  ASSUME Inv, [Next]_vars, NEW p \in Users, state[p] = "EXITED"
  PROVE  state'[p] = "EXITED" /\ exit_code'[p] = exit_code[p]
<1>1. /\ SlotTypes /\ CpuTypes /\ WaitInv /\ Users \subseteq Pid
  BY TypeSplit, UsersArePids DEF Inv
<1>2. p \in Pid /\ p # process_count
  BY <1>1, BoundTypes DEF CpuTypes, Users, Pid
<1>3. mode # "halted" => p # current_proc
  BY <1>1 DEF WaitInv, OneRunning
<1>4. DOMAIN state = Pid /\ DOMAIN exit_code = Pid
  BY <1>1 DEF SlotTypes
<1>5. CASE \E image \in {0, Entry} : Spawn(image)
  BY <1>2, <1>4, <1>5 DEF Spawn, process_create_user
<1>6. CASE CreateRefused \/ GetPid
  BY <1>6 DEF CreateRefused, GetPid
<1>7. CASE ExecImage
  BY <1>2, <1>3, <1>4, <1>7
     DEF ExecImage, InSyscall, process_create_user, BlockOnChild,
         enter_process_from_syscall, process_set_current
<1>8. CASE \E pid \in Pid : Wait(pid)
  <2> PICK pid \in Pid : Wait(pid)
    BY <1>8
  <2>1. CASE state' = state
    BY <2>1 DEF Wait
  <2>2. CASE state[pid] = "READY" /\ BlockOnChild(pid)
    BY <1>2, <1>3, <1>4, <2>2
       DEF Wait, InSyscall, BlockOnChild, enter_process_from_syscall, process_set_current
  <2> QED BY <2>1, <2>2 DEF Wait
<1>9. CASE \E code \in Codes : Exit(code)
  <2> PICK code \in Codes : Exit(code)
    BY <1>9
  <2> DEFINE par == parent_pid[current_proc]
             st  == [state EXCEPT ![current_proc] = "EXITED"]
  <2>1. p # current_proc /\ exit_code'[p] = exit_code[p]
    BY <1>2, <1>3, <1>4 DEF Exit, InSyscall
  <2>2. st[p] = "EXITED" /\ DOMAIN st = Pid
    BY <1>2, <1>4
  <2>3. CASE par # 0 /\ wait_return[par] # 0
    <3>1. par \in Users
      <4>1. par \in Pid /\ par < current_proc
        BY <1>1 DEF WaitInv, ParentsOlder, CpuTypes, SlotTypes
      <4> QED BY <1>1, <2>3, <4>1, BoundTypes DEF CpuTypes, Users, Pid
    <3>2. state[par] = "BLOCKED"
      BY <1>1, <2>3, <3>1 DEF WaitInv, WaitConsistent
    <3>3. ExitToParent(par, code, st)
      BY <2>3 DEF Exit
    <3>4. par # p
      BY <3>2
    <3> HIDE DEF par, st
    <3> QED BY <1>2, <2>1, <2>2, <3>3, <3>4 DEF ExitToParent, process_set_current
  <2>4. CASE par = 0 \/ wait_return[par] = 0
    <3> DEFINE next == next_ready_process(current_proc, st)
    <3>1. ~ (par # 0 /\ st[par] = "BLOCKED" /\ waiting_for_pid[par] = current_proc)
      <4>1. par # 0 => state[par] # "BLOCKED"
        BY <1>1, <2>4, NobodyWaits
      <4>2. par \in Pid
        BY <1>1 DEF SlotTypes, CpuTypes
      <4> QED BY <1>4, <4>1, <4>2
    <3>2. ExitToNext(par, st)
      BY <2>4 DEF Exit
    <3>3. next # 0 => st[next] = "READY"
      <4> HIDE DEF st
      <4> QED BY <1>1, NextOfCurrent
    <3>4. \/ next # 0 /\ state' = [st EXCEPT ![next] = "RUNNING"]
          \/ state' = st
      <4> HIDE DEF st, par
      <4> QED BY <3>1, <3>2 DEF ExitToNext, enter_process_from_syscall, process_set_current
    <3> HIDE DEF st, next
    <3> QED BY <1>2, <2>1, <2>2, <3>3, <3>4
  <2> QED BY <2>3, <2>4
<1>10. CASE Yield \/ process_schedule_user_tick
  <2> DEFINE next == next_ready_process(current_proc, state)
  <2>1. next # 0 => state[next] = "READY"
    BY <1>1, NextOfCurrent
  <2>2. p # current_proc /\ exit_code' = exit_code
    BY <1>3, <1>10 DEF Yield, process_schedule_user_tick, InSyscall
  <2>3. \/ state' = state
        \/ /\ next # 0
           /\ state' = [state EXCEPT ![current_proc] = "READY", ![next] = "RUNNING"]
    BY <1>10 DEF Yield, process_schedule_user_tick, enter_process_from_syscall,
                 process_set_current
  <2> HIDE DEF next
  <2> QED BY <1>2, <1>4, <2>1, <2>2, <2>3
<1>11. CASE BeginKernelWait \/ SleepOver \/ KeyArrives \/ UserFault
  BY <1>11 DEF BeginKernelWait, SleepOver, KeyArrives, EndKernelWait, UserFault
<1>12. CASE UNCHANGED vars
  BY <1>12 DEF vars
<1> QED BY <1>5, <1>6, <1>7, <1>8, <1>9, <1>10, <1>11, <1>12 DEF Next

(* An exited process is never run again and its exit code is kept. *)
THEOREM ExitIsFinalAlways == Spec => ExitIsFinal
<1>1. Inv /\ [Next]_vars =>
        [\A p \in Users : state[p] = "EXITED" =>
           state'[p] = "EXITED" /\ exit_code'[p] = exit_code[p]]_vars
  BY ExitIsFinalStep
<1> QED BY <1>1, InvHolds, PTL DEF Spec, ExitIsFinal

=============================================================================
