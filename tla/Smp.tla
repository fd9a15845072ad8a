--------------------------------- MODULE Smp ---------------------------------
(***************************************************************************)
(* Starting the other CPUs: kernel/smp.c, the MADT scan of kernel/acpi.c   *)
(* and arch/x86_64/ap_trampoline.S.                                        *)
(*                                                                         *)
(* The boot CPU fills g_cpus from the MADT and then starts the others one  *)
(* at a time: it allocates a stack, writes it and the logical id into one  *)
(* configuration block that all trampolines read, sends INIT and two       *)
(* start-up IPIs and waits a bounded time for the CPU to set its online    *)
(* flag.  A CPU that answers late reads whatever the block holds by then.  *)
(*                                                                         *)
(* CR3, the entry point and the trampoline's own GDT are the same for      *)
(* every CPU and are left out.                                             *)
(***************************************************************************)
EXTENDS Naturals, Sequences, FiniteSets

CONSTANTS
    Apics,      \* the local APIC ids of the machine
    Madts,      \* the MADTs considered: sequences of [apic, enabled]
    MAX_CPUS,   \* MAX_CPUS of acpi.c and ORE_MAX_CPUS, both 64
    Stacks,     \* at most so many blocks of four pages are left
    WAIT        \* 50000000 in the code: the polls of wait_for_cpu

Front(s, n) == SubSeq(s, 1, IF Len(s) < n THEN Len(s) ELSE n)

Lapics(t) ==
    LET enabled == SelectSeq(t, LAMBDA e : e.enabled)
    IN  [k \in 1..Len(enabled) |-> enabled[k].apic]

\* parse_madt: the APIC ids of the enabled entries, up to MAX_CPUS of them.
Enabled(t) == Front(Lapics(t), MAX_CPUS)

\* Firmware lists no CPU twice; the boot CPU is one of the enabled ones.
ASSUME SmpAssumption ==
    /\ MAX_CPUS \in Nat \ {0} /\ Stacks \in Nat /\ WAIT \in Nat
    /\ \A t \in Madts :
         /\ Lapics(t) \in Seq(Apics)
         /\ \A k, l \in DOMAIN Lapics(t) : Lapics(t)[k] = Lapics(t)[l] => k = l

VARIABLES
    madt, bsp,            \* the machine: its MADT, the APIC id of the boot CPU
    g_cpus,               \* the table: [apic, online, stack], index = logical id + 1
    cfg,                  \* TRAMPOLINE_CFG_STACK and TRAMPOLINE_CFG_CPU_ID
    stacks,               \* blocks of four pages still free
    pc, i, cpu, polls,    \* smp_init: where it is, its loop index, its entry
    ap, apStack, apId,    \* each CPU: where it is, the stack and id it loaded
    gaveUp                \* history: the CPUs wait_for_cpu timed out on

boot == <<madt, bsp>>
aps == <<ap, apStack, apId>>
vars == <<boot, g_cpus, cfg, stacks, pc, i, cpu, polls, aps, gaveUp>>

cpu_apic_ids == Enabled(madt)

NoStack == 0

Init ==
    /\ madt \in Madts
    /\ bsp \in {cpu_apic_ids[k] : k \in DOMAIN cpu_apic_ids}
    /\ g_cpus = <<>>
    /\ cfg = [stack |-> NoStack, id |-> 0]
    /\ stacks \in 0..Stacks
    /\ pc = "table" /\ i = 1 /\ cpu = 1 /\ polls = 0
    /\ ap = [a \in Apics |-> IF a = bsp THEN "boot" ELSE "reset"]
    /\ apStack = [a \in Apics |-> NoStack]
    /\ apId = [a \in Apics |-> 0]
    /\ gaveUp = {}

-----------------------------------------------------------------------------
(* The boot CPU, in smp_init. *)

BuildTable ==
    /\ pc = "table"
    /\ g_cpus' = [k \in DOMAIN cpu_apic_ids |->
                    [apic |-> cpu_apic_ids[k], online |-> cpu_apic_ids[k] = bsp,
                     stack |-> NoStack]]
    /\ pc' = "loop"
    /\ UNCHANGED <<boot, cfg, stacks, i, cpu, polls, aps, gaveUp>>

NextCpu ==
    /\ pc = "loop" /\ i <= Len(cpu_apic_ids) /\ cpu_apic_ids[i] = bsp
    /\ i' = i + 1
    /\ UNCHANGED <<boot, g_cpus, cfg, stacks, pc, cpu, polls, aps, gaveUp>>

AllocStack_Shared ==
    /\ pc = "loop" /\ i <= Len(cpu_apic_ids) /\ cpu_apic_ids[i] # bsp /\ stacks > 0
    /\ cpu' = CHOOSE k \in DOMAIN g_cpus : g_cpus[k].apic = cpu_apic_ids[i]
    /\ g_cpus' = [g_cpus EXCEPT ![cpu'].stack = Stacks]
    /\ cfg' = [cfg EXCEPT !.stack = g_cpus'[cpu'].stack]
    /\ pc' = "id"
    /\ UNCHANGED <<boot, stacks, i, polls, aps, gaveUp>>

\* The CPU's entry, its stack, and the first stores into the block.  Stacks
\* are numbered by the order in which the page allocator hands them out.
AllocStack ==
    /\ pc = "loop" /\ i <= Len(cpu_apic_ids) /\ cpu_apic_ids[i] # bsp /\ stacks > 0
    /\ cpu' = CHOOSE k \in DOMAIN g_cpus : g_cpus[k].apic = cpu_apic_ids[i]
    /\ stacks' = stacks - 1
    /\ g_cpus' = [g_cpus EXCEPT ![cpu'].stack = stacks]
    /\ cfg' = [cfg EXCEPT !.stack = stacks]
    /\ pc' = "id"
    /\ UNCHANGED <<boot, i, polls, aps, gaveUp>>

\* panic("no AP stack pages")
NoStackPages ==
    /\ pc = "loop" /\ i <= Len(cpu_apic_ids) /\ cpu_apic_ids[i] # bsp /\ stacks = 0
    /\ pc' = "panic"
    /\ UNCHANGED <<boot, g_cpus, cfg, stacks, i, cpu, polls, aps, gaveUp>>

StoreCpuId ==
    /\ pc = "id"
    /\ cfg' = [cfg EXCEPT !.id = cpu - 1]
    /\ pc' = "ipi"
    /\ UNCHANGED <<boot, g_cpus, stacks, i, cpu, polls, aps, gaveUp>>

\* INIT and the two start-up IPIs with their delays.  The target starts in
\* the trampoline at some later time, or never.
SendIpis ==
    /\ pc = "ipi"
    /\ ap' = [ap EXCEPT ![g_cpus[cpu].apic] = "trampoline"]
    /\ pc' = "wait" /\ polls' = 0
    /\ UNCHANGED <<boot, g_cpus, cfg, stacks, i, cpu, apStack, apId, gaveUp>>

Poll_NoBound ==
    /\ pc = "wait" /\ ~g_cpus[cpu].online
    /\ UNCHANGED vars

Poll ==
    /\ pc = "wait" /\ ~g_cpus[cpu].online /\ polls < WAIT
    /\ polls' = polls + 1
    /\ UNCHANGED <<boot, g_cpus, cfg, stacks, pc, i, cpu, aps, gaveUp>>

CpuOnline_NotChecked ==
    /\ pc = "wait"
    /\ pc' = "loop" /\ i' = i + 1
    /\ UNCHANGED <<boot, g_cpus, cfg, stacks, cpu, polls, aps, gaveUp>>

CpuOnline ==
    /\ pc = "wait" /\ g_cpus[cpu].online
    /\ pc' = "loop" /\ i' = i + 1
    /\ UNCHANGED <<boot, g_cpus, cfg, stacks, cpu, polls, aps, gaveUp>>

\* "did not come online": the loop goes on with the next CPU.
GiveUp ==
    /\ pc = "wait" /\ ~g_cpus[cpu].online /\ polls = WAIT
    /\ gaveUp' = gaveUp \cup {g_cpus[cpu].apic}
    /\ pc' = "loop" /\ i' = i + 1
    /\ UNCHANGED <<boot, g_cpus, cfg, stacks, cpu, polls, aps>>

Finish ==
    /\ pc = "loop" /\ i > Len(cpu_apic_ids)
    /\ pc' = "booted"
    /\ UNCHANGED <<boot, g_cpus, cfg, stacks, i, cpu, polls, aps, gaveUp>>

smp_init ==
    \/ BuildTable \/ NextCpu \/ AllocStack \/ NoStackPages \/ StoreCpuId
    \/ SendIpis \/ Poll \/ CpuOnline \/ GiveUp \/ Finish

-----------------------------------------------------------------------------
(* The other CPUs: the trampoline's loads, then ap_main. *)

LoadStack(a) ==
    /\ ap[a] = "trampoline"
    /\ apStack' = [apStack EXCEPT ![a] = cfg.stack]
    /\ ap' = [ap EXCEPT ![a] = "stack"]
    /\ UNCHANGED <<boot, g_cpus, cfg, stacks, pc, i, cpu, polls, apId, gaveUp>>

LoadCpuId(a) ==
    /\ ap[a] = "stack"
    /\ apId' = [apId EXCEPT ![a] = cfg.id]
    /\ ap' = [ap EXCEPT ![a] = "main"]
    /\ UNCHANGED <<boot, g_cpus, cfg, stacks, pc, i, cpu, polls, apStack, gaveUp>>

\* ap_main up to the store of the online flag.  cpu_id < g_cpu_count always.
GoOnline(a) ==
    /\ ap[a] = "main"
    /\ g_cpus' = [g_cpus EXCEPT ![apId[a] + 1].online = TRUE]
    /\ ap' = [ap EXCEPT ![a] = "idle"]
    /\ UNCHANGED <<boot, cfg, stacks, pc, i, cpu, polls, apStack, apId, gaveUp>>

ap_main(a) == LoadStack(a) \/ LoadCpuId(a) \/ GoOnline(a)

Next == smp_init \/ \E a \in Apics : ap_main(a)

\* Only the boot CPU's progress is assumed.
Spec == Init /\ [][Next]_vars /\ WF_vars(smp_init)

-----------------------------------------------------------------------------
(* Properties. *)

\* The table keeps to its array.  As long as wait_for_cpu has given up on nobody,
\* every CPU in C code runs on the stack and under the logical id smp_init made
\* for it, and an online flag means that this very CPU reached the end of
\* ap_main's set-up.
OwnEntry ==
    /\ Len(g_cpus) <= MAX_CPUS
    /\ gaveUp = {} =>
        /\ \A a \in Apics : ap[a] \in {"main", "idle"} =>
              /\ g_cpus[apId[a] + 1].apic = a
              /\ g_cpus[apId[a] + 1].stack = apStack[a]
        /\ \A k \in DOMAIN g_cpus :
              g_cpus[k].online => ap[g_cpus[k].apic] \in {"boot", "idle"}

\* Two CPUs push onto the same stack only if one was given up on before: its
\* late trampoline reads the block already written for another CPU.
OwnStack ==
    gaveUp = {} =>
        \A a, b \in Apics :
            ap[a] \in {"stack", "main", "idle"} /\ ap[b] \in {"stack", "main", "idle"}
            /\ apStack[a] = apStack[b] => a = b

\* smp_init returns or panics, however many CPUs never answer.
BootContinues == <>(pc \in {"booted", "panic"})

=============================================================================
