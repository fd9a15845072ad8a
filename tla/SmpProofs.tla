----------------------------- MODULE SmpProofs -----------------------------
(***************************************************************************)
(* Proofs about the start of the other CPUs (Smp) for every machine, every *)
(* boot CPU, and every length of the wait.                                 *)
(***************************************************************************)
EXTENDS Smp, TLAPS

ids == cpu_apic_ids
Started == {"trampoline", "stack", "main", "idle"}
Starting == {"id", "ipi", "wait"}
Entry == [apic : Apics, online : BOOLEAN, stack : Nat]

\* The table follows the MADT; the stacks handed out are distinct and those still
\* to come have smaller numbers.
TableInv ==
    /\ madt \in Madts
    /\ stacks \in Nat /\ i \in Nat \ {0} /\ bsp \in Apics
    /\ ap \in [Apics -> {"boot", "reset"} \cup Started]
    /\ apStack \in [Apics -> Nat] /\ apId \in [Apics -> Nat]
    /\ cfg \in [stack : Nat, id : Nat]
    /\ pc = "table" => g_cpus = <<>> /\ i = 1
    /\ pc # "table" =>
        /\ g_cpus \in [DOMAIN ids -> Entry]
        /\ \A k \in DOMAIN ids : g_cpus[k].apic = ids[k]
        /\ \A k \in DOMAIN ids : g_cpus[k].stack # 0 => g_cpus[k].stack > stacks
        /\ \A k, l \in DOMAIN ids : g_cpus[k].stack = g_cpus[l].stack /\ g_cpus[k].stack # 0 => k = l
    /\ pc \in Starting => i \in DOMAIN ids /\ cpu = i /\ ids[i] # bsp /\ cfg.stack # 0
                          /\ cfg.stack = g_cpus[i].stack
    /\ pc \in {"ipi", "wait"} => cfg.id = i - 1

\* As long as nobody was given up on, the CPUs before the index of the loop are
\* up with their own entries, the one at the index is being started, and the
\* others have not been touched.
CpuOrder(k) ==
    /\ ap[ids[k]] \in Started => k < i \/ (k = i /\ pc = "wait")
    /\ k < i /\ ids[k] # bsp => ap[ids[k]] = "idle"
    /\ ap[ids[k]] \in {"stack", "main", "idle"} =>
         apStack[ids[k]] = g_cpus[k].stack /\ g_cpus[k].stack # 0
    /\ ap[ids[k]] \in {"main", "idle"} => apId[ids[k]] = k - 1
    /\ g_cpus[k].online => ap[ids[k]] \in {"boot", "idle"}

OrderInv ==
    /\ \A a \in Apics : (ap[a] = "boot") <=> (a = bsp)
    /\ \A a \in Apics : ap[a] \in Started => pc # "table" /\ \E k \in DOMAIN ids : ids[k] = a
    /\ gaveUp = {} /\ pc # "table" => \A k \in DOMAIN ids : CpuOrder(k)

\* The APIC ids of a machine: a sequence without repetition.
LEMMA IdsFacts ==
    ASSUME madt \in Madts
    PROVE  /\ DOMAIN ids = 1..Len(ids) /\ Len(ids) \in Nat /\ Len(ids) <= MAX_CPUS
           /\ \A k \in DOMAIN ids : ids[k] \in Apics
           /\ \A k, l \in DOMAIN ids : ids[k] = ids[l] => k = l
<1> DEFINE all == Lapics(madt)
           n == IF Len(all) < MAX_CPUS THEN Len(all) ELSE MAX_CPUS
<1>1. /\ all \in Seq(Apics) /\ MAX_CPUS \in Nat
      /\ \A k, l \in DOMAIN all : all[k] = all[l] => k = l
  BY SmpAssumption
<1>2. ids = SubSeq(all, 1, n)
  BY DEF ids, cpu_apic_ids, Enabled, Front
<1> HIDE DEF all
<1>3. n \in 0..Len(all) /\ n <= MAX_CPUS /\ DOMAIN all = 1..Len(all) /\ Len(all) \in Nat
  BY <1>1
<1> HIDE DEF n
<1>4. /\ Len(SubSeq(all, 1, n)) = n
      /\ DOMAIN SubSeq(all, 1, n) = 1..n
      /\ \A k \in 1..n : SubSeq(all, 1, n)[k] = all[k]
  BY <1>1, <1>3
<1>5. \A k \in 1..Len(all) : all[k] \in Apics
  BY <1>1, <1>3
<1> HIDE DEF ids
<1> QED
  BY <1>1, <1>2, <1>3, <1>4, <1>5

\* Writing one field of one entry leaves the table a table and the other fields
\* alone.
LEMMA StackStored ==
    ASSUME NEW D, NEW t \in [D -> Entry], NEW k \in D, NEW s \in Nat
    PROVE  LET u == [t EXCEPT ![k].stack = s]
           IN  /\ u \in [D -> Entry]
               /\ \A l \in D : u[l].apic = t[l].apic /\ u[l].online = t[l].online
               /\ \A l \in D : u[l].stack = IF l = k THEN s ELSE t[l].stack
<1> DEFINE u == [t EXCEPT ![k].stack = s]
<1>1. u = [l \in D |-> IF l = k THEN [t[k] EXCEPT !.stack = s] ELSE t[l]]
  OBVIOUS
<1>2. t[k] \in Entry /\ \A l \in D : t[l] \in Entry
  OBVIOUS
<1>3. [t[k] EXCEPT !.stack = s] \in Entry
      /\ [t[k] EXCEPT !.stack = s].apic = t[k].apic
      /\ [t[k] EXCEPT !.stack = s].online = t[k].online
      /\ [t[k] EXCEPT !.stack = s].stack = s
  BY <1>2 DEF Entry
<1> QED BY <1>1, <1>2, <1>3

LEMMA FlagStored ==
    ASSUME NEW D, NEW t \in [D -> Entry], NEW k
    PROVE  LET u == [t EXCEPT ![k].online = TRUE]
           IN  /\ u \in [D -> Entry]
               /\ \A l \in D : u[l].apic = t[l].apic /\ u[l].stack = t[l].stack
               /\ \A l \in D : u[l].online <=> (l = k \/ t[l].online)
<1> DEFINE u == [t EXCEPT ![k].online = TRUE]
<1>1. u = [l \in D |-> IF l = k THEN [t[k] EXCEPT !.online = TRUE] ELSE t[l]]
  OBVIOUS
<1>2. \A l \in D : t[l] \in Entry
  OBVIOUS
<1>3. ASSUME k \in D
      PROVE  /\ [t[k] EXCEPT !.online = TRUE] \in Entry
             /\ [t[k] EXCEPT !.online = TRUE].apic = t[k].apic
             /\ [t[k] EXCEPT !.online = TRUE].online
             /\ [t[k] EXCEPT !.online = TRUE].stack = t[k].stack
  BY <1>2, <1>3 DEF Entry
<1> QED BY <1>1, <1>2, <1>3

\* Every step keeps the invariant of the table.
LEMMA TableStep == TableInv /\ [Next]_vars => TableInv'
<1> SUFFICES ASSUME TableInv, [Next]_vars PROVE TableInv'
  OBVIOUS
<1>0. /\ DOMAIN ids = 1..Len(ids) /\ Len(ids) \in Nat
      /\ \A k \in DOMAIN ids : ids[k] \in Apics
      /\ \A k, l \in DOMAIN ids : ids[k] = ids[l] => k = l
  BY IdsFacts DEF TableInv
<1>a. madt' = madt /\ ids' = ids /\ bsp' = bsp /\ cpu_apic_ids = ids
  BY DEF Next, smp_init, ap_main, BuildTable, NextCpu, AllocStack, NoStackPages, StoreCpuId, SendIpis,
         Poll, CpuOnline, GiveUp, Finish, LoadStack, LoadCpuId, GoOnline, vars, boot, ids, cpu_apic_ids
<1> HIDE DEF ids
<1> USE DEF TableInv, Starting, Started, boot, aps, vars
<1>1. CASE BuildTable
  BY <1>1, <1>0, <1>a DEF BuildTable, Entry, NoStack
<1>2. CASE NextCpu \/ NoStackPages \/ Finish
  BY <1>2, <1>a DEF NextCpu, NoStackPages, Finish
<1>3. CASE AllocStack
  <2>1. i \in DOMAIN ids /\ g_cpus \in [DOMAIN ids -> Entry] /\ stacks > 0
    BY <1>3, <1>0, <1>a DEF AllocStack
  <2>2. cpu' = i
    BY <1>3, <1>0, <1>a, <2>1 DEF AllocStack
  <2>3. /\ g_cpus' \in [DOMAIN ids -> Entry]
        /\ \A k \in DOMAIN ids : g_cpus'[k].apic = g_cpus[k].apic
        /\ \A k \in DOMAIN ids : g_cpus'[k].stack = IF k = i THEN stacks ELSE g_cpus[k].stack
    <3>1. g_cpus' = [g_cpus EXCEPT ![i].stack = stacks] /\ stacks \in Nat
      BY <1>3, <2>2 DEF AllocStack
    <3> HIDE DEF TableInv
    <3> QED BY <3>1, <2>1, StackStored
  <2>4. cfg' \in [stack : Nat, id : Nat] /\ cfg'.stack = stacks
    BY <1>3 DEF AllocStack
  <2>5. \A k \in DOMAIN ids : g_cpus[k].stack \in Nat
    BY <2>1 DEF Entry
  <2>6. /\ stacks' = stacks - 1 /\ i' = i /\ pc' = "id" /\ ids[i] # bsp /\ pc = "loop"
        /\ UNCHANGED <<ap, apStack, apId>>
    BY <1>3, <1>a DEF AllocStack
  <2>7. /\ \A k \in DOMAIN ids : g_cpus'[k].stack # 0 => g_cpus'[k].stack > stacks - 1
        /\ \A k, l \in DOMAIN ids : g_cpus'[k].stack = g_cpus'[l].stack /\ g_cpus'[k].stack # 0 => k = l
    BY <2>1, <2>3, <2>5, <2>6
  <2>8. \A k \in DOMAIN ids : g_cpus'[k].apic = ids[k]
    BY <2>3, <2>6
  <2> QED BY <1>a, <2>1, <2>2, <2>3, <2>4, <2>6, <2>7, <2>8
<1>4. CASE StoreCpuId
  <2>1. cfg' \in [stack : Nat, id : Nat] /\ cfg'.stack = cfg.stack /\ cfg'.id = i - 1
    BY <1>4 DEF StoreCpuId
  <2> QED BY <1>4, <1>a, <2>1 DEF StoreCpuId
<1>5. CASE SendIpis
  BY <1>5, <1>a DEF SendIpis
<1>6. CASE Poll \/ CpuOnline \/ GiveUp
  BY <1>6, <1>a DEF Poll, CpuOnline, GiveUp
<1>7. ASSUME NEW a \in Apics, LoadStack(a) \/ LoadCpuId(a) PROVE TableInv'
  <2>1. cfg.stack \in Nat /\ cfg.id \in Nat
    OBVIOUS
  <2>2. /\ ap' \in [Apics -> {"boot", "reset"} \cup Started]
        /\ apStack' \in [Apics -> Nat] /\ apId' \in [Apics -> Nat]
    BY <1>7, <2>1 DEF LoadStack, LoadCpuId
  <2>3. UNCHANGED <<g_cpus, cfg, stacks, pc, i, cpu>>
    BY <1>7 DEF LoadStack, LoadCpuId
  <2> QED BY <1>a, <2>2, <2>3
<1>8. ASSUME NEW a \in Apics, GoOnline(a) PROVE TableInv'
  <2>1. CASE pc = "table"
    BY <1>8, <1>a, <2>1 DEF GoOnline
  <2>2. CASE pc # "table"
    <3>1. /\ g_cpus' \in [DOMAIN ids -> Entry]
          /\ \A k \in DOMAIN ids : g_cpus'[k].apic = g_cpus[k].apic /\ g_cpus'[k].stack = g_cpus[k].stack
      <4> DEFINE n == apId[a] + 1
      <4>1. g_cpus' = [g_cpus EXCEPT ![n].online = TRUE] /\ g_cpus \in [DOMAIN ids -> Entry]
        BY <1>8, <2>2 DEF GoOnline
      <4> HIDE DEF n
      <4> HIDE DEF TableInv
      <4> QED BY <4>1, FlagStored
    <3> QED BY <1>8, <1>a, <2>2, <3>1 DEF GoOnline
  <2> QED BY <2>1, <2>2
<1>9. CASE UNCHANGED vars
  BY <1>9, <1>a
<1> QED
  BY <1>1, <1>2, <1>3, <1>4, <1>5, <1>6, <1>7, <1>8, <1>9 DEF Next, smp_init, ap_main

\* The initial states satisfy both invariants.
LEMMA Initially == Init => TableInv /\ OrderInv
<1> SUFFICES ASSUME Init PROVE TableInv /\ OrderInv
  OBVIOUS
<1>1. madt \in Madts /\ bsp \in {ids[k] : k \in DOMAIN ids} /\ stacks \in 0..Stacks
  BY DEF Init, ids
<1>2. bsp \in Apics
  BY <1>1, IdsFacts
<1>3. cfg \in [stack : Nat, id : Nat] /\ stacks \in Nat
  BY <1>1, SmpAssumption DEF Init, NoStack
<1>4. TableInv
  BY <1>1, <1>2, <1>3 DEF Init, TableInv, NoStack, Started, Starting
<1>5. OrderInv
  BY <1>2 DEF Init, OrderInv, Started
<1> QED BY <1>4, <1>5

\* Every step keeps the order in which the CPUs are started.
LEMMA OrderStep == TableInv /\ OrderInv /\ [Next]_vars => OrderInv'
<1> SUFFICES ASSUME TableInv, OrderInv, [Next]_vars PROVE OrderInv'
  OBVIOUS
<1>0. /\ DOMAIN ids = 1..Len(ids) /\ Len(ids) \in Nat
      /\ \A k \in DOMAIN ids : ids[k] \in Apics
      /\ \A k, l \in DOMAIN ids : ids[k] = ids[l] => k = l
  BY IdsFacts DEF TableInv
<1>a. madt' = madt /\ ids' = ids /\ bsp' = bsp /\ cpu_apic_ids = ids
  BY DEF Next, smp_init, ap_main, BuildTable, NextCpu, AllocStack, NoStackPages, StoreCpuId, SendIpis,
         Poll, CpuOnline, GiveUp, Finish, LoadStack, LoadCpuId, GoOnline, vars, boot, ids, cpu_apic_ids
<1> HIDE DEF ids
<1>t. /\ i \in Nat \ {0} /\ ap \in [Apics -> {"boot", "reset"} \cup Started]
      /\ apStack \in [Apics -> Nat] /\ apId \in [Apics -> Nat]
      /\ pc # "table" => g_cpus \in [DOMAIN ids -> Entry]
                         /\ \A k \in DOMAIN ids : g_cpus[k].apic = ids[k]
      /\ pc \in Starting => i \in DOMAIN ids /\ cpu = i /\ ids[i] # bsp /\ cfg.stack # 0
                           /\ cfg.stack = g_cpus[i].stack
      /\ pc \in {"ipi", "wait"} => cfg.id = i - 1
  BY DEF TableInv
<1> USE DEF OrderInv, CpuOrder, Starting, Started, boot, aps, vars
<1>1. CASE BuildTable
  <2>1. \A k \in DOMAIN ids : g_cpus'[k].online => ids[k] = bsp
    BY <1>1, <1>a DEF BuildTable
  <2>2. i = 1 /\ pc = "table" /\ pc' = "loop" /\ UNCHANGED <<i, ap>>
    BY <1>1 DEF BuildTable, TableInv
  <2>3. \A a \in Apics : ap[a] \notin Started
    BY <2>2
  <2>4. \A k \in DOMAIN ids : CpuOrder(k)'
    BY <1>0, <1>a, <2>1, <2>2, <2>3
  <2> QED BY <1>a, <2>2, <2>3, <2>4
<1>2. CASE NextCpu \/ NoStackPages \/ Finish
  BY <1>0, <1>2, <1>a, <1>t DEF NextCpu, NoStackPages, Finish
<1>3. CASE AllocStack
  <2>1. i \in DOMAIN ids /\ g_cpus \in [DOMAIN ids -> Entry]
    BY <1>3, <1>0, <1>a, <1>t DEF AllocStack
  <2>2. cpu' = i
    BY <1>3, <1>0, <1>a, <1>t, <2>1 DEF AllocStack
  <2>3. g_cpus' = [g_cpus EXCEPT ![i].stack = stacks] /\ stacks \in Nat
    BY <1>3, <2>2 DEF AllocStack, TableInv
  <2>4. \A k \in DOMAIN ids : /\ g_cpus'[k].online = g_cpus[k].online
                              /\ k # i => g_cpus'[k].stack = g_cpus[k].stack
    <3> HIDE DEF OrderInv
    <3> QED BY <2>1, <2>3, StackStored
  <2>5. UNCHANGED <<ap, apStack, apId, i, gaveUp>> /\ pc = "loop" /\ pc' = "id"
    BY <1>3 DEF AllocStack
  <2>6. ASSUME gaveUp = {}, NEW k \in DOMAIN ids PROVE CpuOrder(k)'
    <3>1. CpuOrder(k) /\ (k = i => ap[ids[k]] \notin Started)
      BY <1>0, <1>t, <2>5, <2>6
    <3> HIDE DEF OrderInv
    <3> QED BY <1>a, <2>4, <2>5, <3>1
  <2> QED BY <1>a, <2>5, <2>6
<1>4. CASE StoreCpuId
  BY <1>0, <1>4, <1>a, <1>t DEF StoreCpuId
<1>5. CASE SendIpis
  <2>1. /\ i \in DOMAIN ids /\ cpu = i /\ ids[i] # bsp /\ g_cpus[i].apic = ids[i]
        /\ ap' = [ap EXCEPT ![ids[i]] = "trampoline"]
        /\ UNCHANGED <<g_cpus, i, apStack, apId, gaveUp>> /\ pc = "ipi" /\ pc' = "wait"
    BY <1>5, <1>t DEF SendIpis
  <2>2. ids[i] \in Apics /\ ap[ids[i]] # "boot"
    BY <1>0, <2>1
  <2>3. gaveUp = {} => ap[ids[i]] = "reset" /\ ~g_cpus[i].online
    BY <1>t, <2>1, <2>2
  <2>4. \A a \in Apics : ap'[a] = IF a = ids[i] THEN "trampoline" ELSE ap[a]
    BY <1>t, <2>1
  <2>5. ASSUME gaveUp = {}, NEW k \in DOMAIN ids PROVE CpuOrder(k)'
    <3>1. CpuOrder(k) /\ ids[k] \in Apics /\ (ids[k] = ids[i] => k = i)
      BY <1>0, <2>1, <2>5
    <3> HIDE DEF OrderInv
    <3> QED BY <1>0, <1>a, <1>t, <2>1, <2>3, <2>4, <2>5, <3>1
  <2>6. \A a \in Apics : (ap'[a] = "boot") <=> (a = bsp)
    BY <2>1, <2>2, <2>4
  <2>7. \A a \in Apics : ap'[a] \in Started => \E k \in DOMAIN ids : ids[k] = a
    BY <2>1, <2>4
  <2> QED BY <1>a, <2>1, <2>5, <2>6, <2>7
<1>6. CASE Poll
  BY <1>6, <1>a DEF Poll
<1>7. CASE CpuOnline
  <2>1. /\ i \in DOMAIN ids /\ cpu = i /\ ids[i] # bsp /\ g_cpus[i].online /\ i' = i + 1
        /\ UNCHANGED <<g_cpus, ap, apStack, apId, gaveUp>> /\ pc = "wait" /\ pc' = "loop"
    BY <1>7, <1>t DEF CpuOnline
  <2>2. gaveUp = {} => ap[ids[i]] = "idle"
    BY <1>0, <2>1
  <2>3. \A k \in DOMAIN ids : k < i' <=> (k < i \/ k = i)
    BY <1>0, <1>t, <2>1
  <2> QED BY <1>0, <1>a, <1>t, <2>1, <2>2, <2>3
<1>8. CASE GiveUp
  BY <1>8, <1>a DEF GiveUp
<1>9. ASSUME NEW a \in Apics, LoadStack(a) PROVE OrderInv'
  <2>1. /\ ap[a] = "trampoline"
        /\ \A b \in Apics : ap'[b] = IF b = a THEN "stack" ELSE ap[b]
        /\ \A b \in Apics : apStack'[b] = IF b = a THEN cfg.stack ELSE apStack[b]
        /\ UNCHANGED <<g_cpus, pc, i, apId, gaveUp>>
    BY <1>9, <1>t DEF LoadStack
  <2>2. ASSUME gaveUp = {}, NEW k \in DOMAIN ids, ids[k] = a PROVE k = i /\ pc = "wait"
    BY <1>0, <2>1, <2>2
  <2> QED BY <1>0, <1>a, <1>t, <2>1, <2>2
<1>10. ASSUME NEW a \in Apics, LoadCpuId(a) PROVE OrderInv'
  <2>1. /\ ap[a] = "stack"
        /\ \A b \in Apics : ap'[b] = IF b = a THEN "main" ELSE ap[b]
        /\ \A b \in Apics : apId'[b] = IF b = a THEN cfg.id ELSE apId[b]
        /\ UNCHANGED <<g_cpus, pc, i, apStack, gaveUp>>
    BY <1>10, <1>t DEF LoadCpuId
  <2>2. ASSUME gaveUp = {}, NEW k \in DOMAIN ids, ids[k] = a PROVE k = i /\ pc = "wait"
    BY <1>0, <2>1, <2>2
  <2> QED BY <1>0, <1>a, <1>t, <2>1, <2>2
<1>11. ASSUME NEW a \in Apics, GoOnline(a) PROVE OrderInv'
  <2> DEFINE n == apId[a] + 1
  <2>1. /\ ap[a] = "main" /\ pc # "table"
        /\ \A b \in Apics : ap'[b] = IF b = a THEN "idle" ELSE ap[b]
        /\ g_cpus' = [g_cpus EXCEPT ![n].online = TRUE]
        /\ UNCHANGED <<pc, i, apStack, apId, gaveUp>>
    BY <1>11, <1>t DEF GoOnline
  <2>2. ASSUME gaveUp = {}, NEW k \in DOMAIN ids, ids[k] = a PROVE n = k
    BY <1>0, <2>1, <2>2
  <2>3. \E k \in DOMAIN ids : ids[k] = a
    BY <2>1
  <2> HIDE DEF n
  <2>4. \A k \in DOMAIN ids : /\ g_cpus'[k].online <=> (k = n \/ g_cpus[k].online)
                              /\ g_cpus'[k].stack = g_cpus[k].stack
    <3> HIDE DEF OrderInv
    <3> QED BY <1>t, <2>1, FlagStored
  <2> QED BY <1>0, <1>a, <1>t, <2>1, <2>2, <2>3, <2>4
<1>12. CASE UNCHANGED vars
  BY <1>12, <1>a
<1> QED
  BY <1>1, <1>2, <1>3, <1>4, <1>5, <1>6, <1>7, <1>8, <1>9, <1>10, <1>11, <1>12 DEF Next, smp_init, ap_main

\* smp_init's table keeps to ORE_MAX_CPUS entries; as long as no CPU was given up
\* on, a CPU in C code has its own entry, and an online flag tells the truth.
THEOREM OwnEntries == Spec => []OwnEntry
<1>1. TableInv /\ OrderInv => OwnEntry
  <2> SUFFICES ASSUME TableInv, OrderInv PROVE OwnEntry
    OBVIOUS
  <2>0. /\ DOMAIN ids = 1..Len(ids) /\ Len(ids) \in Nat /\ Len(ids) <= MAX_CPUS
        /\ \A k \in DOMAIN ids : ids[k] \in Apics
    BY IdsFacts DEF TableInv
  <2> HIDE DEF ids
  <2>1. CASE pc = "table"
    BY <2>1, SmpAssumption DEF OwnEntry, TableInv, OrderInv, Started
  <2>2. CASE pc # "table"
    <3>1. g_cpus \in [1..Len(ids) -> Entry] /\ \A k \in DOMAIN ids : g_cpus[k].apic = ids[k]
      BY <2>0, <2>2 DEF TableInv
    <3>2. Len(g_cpus) <= MAX_CPUS /\ DOMAIN g_cpus = DOMAIN ids
      BY <2>0, <3>1
    <3>3. ASSUME gaveUp = {}, NEW a \in Apics, ap[a] \in {"main", "idle"}
          PROVE  g_cpus[apId[a] + 1].apic = a /\ g_cpus[apId[a] + 1].stack = apStack[a]
      <4>1. PICK k \in DOMAIN ids : ids[k] = a
        BY <3>3 DEF OrderInv, Started
      <4>2. CpuOrder(k) /\ k \in Nat \ {0}
        BY <2>0, <2>2, <3>3 DEF OrderInv
      <4>3. apId[a] + 1 = k /\ apStack[a] = g_cpus[k].stack
        BY <3>3, <4>1, <4>2 DEF CpuOrder
      <4> QED BY <3>1, <4>1, <4>3
    <3>4. ASSUME gaveUp = {}, NEW k \in DOMAIN g_cpus, g_cpus[k].online
          PROVE  ap[g_cpus[k].apic] \in {"boot", "idle"}
      BY <2>2, <3>1, <3>2, <3>4 DEF OrderInv, CpuOrder
    <3> QED BY <3>2, <3>3, <3>4 DEF OwnEntry
  <2> QED BY <2>1, <2>2
<1> QED BY <1>1, Initially, TableStep, OrderStep, PTL DEF Spec

\* Two CPUs get the same stack from the shared block only if smp_init gave one of
\* them up before.
THEOREM OwnStacks == Spec => []OwnStack
<1>1. TableInv /\ OrderInv => OwnStack
  <2> SUFFICES ASSUME TableInv, OrderInv, gaveUp = {},
                      NEW a \in Apics, ap[a] \in {"stack", "main", "idle"},
                      NEW b \in Apics, ap[b] \in {"stack", "main", "idle"},
                      apStack[a] = apStack[b]
               PROVE  a = b
    BY DEF OwnStack
  <2>1. pc # "table" /\ \E k \in DOMAIN ids : ids[k] = a
    BY DEF OrderInv, Started
  <2>2. \E l \in DOMAIN ids : ids[l] = b
    BY DEF OrderInv, Started
  <2>3. PICK k \in DOMAIN ids, l \in DOMAIN ids : ids[k] = a /\ ids[l] = b
    BY <2>1, <2>2
  <2>4. CpuOrder(k) /\ CpuOrder(l)
    BY <2>1 DEF OrderInv
  <2>5. g_cpus[k].stack = g_cpus[l].stack /\ g_cpus[k].stack # 0
    BY <2>3, <2>4 DEF CpuOrder
  <2> QED BY <2>1, <2>3, <2>5 DEF TableInv
<1> QED BY <1>1, Initially, TableStep, OrderStep, PTL DEF Spec

=============================================================================
