----------------------------- MODULE PageTables -----------------------------
(***************************************************************************)
(* The page-table operations of kernel/vmm.c, as functions of the tables   *)
(* and of the free pages.  An address is a page number; a table has WIDTH  *)
(* entries and a walk has LEVELS steps (512 and 4 in the code).  A page is *)
(* taken from the page allocator lowest first (Pmm).                       *)
(***************************************************************************)
EXTENDS Naturals, FiniteSets, Functions, TLC

CONSTANTS
    Pages,    \* the physical pages
    WIDTH,    \* entries of a table
    LEVELS    \* levels of the walk

Slots == 0..(WIDTH - 1)
Flags == {"P", "W", "U", "NX"}

\* A table is the function of its present entries; the others are 0.
Entries == [page : Pages, flags : SUBSET Flags]
Empty == <<>>

\* The state an operation works on: the tables, the free pages, where the walk
\* is, whether new_table found no page ("VMM: no page table memory"), and
\* whether a caller gave up for want of one.
State(m, f) == [mem |-> m, free |-> f, table |-> 0, panic |-> FALSE, failed |-> FALSE]

Lowest(S) == CHOOSE p \in S : \A q \in S : p <= q

Power[n \in Nat] == IF n = 0 THEN 1 ELSE WIDTH * Power[n - 1]

\* The slot of va in the table of a level; the root is level 1.
Index(va, level) == (va \div Power[LEVELS - level]) % WIDTH

\* Entry e is stored in a slot of table t.
Store(m, t, slot, e) == [m EXCEPT ![t] = (slot :> e) @@ @]

\* next_table with create: the child table, made when there is none.
next_table(s, slot, flags) ==
    LET p == Lowest(s.free)
    IN  IF slot \in DOMAIN s.mem[s.table] THEN [s EXCEPT !.table = s.mem[s.table][slot].page]
        ELSE IF s.free = {} THEN [s EXCEPT !.panic = TRUE]
        ELSE [s EXCEPT !.mem = Store([@ EXCEPT ![p] = Empty], s.table, slot,
                                     [page |-> p, flags |-> {"P", "W"} \cup flags]),
                       !.free = @ \ {p},
                       !.table = p]

\* pte_for_root with create: the walk to the leaf table of va.
Walk(s, root, va, flags) ==
    LET W[l \in 1..LEVELS] ==
          IF l = 1 THEN [s EXCEPT !.table = root]
          ELSE LET prev == W[l - 1]
               IN  IF prev.panic THEN prev ELSE next_table(prev, Index(va, l - 1), flags)
    IN  W[LEVELS]

\* pte_for_root without create: the leaf table of va, 0 if the way ends before.
Leaf(m, root, va) ==
    LET T[l \in 1..LEVELS] ==
          IF l = 1 THEN root
          ELSE LET prev == T[l - 1]
                   slot == Index(va, l - 1)
               IN  IF prev # 0 /\ slot \in DOMAIN m[prev] THEN m[prev][slot].page ELSE 0
    IN  T[LEVELS]

\* vmm_virt_to_phys_in, in pages; 0 when va is not mapped.
virt_to_phys(m, root, va) ==
    LET t == Leaf(m, root, va)
    IN  IF t # 0 /\ Index(va, LEVELS) \in DOMAIN m[t] THEN m[t][Index(va, LEVELS)].page ELSE 0

\* map_in_root for n pages from phys on.
MapRange(s, root, va, phys, n, flags) ==
    LET M[k \in 0..n] ==
          IF k = 0 THEN s
          ELSE LET prev == M[k - 1]
                   r == Walk(prev, root, va + k - 1, flags \cap {"U"})
               IN  IF prev.panic \/ r.panic THEN [prev EXCEPT !.panic = TRUE]
                   ELSE [r EXCEPT !.mem = Store(@, r.table, Index(va + k - 1, LEVELS),
                                       [page |-> phys + k - 1, flags |-> flags \cup {"P"}])]
    IN  M[n]

\* protect_in_root: new flags for n pages; the caller has mapped them.
Protect(m, root, va, n, flags) ==
    LET P[k \in 0..n] ==
          IF k = 0 THEN m
          ELSE LET prev == P[k - 1]
                   v == va + k - 1
                   t == Leaf(prev, root, v)
               IN  [prev EXCEPT ![t][Index(v, LEVELS)].flags = flags \cup {"P"}]
    IN  P[n]

\* unmap_in_root: the entries are cleared, the tables stay.
Unmap(m, root, va, n) ==
    LET U[k \in 0..n] ==
          IF k = 0 THEN m
          ELSE LET prev == U[k - 1]
                   v == va + k - 1
                   t == Leaf(prev, root, v)
               IN  IF t = 0 THEN prev
                   ELSE [prev EXCEPT ![t] = Restrict(@, DOMAIN @ \ {Index(v, LEVELS)})]
    IN  U[n]

create_user_pml4_Clone(s, kernel, userSlots) == [s EXCEPT !.table = kernel]

\* vmm_create_user_pml4: a copy of the kernel's root without the user slots.
create_user_pml4(s, kernel, userSlots) ==
    IF s.free = {} THEN [s EXCEPT !.panic = TRUE]
    ELSE LET p == Lowest(s.free)
         IN  [s EXCEPT !.mem[p] = Restrict(s.mem[kernel], DOMAIN s.mem[kernel] \ userSlots),
                       !.free = @ \ {p}, !.table = p]

-----------------------------------------------------------------------------
(* What the processor makes of the tables. *)

\* Whoever follows the present entries of a node: the addresses begin with its
\* va, and a write or a user access needs its flag on every level.
Below(m, node) ==
    {[va |-> node.va * WIDTH + i, page |-> m[node.page][i].page,
      flags |-> m[node.page][i].flags \cap (node.flags \cup {"NX"})] :
        i \in DOMAIN m[node.page]}

\* The nodes l steps below the root: tables for l < LEVELS, pages for l = LEVELS.
Nodes(m, root, depth) ==
    LET N[l \in 0..depth] ==
          IF l = 0 THEN {[va |-> 0, page |-> root, flags |-> {"P", "W", "U"}]}
          ELSE UNION {Below(m, node) : node \in N[l - 1]}
    IN  N[depth]

\* The slot of the root that a node l steps below it hangs on.
RootSlot(node, l) == node.va \div Power[l - 1]

=============================================================================
