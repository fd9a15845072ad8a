----------------------------- MODULE UserMemory -----------------------------
(***************************************************************************)
(* The memory of user processes: process_create_user, the image loaders    *)
(* and the system calls that allocate and free pages (kernel/syscall.c),   *)
(* over the page tables of kernel/vmm.c.                                   *)
(*                                                                         *)
(* System calls run on CPU 0 with interrupts off, so each is one step.     *)
(* The pages of a process are never given back when it exits, and          *)
(* user_alloc_next only grows: an address is used once in a lifetime.      *)
(***************************************************************************)
EXTENDS PageTables, Sequences, Integers

CONSTANTS
    Procs,                    \* the process slots
    Images,                   \* [ore, segs, fault]: the format, a sequence of
                              \* [va, pages, flags], what is wrong with it: "none",
                              \* "header", or "reloc" in an Ore image
    UserSlots,                \* slots 1..255 of the root
    STACK_TOP, STACK_PAGES,   \* the stack's top, and its size (8)
    ALLOC_BASE, ALLOC_LIMIT,  \* USER_ALLOC_BASE and USER_ALLOC_LIMIT
    MAX_ALLOCS,               \* ORE_MAX_USER_ALLOCS
    MAX_PAGES,                \* 1024: the pages a process may hold
    Counts                    \* the counts processes ask for

VARIABLES
    mem, free,     \* the tables, the pages the page allocator has
    kroot,         \* kernel_pml4
    root,          \* address_space.pml4_phys of each process, 0 if there is none
    status,        \* "none", "ready", "failed" (spawn returned an error), "exited"
    allocs,        \* user_allocs: slots of [virt, phys, pages], unused if 0 pages
    next, total,   \* user_alloc_next and user_alloc_pages_total
    panic          \* the kernel has stopped

vars == <<mem, free, kroot, root, status, allocs, next, total, panic>>

NoAlloc == [virt |-> 0, phys |-> 0, pages |-> 0]
AllocSlots == 1..MAX_ALLOCS

\* vmm_init: the kernel's root and the identity map of all physical memory.
KernelTables ==
    LET blank == [State([p \in Pages |-> Empty], Pages \ {0}) EXCEPT !.table = Lowest(Pages \ {0})]
        k == Lowest(Pages \ {0})
    IN  MapRange([blank EXCEPT !.free = @ \ {k}], k, 0, 0, Cardinality(Pages), {"W"})

\* vmm_self_test maps a page again, without execution, and gives it back.
vmm_self_test(s, k) ==
    LET page == Lowest(s.free)
        mapped == MapRange([s EXCEPT !.free = @ \ {page}], k, page, page, 1, {"W", "NX"})
        again == MapRange([mapped EXCEPT !.mem = Unmap(@, k, page, 1)], k, page, page, 1, {"W", "NX"})
    IN  [again EXCEPT !.free = @ \cup {page}]

Init ==
    /\ \E s \in {vmm_self_test(KernelTables, Lowest(Pages \ {0}))} : mem = s.mem /\ free = s.free
    /\ kroot = Lowest(Pages \ {0})
    /\ root = [p \in Procs |-> 0]
    /\ status = [p \in Procs |-> "none"]
    /\ allocs = [p \in Procs |-> [i \in AllocSlots |-> NoAlloc]]
    /\ next = [p \in Procs |-> ALLOC_BASE]
    /\ total = [p \in Procs |-> 0]
    /\ panic = FALSE

-----------------------------------------------------------------------------
(* Loading an image. *)

\* pmm_alloc_page and vmm_map_in for one page.
NewPage(s, r, va, flags) ==
    IF s.free = {} THEN [s EXCEPT !.failed = TRUE]
    ELSE LET p == Lowest(s.free) IN MapRange([s EXCEPT !.free = @ \ {p}], r, va, p, 1, flags)

Stopped(s) == s.failed \/ s.panic

\* map_zeroed_user_pages, and the same loop of the ELF loader: the pages of a
\* segment that are not there yet, writable while they are filled.
MapSegment(s, r, seg) ==
    LET L[k \in 0..seg.pages] ==
          IF k = 0 THEN s
          ELSE LET prev == L[k - 1]
                   va == seg.va + k - 1
               IN  IF Stopped(prev) \/ virt_to_phys(prev.mem, r, va) # 0 THEN prev
                   ELSE NewPage(prev, r, va, seg.flags \cup {"W"})
    IN  L[seg.pages]

ProtectSegment(s, r, seg) ==
    IF Stopped(s) THEN s ELSE [s EXCEPT !.mem = Protect(@, r, seg.va, seg.pages, seg.flags)]

\* load_user_image_into_process protects each segment before it maps the next.
LoadElf(s, r, segs) ==
    LET L[k \in 0..Len(segs)] ==
          IF k = 0 THEN s
          ELSE LET prev == L[k - 1]
               IN  ProtectSegment(MapSegment(prev, r, segs[k]), r, segs[k])
    IN  L[Len(segs)]

\* load_ore_image_into_process maps text and data, relocates, then protects
\* them; a bad relocation leaves both mapped and writable.
LoadOre(s, r, segs, fault) ==
    LET mapped == MapSegment(MapSegment(s, r, segs[1]), r, segs[2])
        fixed == IF fault = "reloc" /\ ~mapped.panic THEN [mapped EXCEPT !.failed = TRUE] ELSE mapped
    IN  ProtectSegment(ProtectSegment(fixed, r, segs[1]), r, segs[2])

LoadStack(s, r) ==
    LET L[k \in 0..STACK_PAGES] ==
          IF k = 0 THEN s
          ELSE LET prev == L[k - 1]
               IN  IF Stopped(prev) THEN prev
                   ELSE NewPage(prev, r, STACK_TOP - STACK_PAGES + k - 1, {"U", "W", "NX"})
    IN  L[STACK_PAGES]

\* process_create_user, then the loader; a header that elf_probe_user_image or
\* load_ore_image_into_process refuses costs a process without segments.
Loaded(image) ==
    LET c == create_user_pml4(State(mem, free), kroot, UserSlots)
        l == IF c.panic THEN c
             ELSE IF image.fault = "header" THEN [c EXCEPT !.failed = TRUE]
             ELSE IF image.ore THEN LoadOre(c, c.table, image.segs, image.fault)
             ELSE LoadElf(c, c.table, image.segs)
        s == LoadStack(l, c.table)
    IN  [s EXCEPT !.table = c.table]

\* ORE_SYS_SPAWN and ORE_SYS_EXEC_IMAGE, as far as memory is concerned.
Spawn(p, image) ==
    /\ ~panic /\ status[p] = "none"
    /\ LET s == Loaded(image)
       IN  /\ ~s.panic
           /\ mem' = s.mem /\ free' = s.free
           /\ root' = [root EXCEPT ![p] = s.table]
           /\ status' = [status EXCEPT ![p] = IF s.failed THEN "failed" ELSE "ready"]
    /\ UNCHANGED <<kroot, allocs, next, total, panic>>

\* new_table finds no page: the kernel stops in the middle of the call.
Panic == panic' = TRUE /\ UNCHANGED <<mem, free, kroot, root, status, allocs, next, total>>

SpawnPanics(p, image) ==
    ~panic /\ status[p] = "none" /\ Loaded(image).panic /\ Panic

Exit(p) ==
    /\ ~panic /\ status[p] = "ready"
    /\ status' = [status EXCEPT ![p] = "exited"]
    /\ UNCHANGED <<mem, free, kroot, root, allocs, next, total, panic>>

-----------------------------------------------------------------------------
(* The allocation system calls. *)

\* pmm_alloc_pages: the first run of count free pages (Pmm).
Runs(count) == {q \in Pages : \A k \in 0..(count - 1) : q + k \in free}

Run(q, count) == q..(q + count - 1)

FreeSlots(p) == {i \in AllocSlots : allocs[p][i].pages = 0}

\* The answers EINVAL and ENOMEM: nothing has happened yet.
Refused(p, count) ==
    \/ total[p] + count > MAX_PAGES
    \/ FreeSlots(p) = {}
    \/ next[p] + count > ALLOC_LIMIT
    \/ Runs(count) = {}

\* vmm_map_in of the block at user_alloc_next.
Mapped(p, q, count) ==
    MapRange(State(mem, free \ Run(q, count)), root[p], next[p], q, count, {"U", "W", "NX"})

user_alloc_pages_sys(p, count) ==
    /\ ~panic /\ status[p] = "ready" /\ ~Refused(p, count)
    /\ LET q == Lowest(Runs(count))
           s == Mapped(p, q, count)
       IN  /\ ~s.panic
           /\ mem' = s.mem /\ free' = s.free
           /\ allocs' = [allocs EXCEPT ![p][Lowest(FreeSlots(p))] =
                            [virt |-> next[p], phys |-> q, pages |-> count]]
    /\ total' = [total EXCEPT ![p] = @ + count]
    /\ next' = [next EXCEPT ![p] = @ + count]
    /\ UNCHANGED <<kroot, root, status, panic>>

AllocPanics(p, count) ==
    /\ ~panic /\ status[p] = "ready" /\ ~Refused(p, count)
    /\ Mapped(p, Lowest(Runs(count)), count).panic
    /\ Panic

Matches(p, ptr, count) ==
    {i \in AllocSlots : allocs[p][i].pages = count /\ allocs[p][i].virt = ptr}

FreeAlloc_KeepsMapping(p, i) ==
    LET a == allocs[p][i]
    IN  /\ mem' = mem
        /\ free' = free \cup Run(a.phys, a.pages)

FreeAlloc_FirstPage(p, i) ==
    LET a == allocs[p][i]
    IN  /\ mem' = Unmap(mem, root[p], a.virt, a.pages)
        /\ free' = free \cup {a.phys}

\* Unmapped first, then given back to the page allocator.
FreeAlloc(p, i) ==
    LET a == allocs[p][i]
    IN  /\ mem' = Unmap(mem, root[p], a.virt, a.pages)
        /\ free' = free \cup Run(a.phys, a.pages)

user_free_pages_sys(p, ptr, count) ==
    /\ ~panic /\ status[p] = "ready" /\ Matches(p, ptr, count) # {}
    /\ LET i == Lowest(Matches(p, ptr, count))
       IN  /\ FreeAlloc(p, i)
           /\ allocs' = [allocs EXCEPT ![p][i] = NoAlloc]
           /\ total' = [total EXCEPT ![p] = @ - allocs[p][i].pages]
    /\ UNCHANGED <<kroot, root, status, next, panic>>

Next ==
    \E p \in Procs :
        \/ \E image \in Images : Spawn(p, image) \/ SpawnPanics(p, image)
        \/ Exit(p)
        \/ \E count \in Counts : user_alloc_pages_sys(p, count) \/ AllocPanics(p, count)
        \/ \E ptr \in ALLOC_BASE..ALLOC_LIMIT, count \in Counts :
              user_free_pages_sys(p, ptr, count)

Spec == Init /\ [][Next]_vars

-----------------------------------------------------------------------------
(* Properties. *)

Live == {p \in Procs : root[p] # 0}

\* The use of a page: by whom, how many steps below the root, at which address.
Use(owner, level, node) == [owner |-> owner, level |-> level, at |-> node.va, page |-> node.page]

\* The pages of the tree below r that hang on the slots S of the root.
Uses(owner, r, S, levels) ==
    UNION {{Use(owner, l, node) : node \in {n \in Nodes(mem, r, l) : RootSlot(n, l) \in S}} :
              l \in levels}

\* Each page but 0 is free, one of others, a table of the kernel or of one process,
\* or mapped once by one process.
Accounted(others) ==
    LET uses == UNION ({Uses(kroot, kroot, Slots, 1..(LEVELS - 1))}
                       \cup {Uses(root[p], root[p], UserSlots, 1..LEVELS) : p \in Live})
        inner == {u.page : u \in uses}
        top == {kroot} \cup {root[p] : p \in Live}
    IN  /\ Cardinality(uses) = Cardinality(inner)
        /\ Cardinality(top) = Cardinality(Live) + 1
        /\ inner \cap top = {} /\ (inner \cup top) \cap others = {}
        /\ free \cap (inner \cup top \cup others) = {}
        /\ free \cup inner \cup top \cup others = Pages \ {0}

Translations(r) == Nodes(mem, r, LEVELS)

\* The records of a running process describe its memory: the allocation window
\* holds the blocks of the used slots, page by page, and nothing else, and the
\* total is what the slots hold; neither leaves its limit.
AllocTableAgrees ==
    \A p \in Live :
        LET blocks == {<<i, k>> \in AllocSlots \X (0..MAX_PAGES) : k < allocs[p][i].pages}
        IN  /\ {<<n.va, n.page>> : n \in {n \in Translations(root[p]) :
                                            n.va \in ALLOC_BASE..ALLOC_LIMIT}}
                 = {<<allocs[p][b[1]].virt + b[2], allocs[p][b[1]].phys + b[2]>> : b \in blocks}
            /\ total[p] = Cardinality(blocks) /\ total[p] <= MAX_PAGES
            /\ next[p] \in ALLOC_BASE..ALLOC_LIMIT

AS == INSTANCE AddressSpaces WITH
    KernelLimit <- Power[LEVELS - 1],
    exists <- Live,
    kernel <- Translations(kroot),
    spaces <- UNION {{[proc |-> p, map |-> n] : n \in Translations(root[p])} : p \in Live}

\* The tree of tables, shared with the kernel at the top, behaves as one flat
\* and private map per process.
ImplementsAddressSpaces == AS!Spec

=============================================================================
