-------------------------------- MODULE Heap --------------------------------
(***************************************************************************)
(* The kernel heap of heap.c on top of the page allocator of Pmm.  kmalloc *)
(* and kfree hold heap_lock, so each is one step, and a kmalloc that needs *)
(* pages is a step of pmm_alloc_pages as well.  Other parts of the kernel  *)
(* allocate and free pages in between.                                     *)
(*                                                                         *)
(* Memory is counted in words.  The linked list of HeapBlocks is the       *)
(* sequence of its members: the word a header lies at, the size of the     *)
(* payload behind it, and the free flag.                                   *)
(***************************************************************************)
EXTENDS Pmm

CONSTANTS
  PAGE_SIZE,   \* words of a page
  HEADER,      \* sizeof(HeapBlock)
  ALIGN,       \* alignment of sizes
  MIN_PAYLOAD, \* payload below which no block is split off
  Sizes,       \* sizes that kmalloc is called with
  MaxLive,     \* bound: allocations alive at a time
  HeapBoots    \* bound: the boots after which the heap is used

ASSUME HeapAssumption ==
  /\ {PAGE_SIZE, HEADER, ALIGN, MIN_PAYLOAD} \subseteq Nat \ {0}
  /\ PAGE_SIZE % ALIGN = 0 /\ HEADER % ALIGN = 0
  /\ Sizes \subseteq Nat /\ HeapBoots \subseteq BootInfos

VARIABLES
  list,    \* the blocks from heap_head on: [at, size, free]
  live,    \* history: pointers kmalloc returned and the sizes asked for
  chunks   \* history: page blocks obtained by request_block

heap == <<list, live, chunks>>
heapVars == <<vars, heap>>

HeapInit == Init /\ list = <<>> /\ live = {} /\ chunks = {}

AlignUp(value, align) == ((value + align - 1) \div align) * align

Pointer(block) == block.at + HEADER
End(block) == Pointer(block) + block.size

-----------------------------------------------------------------------------
(* kmalloc *)

(* Mutant: the header of the new block is not accounted for. *)
split_block_NoHeader(block, size) ==
  LET remaining == block.size - size
  IN  IF remaining <= HEADER + MIN_PAYLOAD
      THEN <<[block EXCEPT !.free = FALSE]>>
      ELSE <<[at |-> block.at, size |-> size, free |-> FALSE],
             [at |-> Pointer(block) + size, size |-> remaining, free |-> TRUE]>>

(* The blocks that take the place of block: split_block, with the first    *)
(* one marked as in use.                                                   *)
split_block(block, size) ==
  LET remaining == block.size - size
  IN  IF remaining <= HEADER + MIN_PAYLOAD
      THEN <<[block EXCEPT !.free = FALSE]>>
      ELSE <<[at |-> block.at, size |-> size, free |-> FALSE],
             [at |-> Pointer(block) + size, size |-> remaining - HEADER, free |-> TRUE]>>

(* The list l with its i-th block replaced by the blocks new. *)
Replaced(l, i, new) == SubSeq(l, 1, i - 1) \o new \o SubSeq(l, i + 1, Len(l))

(* Positions of the blocks that are free and large enough. *)
Fits(size) == {i \in 1..Len(list) : list[i].free /\ list[i].size >= size}

(* The first such block is used. *)
TakeBlock(l, i, asked, size) ==
  /\ list' = Replaced(l, i, split_block(l[i], size))
  /\ live' = live \cup {[ptr |-> Pointer(l[i]), size |-> asked]}

(* Mutant: the header is left out of the number of pages. *)
RequestPages_NoHeader(size) == AlignUp(size, PAGE_SIZE) \div PAGE_SIZE

(* The pages that request_block asks for. *)
RequestPages(size) == AlignUp(HEADER + size, PAGE_SIZE) \div PAGE_SIZE

(* A request for 0 returns a null pointer at once. *)
kmalloc(asked) ==
  LET size == AlignUp(asked, ALIGN)
  IN
  /\ asked # 0
  /\ \/ \E i \in Fits(size) :
          /\ \A j \in Fits(size) : i <= j
          /\ TakeBlock(list, i, asked, size)
          /\ UNCHANGED <<chunks, vars>>
     \/ /\ Fits(size) = {}
        /\ pmm_alloc_pages(RequestPages(size))
        /\ IF ret' = 0
           THEN UNCHANGED heap
           ELSE LET block == [at |-> ret' * PAGE_SIZE, free |-> TRUE,
                              size |-> RequestPages(size) * PAGE_SIZE - HEADER]
                IN  /\ TakeBlock(Append(list, block), Len(list) + 1, asked, size)
                    /\ chunks' = chunks \cup (owned' \ owned)

-----------------------------------------------------------------------------
(* kfree *)

(* Two list neighbours that are merged: free, and one behind the other. *)
Joins(a, b) == a.free /\ b.free /\ End(a) = b.at

Merge(a, b) == [a EXCEPT !.size = a.size + HEADER + b.size]

(* The pass over the list.  After a merge it goes on with the block behind *)
(* the merged ones: the result of a merge is not merged again.             *)
Coalesce(l) ==
  LET n == Len(l)
      from[i \in 1..(n + 2)] ==
        IF i > n THEN <<>>
        ELSE IF i < n /\ Joins(l[i], l[i + 1])
        THEN <<Merge(l[i], l[i + 1])>> \o from[i + 2]
        ELSE <<l[i]>> \o from[i + 1]
  IN  from[1]

(* Called with a pointer that kmalloc returned: the magic is in place. *)
kfree(p) ==
  /\ \E i \in 1..Len(list) :
       /\ Pointer(list[i]) = p.ptr
       /\ list' = Coalesce([list EXCEPT ![i].free = TRUE])
  /\ live' = live \ {p}
  /\ UNCHANGED <<chunks, vars>>

-----------------------------------------------------------------------------
(* The rest of the kernel uses the page allocator, too. *)

OthersAllocPages(count) == pmm_alloc_pages(count) /\ UNCHANGED heap

OthersFreePages(b) == pmm_free_pages(b) /\ UNCHANGED heap

HeapNext ==
  \/ pmm_init /\ UNCHANGED heap
  \/ \E count \in 0..MaxCount : OthersAllocPages(count)
  \/ \E b \in owned \ chunks : OthersFreePages(b)
  \/ \E size \in Sizes :
       boot_info \in HeapBoots /\ Cardinality(live) < MaxLive /\ kmalloc(size)
  \/ \E p \in live : kfree(p)

HeapSpec == HeapInit /\ [][HeapNext]_heapVars

-----------------------------------------------------------------------------
(* Properties *)

Words(from, to) == from..(to - 1)

BlockWords(i) == Words(list[i].at, End(list[i]))

(* The blocks of the list tile the pages that the heap obtained: no word   *)
(* belongs to two blocks, none lies outside the heap's pages, and none of  *)
(* those pages' words is lost, however often blocks were split and merged  *)
(* and whatever order the page allocator returned the pages in.            *)
BlocksTileChunks ==
  /\ \A i, j \in 1..Len(list) : i # j => BlockWords(i) \cap BlockWords(j) = {}
  /\ UNION {BlockWords(i) : i \in 1..Len(list)} =
       UNION {Words(c.page * PAGE_SIZE, (c.page + c.count) * PAGE_SIZE) : c \in chunks}

(* Every pointer returned and not yet freed has a block of its own in the  *)
(* list, in use, aligned and at least as large as was asked for; every     *)
(* other block is free.  So kfree finds the header it looks for, and no    *)
(* merge ever swallows a block in use.                                     *)
LiveBlocks ==
  /\ \A p \in live : \E i \in 1..Len(list) :
       /\ ~ list[i].free /\ Pointer(list[i]) = p.ptr
       /\ p.ptr % ALIGN = 0 /\ list[i].size >= p.size
  /\ Cardinality(live) = Cardinality({i \in 1..Len(list) : ~ list[i].free})
=============================================================================
