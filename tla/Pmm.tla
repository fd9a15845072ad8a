-------------------------------- MODULE Pmm --------------------------------
(***************************************************************************)
(* The physical page allocator of pmm.c: pmm_init builds a bitmap from the *)
(* memory map the loader passes on, pmm_alloc_pages and pmm_free_pages     *)
(* work on it under pmm_lock, so each is one step.                         *)
(*                                                                         *)
(* Addresses are page numbers.  The descriptors of a UEFI memory map are   *)
(* page aligned; kernel, initramfs and boot info are the sets of pages     *)
(* they touch, which is what reserve_range makes of them.  The trampoline  *)
(* pages lie inside the low range, so reserving them again does nothing.   *)
(***************************************************************************)
EXTENDS Integers, FiniteSets, Sequences

CONSTANTS
  PhysPages,      \* pages of the physical address space
  LowPages,       \* LOW_RESERVED_END / PAGE_SIZE
  BITS_PER_PAGE,  \* bits of the bitmap one page holds: 8 * PAGE_SIZE
  BootInfos,      \* boot infos the loader may pass
  MaxCount        \* bound: largest request

Pages == 0..(PhysPages - 1)

(* The usable (type 7) descriptors of a boot info, in the order of the map. *)
DescriptorPages(d) == {p \in Pages : d.start <= p /\ p < d.start + d.pages}

Usable(boot) == UNION {DescriptorPages(boot.memory_map[i]) : i \in DOMAIN boot.memory_map}

LoaderData(boot) == boot.kernel \cup boot.initramfs \cup boot.boot_info

(* Descriptors do not overlap, and what the loader allocated for the       *)
(* kernel (EFI_LOADER_DATA) is in none that is usable.                     *)
ASSUME PmmAssumption ==
  /\ PhysPages \in Nat \ {0} /\ LowPages \in Nat \ {0}
  /\ BITS_PER_PAGE \in Nat \ {0} /\ MaxCount \in Nat
  /\ \A boot \in BootInfos :
       /\ boot.memory_map \in Seq([start : Pages, pages : Nat \ {0}])
       /\ \A i \in DOMAIN boot.memory_map :
            boot.memory_map[i].start + boot.memory_map[i].pages <= PhysPages
       /\ \A i, j \in DOMAIN boot.memory_map :
            i # j => DescriptorPages(boot.memory_map[i])
                       \cap DescriptorPages(boot.memory_map[j]) = {}
       /\ LoaderData(boot) \subseteq Pages \ Usable(boot)

VARIABLES
  phase,                \* "boot", "online" or "panic"
  boot_info,            \* what the loader passed
  bitmap_pages,         \* the pages that hold the bitmap
  bitmap,               \* pages below total_page_count whose bit is set
  total_page_count,
  free_page_count,
  reserved_page_count,
  used_page_count,
  owned,                \* history: blocks handed out and not given back
  ret                   \* page number of the last pointer returned; 0: null

counters == <<free_page_count, reserved_page_count, used_page_count>>
layout   == <<boot_info, bitmap_pages, total_page_count>>
vars     == <<phase, layout, bitmap, counters, owned, ret>>

Init ==
  /\ phase = "boot" /\ boot_info \in BootInfos
  /\ bitmap_pages = {} /\ bitmap = {} /\ total_page_count = 0
  /\ free_page_count = 0 /\ reserved_page_count = 0 /\ used_page_count = 0
  /\ owned = {} /\ ret = 0

-----------------------------------------------------------------------------
(* pmm_init *)

(* Mutant: storage may begin below the low range. *)
Storage_InLow(boot, i, size) ==
  LET d == boot.memory_map[i]
  IN  {a \in Pages :
         /\ d.start <= a /\ a + size <= d.start + d.pages
         /\ {p \in Pages : a <= p /\ p < a + size} \cap boot.kernel = {}}

(* First pages at which the bitmap fits into descriptor i. *)
Storage(boot, i, size) ==
  LET d == boot.memory_map[i]
  IN  {a \in Pages :
         /\ d.start <= a /\ LowPages <= a /\ a + size <= d.start + d.pages
         /\ {p \in Pages : a <= p /\ p < a + size} \cap boot.kernel = {}}

(* The first descriptor with room, and the lowest address in it: a set     *)
(* with that page, or none.                                                *)
find_bitmap_storage(boot, size) ==
  {a \in Pages : \E i \in DOMAIN boot.memory_map :
     /\ a \in Storage(boot, i, size)
     /\ \A j \in DOMAIN boot.memory_map : j < i => Storage(boot, j, size) = {}
     /\ \A b \in Storage(boot, i, size) : a <= b}

(* The first page number above every usable page. *)
MaxPhys(boot) ==
  IF Usable(boot) = {} THEN 0
  ELSE 1 + CHOOSE p \in Usable(boot) : \A q \in Usable(boot) : q <= p

(* Mutant: the bitmap itself is not reserved. *)
Reserved_NoBitmap(boot, storage) ==
  {p \in Pages : p < LowPages} \cup LoaderData(boot)

(* What the calls of reserve_range cover. *)
Reserved(boot, storage) ==
  {p \in Pages : p < LowPages} \cup storage \cup LoaderData(boot)

pmm_init ==
  LET total == MaxPhys(boot_info)
      size  == (total + BITS_PER_PAGE - 1) \div BITS_PER_PAGE
      found == find_bitmap_storage(boot_info, size)
      below == {p \in Pages : p < total}
  IN
  /\ phase = "boot"
  /\ UNCHANGED <<boot_info, used_page_count, owned, ret>>
  /\ \/ /\ total = 0 \/ found = {}
        /\ phase' = "panic"
        /\ UNCHANGED <<bitmap_pages, bitmap, total_page_count, free_page_count, reserved_page_count>>
     \/ /\ total # 0
        /\ \E a \in found : bitmap_pages' = {p \in Pages : a <= p /\ p < a + size}
        /\ phase' = "online"
        /\ total_page_count' = total
        /\ bitmap' = (below \ Usable(boot_info)) \cup (below \cap Reserved(boot_info, bitmap_pages'))
        /\ free_page_count' = Cardinality(Usable(boot_info) \ Reserved(boot_info, bitmap_pages'))
        /\ reserved_page_count' = total - free_page_count'

-----------------------------------------------------------------------------
(* pmm_alloc_pages *)

Managed == {p \in Pages : LowPages <= p /\ p < total_page_count}

Block(page, count) == [page |-> page, count |-> count]

Extent(b) == {p \in Pages : b.page <= p /\ p < b.page + b.count}

(* The pages at which a run of count clear bits begins. *)
FreeRuns(count) ==
  {p \in Managed : p + count <= total_page_count /\ Extent(Block(p, count)) \cap bitmap = {}}

(* Mutant: the bits of the block are not set. *)
pmm_alloc_pages_NoMark(count) ==
  /\ phase = "online"
  /\ UNCHANGED <<phase, layout, reserved_page_count>>
  /\ \/ /\ count = 0 \/ FreeRuns(count) = {}
        /\ ret' = 0
        /\ UNCHANGED <<bitmap, owned, free_page_count, used_page_count>>
     \/ /\ count # 0
        /\ \E start \in FreeRuns(count) :
             /\ \A p \in FreeRuns(count) : start <= p
             /\ bitmap' = bitmap \cup {start}
             /\ owned' = owned \cup {Block(start, count)}
             /\ ret' = start
        /\ free_page_count' = free_page_count - count
        /\ used_page_count' = used_page_count + count

pmm_alloc_pages(count) ==
  /\ phase = "online"
  /\ UNCHANGED <<phase, layout, reserved_page_count>>
  /\ \/ /\ count = 0 \/ FreeRuns(count) = {}
        /\ ret' = 0
        /\ UNCHANGED <<bitmap, owned, free_page_count, used_page_count>>
     \/ /\ count # 0
        /\ \E start \in FreeRuns(count) :
             /\ \A p \in FreeRuns(count) : start <= p
             /\ bitmap' = bitmap \cup Extent(Block(start, count))
             /\ owned' = owned \cup {Block(start, count)}
             /\ ret' = start
        /\ free_page_count' = free_page_count - count
        /\ used_page_count' = used_page_count + count

(* Mutant: the run is not started again at a set bit. *)
ScanLoop_NoReset(count) ==
  LET at[page \in Nat] ==
        IF page < LowPages THEN [run |-> 0, start_page |-> 0]
        ELSE LET before == at[page - 1]
             IN  IF page \in bitmap
                 THEN before
                 ELSE [run |-> before.run + 1,
                       start_page |-> IF before.run = 0 THEN page ELSE before.start_page]
      hits == {page \in Managed : at[page].run = count}
  IN  {at[page].start_page : page \in {q \in hits : \A r \in hits : q <= r}}

(* The loop of pmm_alloc_pages as it is written: run and start_page after  *)
(* each page.  A set with the start_page it stops with, or none.           *)
ScanLoop(count) ==
  LET at[page \in Nat] ==
        IF page < LowPages THEN [run |-> 0, start_page |-> 0]
        ELSE LET before == at[page - 1]
             IN  IF page \in bitmap
                 THEN [before EXCEPT !.run = 0]
                 ELSE [run |-> before.run + 1,
                       start_page |-> IF before.run = 0 THEN page ELSE before.start_page]
      hits == {page \in Managed : at[page].run = count}
  IN  {at[page].start_page : page \in {q \in hits : \A r \in hits : q <= r}}

-----------------------------------------------------------------------------
(* pmm_free_pages, called by the owner of a block.  Pages whose bit is not *)
(* set are passed over, and used_page_count stops at 0.                    *)

(* Mutant: used_page_count is left alone. *)
pmm_free_pages_KeepsUsed(b) ==
  LET cleared == {p \in Extent(b) \cap bitmap : p < total_page_count}
  IN  /\ bitmap' = bitmap \ cleared
      /\ free_page_count' = free_page_count + Cardinality(cleared)
      /\ owned' = owned \ {b}
      /\ UNCHANGED <<phase, layout, reserved_page_count, used_page_count, ret>>

pmm_free_pages(b) ==
  LET cleared == {p \in Extent(b) \cap bitmap : p < total_page_count}
      n       == Cardinality(cleared)
  IN  /\ bitmap' = bitmap \ cleared
      /\ free_page_count' = free_page_count + n
      /\ used_page_count' = IF n < used_page_count THEN used_page_count - n ELSE 0
      /\ owned' = owned \ {b}
      /\ UNCHANGED <<phase, layout, reserved_page_count, ret>>

-----------------------------------------------------------------------------
Next ==
  \/ pmm_init
  \/ \E count \in 0..MaxCount : pmm_alloc_pages(count)
  \/ \E b \in owned : pmm_free_pages(b)

Spec == Init /\ [][Next]_vars

-----------------------------------------------------------------------------
(* Properties *)

(* Every variable holds a value of its C type and range; once online the   *)
(* bitmap covers exactly the pages below total_page_count.                 *)
TypeOK ==
  /\ phase \in {"boot", "online", "panic"} /\ boot_info \in BootInfos
  /\ bitmap_pages \subseteq Pages /\ total_page_count \in 0..PhysPages
  /\ bitmap \subseteq {p \in Pages : p < total_page_count}
  /\ free_page_count \in Nat /\ reserved_page_count \in Nat /\ used_page_count \in Nat
  /\ owned \subseteq [page : Pages, count : 1..MaxCount]
  /\ ret \in Pages

(* What must never be handed out: memory the loader filled for the kernel, *)
(* the bitmap itself, the low range with the trampoline, and every page    *)
(* that no usable descriptor covers.                                       *)
Untouchable ==
  {p \in Pages : p < LowPages} \cup bitmap_pages \cup LoaderData(boot_info)
    \cup (Pages \ Usable(boot_info))

(* No page is given to two callers, none of the pages given out belongs to *)
(* the kernel, the bitmap, the initramfs or the firmware, and every page a *)
(* caller holds is marked, through any sequence of pmm_alloc_pages and     *)
(* pmm_free_pages after any boot.                                          *)
NoPageTwice ==
  /\ \A b \in owned :
       /\ b.page + b.count <= total_page_count
       /\ Extent(b) \subseteq bitmap \ Untouchable
  /\ \A b, c \in owned : b # c => Extent(b) \cap Extent(c) = {}

(* The counters the info system call reports agree with the bitmap: free   *)
(* pages are the clear bits, used pages are those held by callers, and     *)
(* together with the reserved ones they make up the total.                 *)
CountersAgree ==
  /\ free_page_count + reserved_page_count + used_page_count = total_page_count
  /\ free_page_count = Cardinality({p \in Pages : p < total_page_count} \ bitmap)
  /\ used_page_count = Cardinality(UNION {Extent(b) : b \in owned})

(* find_bitmap_storage looks out for the kernel only; still the bitmap     *)
(* never lies on the initramfs, the boot info or low memory, and is large  *)
(* enough for a bit for every page.                                        *)
BitmapWellPlaced ==
  phase = "online" =>
    /\ bitmap_pages \cap (LoaderData(boot_info) \cup {p \in Pages : p < LowPages}) = {}
    /\ bitmap_pages \subseteq Usable(boot_info)
    /\ Cardinality(bitmap_pages) * BITS_PER_PAGE >= total_page_count

(* The bitmap lies where it is safe, and the counters agree with it.       *)
BitmapSound == BitmapWellPlaced /\ CountersAgree

(* The scan with run and start_page finds the lowest run of clear bits     *)
(* that is long enough, and finds none only when there is none.            *)
ScanIsFirstFit ==
  phase = "online" =>
    \A count \in 1..MaxCount :
      ScanLoop(count) = {p \in FreeRuns(count) : \A q \in FreeRuns(count) : p <= q}

(* pmm.c is a page allocator as its callers understand it: blocks come     *)
(* from pages nobody holds, and a null pointer means that no block of that *)
(* size is left.                                                           *)
PA == INSTANCE PageAllocator WITH
        Pages  <- Pages,
        Counts <- 0..MaxCount,
        pool   <- IF phase = "online" THEN Usable(boot_info) \ Untouchable ELSE {},
        owned  <- owned,
        ret    <- ret

ImplementsPageAllocator == PA!Spec
=============================================================================
