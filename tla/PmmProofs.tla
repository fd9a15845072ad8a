----------------------------- MODULE PmmProofs -----------------------------
(***************************************************************************)
(* Proofs about Pmm for every size of memory, every boot info the loader   *)
(* can pass and requests of every size.                                    *)
(***************************************************************************)
EXTENDS Pmm, WellFoundedInduction, FiniteSetTheorems, TLAPS

(* The pages held by callers. *)
Taken == UNION {Extent(b) : b \in owned}

Below == {p \in Pages : p < total_page_count}

(* Why the bitmap can be trusted: its set bits are exactly the pages that  *)
(* may never be handed out and the pages that callers hold.                *)
BitmapExact ==
  phase = "online" =>
    /\ bitmap = (Below \cap Untouchable) \cup Taken
    /\ Usable(boot_info) \subseteq Below

(* Before pmm_init has succeeded nothing is managed. *)
Offline ==
  phase # "online" =>
    /\ owned = {} /\ bitmap = {} /\ total_page_count = 0
    /\ free_page_count = 0 /\ reserved_page_count = 0 /\ used_page_count = 0

SafeInv == TypeOK /\ Offline /\ BitmapExact /\ NoPageTwice

Inv == SafeInv /\ CountersAgree

(* The constants as the proofs use them. *)
LEMMA Bounds ==
  /\ PhysPages \in Nat /\ PhysPages > 0 /\ LowPages \in Nat /\ LowPages > 0
  /\ BITS_PER_PAGE \in Nat /\ BITS_PER_PAGE > 0 /\ MaxCount \in Nat
  BY PmmAssumption

(* Page numbers are natural numbers below PhysPages. *)
LEMMA PagesAreNat == \A p \in Pages : p \in Nat /\ p < PhysPages
  BY Bounds DEF Pages

(* A nonempty set of pages has a least and a greatest element. *)
LEMMA ExtremePages ==
  ASSUME NEW T, T \subseteq Pages, T # {}
  PROVE  /\ \E x \in T : \A y \in T : x <= y
         /\ \E x \in T : \A y \in T : y <= x
<1> DEFINE R == OpToRel(<, Nat)
           U == {PhysPages - p : p \in T}
<1>1. IsWellFoundedOn(R, Nat)
  BY NatLessThanWellFounded, Zenon
<1>2. ASSUME NEW V, V \subseteq Nat, V # {}
      PROVE  \E x \in V : \A y \in V : x <= y
  <2>1. PICK x \in V : \A y \in V : ~ (<<y, x>> \in R)
    <3> HIDE DEF R
    <3> QED BY <1>1, <1>2, WFMin
  <2>2. \A y \in V : ~ (y < x)
    BY <2>1, <1>2 DEF OpToRel
  <2> QED BY <2>2, <1>2
<1>3. T \subseteq Nat
  BY PagesAreNat
<1>4. U \subseteq Nat /\ U # {}
  BY PagesAreNat, Bounds
<1>5. PICK u \in U : \A v \in U : u <= v
  <2> HIDE DEF U
  <2> QED BY <1>2, <1>4
<1>6. PICK x \in T : u = PhysPages - x
  OBVIOUS
<1>7. \A y \in T : u <= PhysPages - y
  BY <1>5
<1>8. \A y \in T : y <= x
  BY <1>6, <1>7, PagesAreNat, Bounds
<1> QED BY <1>2, <1>3, <1>8

(* max_phys lies above every usable page and within physical memory. *)
LEMMA MaxPhysBounds ==
  ASSUME NEW boot \in BootInfos
  PROVE  /\ MaxPhys(boot) \in 0..PhysPages
         /\ \A p \in Usable(boot) : p \in Pages /\ p < MaxPhys(boot)
<1> DEFINE T == Usable(boot)
<1>1. T \subseteq Pages
  BY DEF Usable, DescriptorPages
<1>2. CASE T = {}
  BY <1>2, Bounds DEF MaxPhys
<1>3. CASE T # {}
  <2>1. \E x \in T : \A y \in T : y <= x
    <3> HIDE DEF T
    <3> QED BY <1>1, <1>3, ExtremePages
  <2> DEFINE m == CHOOSE p \in T : \A q \in T : q <= p
  <2>2. m \in T /\ \A q \in T : q <= m
    <3> HIDE DEF T
    <3> QED BY <2>1
  <2>3. MaxPhys(boot) = 1 + m
    BY <1>3 DEF MaxPhys
  <2> HIDE DEF T, m
  <2> QED BY <1>1, <2>2, <2>3, PagesAreNat, Bounds DEF T
<1> QED BY <1>2, <1>3

-----------------------------------------------------------------------------
(* Blocks *)

(* A block of count pages that ends within memory covers count pages. *)
LEMMA ExtentSize ==
  ASSUME NEW b, b.page \in Pages, b.count \in Nat, b.page + b.count <= PhysPages
  PROVE  IsFiniteSet(Extent(b)) /\ Cardinality(Extent(b)) = b.count
<1>1. Extent(b) = (b.page)..(b.page + b.count - 1)
  BY Bounds DEF Extent, Pages
<1>2. b.page \in Int /\ b.page + b.count - 1 \in Int
  BY PagesAreNat
<1>3. /\ IsFiniteSet((b.page)..(b.page + b.count - 1))
      /\ Cardinality((b.page)..(b.page + b.count - 1))
           = IF b.page > b.page + b.count - 1 THEN 0 ELSE (b.page + b.count - 1) - b.page + 1
  BY <1>2, FS_Interval
<1> QED BY <1>1, <1>3, PagesAreNat

(* Every set of pages is finite. *)
LEMMA PagesFinite ==
  ASSUME NEW T, T \subseteq Pages
  PROVE  IsFiniteSet(T) /\ Cardinality(T) \in Nat
<1>1. IsFiniteSet(Pages)
  BY Bounds, FS_Interval DEF Pages
<1>2. IsFiniteSet(T)
  BY <1>1, FS_Subset
<1> QED BY <1>2, FS_CardinalityType

(* Taking part of a set of pages away, and joining two that are disjoint. *)
LEMMA CountPages ==
  ASSUME NEW S, S \subseteq Pages, NEW T, T \subseteq Pages
  PROVE  /\ T \subseteq S => Cardinality(S \ T) = Cardinality(S) - Cardinality(T)
         /\ T \cap S = {} => Cardinality(S \cup T) = Cardinality(S) + Cardinality(T)
<1>1. IsFiniteSet(S) /\ IsFiniteSet(T) /\ IsFiniteSet(S \ T)
  BY PagesFinite
<1>2. /\ Cardinality(S) \in Nat /\ Cardinality(T) \in Nat /\ Cardinality(S \ T) \in Nat
  BY PagesFinite
<1>3. ASSUME T \cap S = {} PROVE Cardinality(S \cup T) = Cardinality(S) + Cardinality(T)
  <2>1. Cardinality(S \cup T) = Cardinality(S) + Cardinality(T) - Cardinality(S \cap T)
    BY <1>1, FS_Union
  <2>2. S \cap T = {} BY <1>3
  <2>3. Cardinality(S \cap T) = 0 BY <2>2, FS_EmptySet
  <2> QED BY <2>1, <2>3, <1>2
<1>4. ASSUME T \subseteq S PROVE Cardinality(S \ T) = Cardinality(S) - Cardinality(T)
  <2>1. Cardinality((S \ T) \cup T) =
          Cardinality(S \ T) + Cardinality(T) - Cardinality((S \ T) \cap T)
    BY <1>1, FS_Union
  <2>2. (S \ T) \cup T = S /\ (S \ T) \cap T = {} BY <1>4
  <2>3. Cardinality((S \ T) \cap T) = 0 BY <2>2, FS_EmptySet
  <2> QED BY <2>1, <2>2, <2>3, <1>2
<1> QED BY <1>3, <1>4

-----------------------------------------------------------------------------
(* What the three operations do, in terms of the invariant. *)

(* Once pmm_init has run, the clear bits are the usable pages that nothing *)
(* reserves.                                                               *)
LEMMA InitStep ==
  ASSUME TypeOK, Offline, pmm_init, phase' = "online"
  PROVE  /\ owned' = {} /\ ret' = ret /\ boot_info' \in BootInfos
         /\ used_page_count' = 0
         /\ total_page_count' \in 0..PhysPages
         /\ bitmap_pages' \subseteq Pages
         /\ Usable(boot_info') \subseteq Below'
         /\ bitmap' = Below' \cap Untouchable'
         /\ free_page_count' = Cardinality(Below' \ bitmap')
         /\ reserved_page_count' = total_page_count' - free_page_count'
<1> DEFINE total == MaxPhys(boot_info)
           below == {p \in Pages : p < total}
<1>1. boot_info \in BootInfos
  BY DEF TypeOK
<1>2. total \in 0..PhysPages /\ Usable(boot_info) \subseteq below
  BY <1>1, MaxPhysBounds
<1>3. /\ boot_info' = boot_info /\ owned' = owned /\ ret' = ret
      /\ used_page_count' = used_page_count
      /\ total_page_count' = total /\ bitmap_pages' \subseteq Pages
      /\ bitmap' = (below \ Usable(boot_info)) \cup (below \cap Reserved(boot_info, bitmap_pages'))
      /\ free_page_count' = Cardinality(Usable(boot_info) \ Reserved(boot_info, bitmap_pages'))
      /\ reserved_page_count' = total - free_page_count'
  BY DEF pmm_init
<1>4. owned = {} /\ used_page_count = 0
  BY DEF Offline, pmm_init
<1>5. Below' = below
  BY <1>3 DEF Below
<1>6. Untouchable' = Reserved(boot_info, bitmap_pages') \cup (Pages \ Usable(boot_info))
  BY <1>3 DEF Untouchable, Reserved
<1> HIDE DEF total, below
<1>7. bitmap' = below \cap Untouchable'
  <2>1. below \subseteq Pages BY DEF below
  <2> QED BY <1>3, <1>6, <2>1
<1>8. Usable(boot_info) \ Reserved(boot_info, bitmap_pages') = below \ bitmap'
  BY <1>2, <1>3
<1> QED BY <1>1, <1>2, <1>3, <1>4, <1>5, <1>7, <1>8

(* A successful request takes a block of pages that no bit is set for. *)
LEMMA AllocStep ==
  ASSUME TypeOK, NEW count \in 0..MaxCount, pmm_alloc_pages(count), count # 0,
         FreeRuns(count) # {}
  PROVE  \E b \in [page : Pages, count : 1..MaxCount] :
           /\ b.count = count /\ b.page + b.count <= total_page_count
           /\ LowPages <= b.page
           /\ Extent(b) \subseteq Below \ bitmap
           /\ bitmap' = bitmap \cup Extent(b)
           /\ owned' = owned \cup {b} /\ ret' = b.page
           /\ free_page_count' = free_page_count - b.count
           /\ used_page_count' = used_page_count + b.count
           /\ UNCHANGED <<phase, layout, reserved_page_count>>
<1>1. PICK start \in FreeRuns(count) :
        /\ bitmap' = bitmap \cup Extent(Block(start, count))
        /\ owned' = owned \cup {Block(start, count)}
        /\ ret' = start
  BY DEF pmm_alloc_pages
<1>2. /\ free_page_count' = free_page_count - count
      /\ used_page_count' = used_page_count + count
      /\ UNCHANGED <<phase, layout, reserved_page_count>>
  BY DEF pmm_alloc_pages
<1> DEFINE b == Block(start, count)
<1>3. /\ start \in Pages /\ LowPages <= start /\ start + count <= total_page_count
      /\ Extent(b) \cap bitmap = {}
  BY DEF FreeRuns, Managed
<1>4. /\ b \in [page : Pages, count : 1..MaxCount]
      /\ b.page = start /\ b.count = count
  BY <1>3, Bounds DEF Block
<1>5. Extent(b) \subseteq Below
  BY <1>3, <1>4, PagesAreNat DEF Extent, Below, TypeOK
<1>6. /\ bitmap' = bitmap \cup Extent(b) /\ owned' = owned \cup {b} /\ ret' = b.page
      /\ Extent(b) \subseteq Below \ bitmap
  BY <1>1, <1>3, <1>4, <1>5
<1> HIDE DEF b
<1> QED BY <1>2, <1>3, <1>4, <1>6

(* A block that is given back frees exactly its own bits. *)
LEMMA FreeStep ==
  ASSUME SafeInv, NEW b \in owned, pmm_free_pages(b)
  PROVE  /\ bitmap' = bitmap \ Extent(b)
         /\ owned' = owned \ {b}
         /\ b.count \in Nat /\ b.page \in Pages /\ b.page + b.count <= total_page_count
         /\ free_page_count' = free_page_count + b.count
         /\ used_page_count' = IF b.count < used_page_count
                               THEN used_page_count - b.count ELSE 0
         /\ Taken' = Taken \ Extent(b)
         /\ UNCHANGED <<phase, layout, reserved_page_count, ret>>
<1> DEFINE cleared == {p \in Extent(b) \cap bitmap : p < total_page_count}
<1>1. /\ b.page \in Pages /\ b.count \in Nat /\ b.page + b.count <= total_page_count
      /\ Extent(b) \subseteq bitmap
      /\ \A c \in owned : c # b => Extent(c) \cap Extent(b) = {}
  BY Bounds DEF SafeInv, TypeOK, NoPageTwice
<1>2. cleared = Extent(b)
  BY <1>1, PagesAreNat DEF Extent, SafeInv, TypeOK
<1>3. b.page + b.count <= PhysPages
  BY <1>1, PagesAreNat, Bounds DEF SafeInv, TypeOK
<1>4. Cardinality(cleared) = b.count
  BY <1>1, <1>2, <1>3, ExtentSize
<1>5. /\ bitmap' = bitmap \ cleared
      /\ free_page_count' = free_page_count + Cardinality(cleared)
      /\ used_page_count' = IF Cardinality(cleared) < used_page_count
                            THEN used_page_count - Cardinality(cleared) ELSE 0
      /\ owned' = owned \ {b}
      /\ UNCHANGED <<phase, layout, reserved_page_count, ret>>
  BY DEF pmm_free_pages
<1>6. Taken' = Taken \ Extent(b)
  BY <1>1, <1>5 DEF Taken, Extent
<1> HIDE DEF cleared
<1> QED BY <1>1, <1>2, <1>4, <1>5, <1>6

-----------------------------------------------------------------------------
(* The invariant is kept. *)

(* Untouchable and Below depend on what pmm_init fixed once and for all. *)
LEMMA LayoutFixed ==
  ASSUME UNCHANGED layout
  PROVE  Untouchable' = Untouchable /\ Below' = Below
  BY DEF layout, Untouchable, Below

(* The initial state satisfies the invariant. *)
LEMMA InitInv == Init => Inv
<1> SUFFICES ASSUME Init PROVE Inv OBVIOUS
<1>1. TypeOK
  BY Bounds DEF Init, TypeOK, Pages
<1>2. Offline /\ BitmapExact /\ NoPageTwice
  BY DEF Init, Offline, BitmapExact, NoPageTwice
<1>3. CountersAgree
  <2>1. {p \in Pages : p < total_page_count} \ bitmap = {}
    BY PagesAreNat DEF Init
  <2>2. UNION {Extent(b) : b \in owned} = {}
    BY DEF Init
  <2> QED BY <2>1, <2>2, FS_EmptySet DEF Init, CountersAgree
<1> QED BY <1>1, <1>2, <1>3 DEF Inv, SafeInv

(* pmm_init establishes it. *)
LEMMA PmmInitInv ==
  ASSUME Inv, pmm_init
  PROVE  Inv'
<1> USE DEF Inv, SafeInv
<1>1. CASE phase' = "online"
  <2>1. /\ owned' = {} /\ ret' = ret /\ boot_info' \in BootInfos
        /\ used_page_count' = 0 /\ total_page_count' \in 0..PhysPages
        /\ bitmap_pages' \subseteq Pages
        /\ Usable(boot_info') \subseteq Below'
        /\ bitmap' = Below' \cap Untouchable'
        /\ free_page_count' = Cardinality(Below' \ bitmap')
        /\ reserved_page_count' = total_page_count' - free_page_count'
    BY <1>1, InitStep
  <2>2. Below' \subseteq Pages /\ bitmap' \subseteq Below'
    BY <2>1 DEF Below
  <2>3. Cardinality(Below') = total_page_count' /\ IsFiniteSet(Below')
    <3>1. Below' = 0..(total_page_count' - 1)
      BY <2>1, Bounds DEF Below, Pages
    <3> QED BY <3>1, <2>1, FS_Interval, Bounds
  <2>4. free_page_count' \in Nat /\ free_page_count' <= total_page_count'
    BY <2>1, <2>2, <2>3, FS_Subset, PagesFinite
  <2>5. reserved_page_count' \in Nat
    BY <2>1, <2>4
  <2>6. Taken' = {}
    BY <2>1 DEF Taken
  <2>7. TypeOK'
    BY <1>1, <2>1, <2>2, <2>4, <2>5 DEF TypeOK, Below
  <2>8. Offline' /\ BitmapExact' /\ NoPageTwice'
    BY <1>1, <2>1, <2>6 DEF Offline, BitmapExact, NoPageTwice
  <2>9. CountersAgree'
    <3>1. used_page_count' = Cardinality(Taken')
      BY <2>1, <2>6, FS_EmptySet
    <3>2. free_page_count' + reserved_page_count' + used_page_count' = total_page_count'
      BY <2>1, <2>4, Bounds
    <3> QED BY <2>1, <3>1, <3>2 DEF CountersAgree, Taken, Below
  <2> QED BY <2>7, <2>8, <2>9
<1>2. CASE phase' # "online"
  <2>1. /\ phase' = "panic" /\ phase = "boot" /\ UNCHANGED <<layout, bitmap, counters, owned, ret>>
    BY <1>2 DEF pmm_init, layout, counters
  <2>2. Untouchable' = Untouchable /\ Below' = Below /\ Taken' = Taken
    BY <2>1, LayoutFixed DEF Taken
  <2> QED BY <2>1, <2>2 DEF TypeOK, Offline, BitmapExact, NoPageTwice, CountersAgree,
                            layout, counters, Taken, Below, Untouchable
<1> QED BY <1>1, <1>2

(* pmm_alloc_pages keeps it. *)
LEMMA AllocInv ==
  ASSUME Inv, NEW count \in 0..MaxCount, pmm_alloc_pages(count)
  PROVE  Inv'
<1> USE DEF Inv, SafeInv
<1>1. CASE count = 0 \/ FreeRuns(count) = {}
  <2>1. /\ ret' = 0 /\ UNCHANGED <<phase, layout, bitmap, counters, owned>>
    BY <1>1 DEF pmm_alloc_pages, counters
  <2>3. 0 \in Pages
    BY Bounds DEF Pages
  <2>4. Untouchable' = Untouchable
    BY <2>1, LayoutFixed
  <2> QED BY <2>1, <2>3, <2>4 DEF TypeOK, Offline, BitmapExact, NoPageTwice, CountersAgree,
                            layout, counters, Taken, Below
<1>2. CASE count # 0 /\ FreeRuns(count) # {}
  <2>1. PICK b \in [page : Pages, count : 1..MaxCount] :
           /\ b.count = count /\ b.page + b.count <= total_page_count
           /\ LowPages <= b.page
           /\ Extent(b) \subseteq Below \ bitmap
           /\ bitmap' = bitmap \cup Extent(b)
           /\ owned' = owned \cup {b} /\ ret' = b.page
           /\ free_page_count' = free_page_count - b.count
           /\ used_page_count' = used_page_count + b.count
           /\ UNCHANGED <<phase, layout, reserved_page_count>>
    BY <1>2, AllocStep
  <2>2. phase = "online" /\ phase' = "online"
    BY <2>1 DEF pmm_alloc_pages
  <2>3. Untouchable' = Untouchable /\ Below' = Below
    BY <2>1, LayoutFixed
  <2>4. Taken' = Taken \cup Extent(b)
    BY <2>1 DEF Taken, Extent
  <2>5. bitmap = (Below \cap Untouchable) \cup Taken /\ Usable(boot_info) \subseteq Below
    BY <2>2 DEF BitmapExact
  <2>6. b.count \in Nat /\ b.page \in Pages /\ b.page + b.count <= PhysPages
    BY <2>1, Bounds, PagesAreNat DEF TypeOK
  <2>7. Cardinality(Extent(b)) = b.count /\ IsFiniteSet(Extent(b))
    BY <2>6, ExtentSize
  <2>8. Below \subseteq Pages /\ Taken \subseteq Pages /\ Extent(b) \subseteq Pages
    BY DEF Below, Taken, Extent
  <2>9. Extent(b) \cap Taken = {} /\ Extent(b) \subseteq Below \ bitmap
    BY <2>1, <2>5
  <2>10. free_page_count' = Cardinality(Below' \ bitmap')
    <3>1. Below' \ bitmap' = (Below \ bitmap) \ Extent(b)
      BY <2>1, <2>3
    <3>2. Cardinality((Below \ bitmap) \ Extent(b)) = Cardinality(Below \ bitmap) - b.count
      BY <2>7, <2>8, <2>9, CountPages
    <3>3. free_page_count = Cardinality(Below \ bitmap)
      BY DEF CountersAgree, Below
    <3> QED BY <2>1, <3>1, <3>2, <3>3
  <2>11. used_page_count' = Cardinality(Taken')
    <3>1. Cardinality(Taken \cup Extent(b)) = Cardinality(Taken) + b.count
      BY <2>7, <2>8, <2>9, CountPages
    <3>2. used_page_count = Cardinality(Taken)
      BY DEF CountersAgree, Taken
    <3> QED BY <2>1, <2>4, <3>1, <3>2
  <2>12. free_page_count' \in Nat /\ used_page_count' \in Nat
    BY <2>3, <2>4, <2>8, <2>10, <2>11, PagesFinite
  <2>13. /\ boot_info' = boot_info /\ bitmap_pages' = bitmap_pages
         /\ total_page_count' = total_page_count
    BY <2>1 DEF layout
  <2>14. TypeOK'
    <3>1. bitmap' \subseteq Below'
      BY <2>1, <2>3, <2>9 DEF TypeOK, Below
    <3> QED BY <2>1, <2>2, <2>12, <2>13, <3>1 DEF TypeOK, Below
  <2>15. CountersAgree'
    <3>1. free_page_count' + reserved_page_count' + used_page_count' = total_page_count'
      BY <2>1, <2>6, <2>13 DEF CountersAgree, TypeOK
    <3> QED BY <2>10, <2>11, <3>1 DEF CountersAgree, Taken, Below
  <2>16. BitmapExact' /\ Offline'
    BY <2>1, <2>2, <2>3, <2>4, <2>5, <2>13 DEF BitmapExact, Offline
  <2>17. NoPageTwice'
    <3>1. \A c \in owned : Extent(c) \cap Extent(b) = {}
      BY <2>9 DEF Taken
    <3>2. Extent(b) \subseteq bitmap' \ Untouchable'
      BY <2>1, <2>3, <2>5, <2>9
    <3> QED BY <2>1, <2>3, <2>13, <3>1, <3>2 DEF NoPageTwice, Extent
  <2> QED BY <2>14, <2>15, <2>16, <2>17
<1> QED BY <1>1, <1>2

(* pmm_free_pages keeps it. *)
LEMMA FreeInv ==
  ASSUME Inv, NEW b \in owned, pmm_free_pages(b)
  PROVE  Inv'
<1> USE DEF Inv, SafeInv
<1>1. /\ bitmap' = bitmap \ Extent(b) /\ owned' = owned \ {b}
      /\ b.count \in Nat /\ b.page \in Pages /\ b.page + b.count <= total_page_count
      /\ free_page_count' = free_page_count + b.count
      /\ used_page_count' = IF b.count < used_page_count
                            THEN used_page_count - b.count ELSE 0
      /\ Taken' = Taken \ Extent(b)
      /\ UNCHANGED <<phase, layout, reserved_page_count, ret>>
  BY FreeStep
<1>2. phase = "online"
  BY DEF Offline
<1>3. Untouchable' = Untouchable /\ Below' = Below
  BY <1>1, LayoutFixed
<1>4. /\ boot_info' = boot_info /\ bitmap_pages' = bitmap_pages
      /\ total_page_count' = total_page_count
  BY <1>1 DEF layout
<1>5. /\ Extent(b) \subseteq bitmap \ Untouchable /\ Extent(b) \subseteq Taken
      /\ Below \subseteq Pages /\ Taken \subseteq Pages /\ bitmap \subseteq Below
  BY DEF NoPageTwice, Taken, Below, Extent, TypeOK
<1>6. b.page + b.count <= PhysPages
  BY <1>1, Bounds, PagesAreNat DEF TypeOK
<1>7. Cardinality(Extent(b)) = b.count /\ Extent(b) \subseteq Pages
  BY <1>1, <1>6, ExtentSize DEF Extent
<1>8. free_page_count' = Cardinality(Below' \ bitmap')
  <2>1. Below' \ bitmap' = (Below \ bitmap) \cup Extent(b)
    BY <1>1, <1>3, <1>5
  <2>2. Cardinality((Below \ bitmap) \cup Extent(b)) = Cardinality(Below \ bitmap) + b.count
    <3>1. Extent(b) \cap (Below \ bitmap) = {} /\ Below \ bitmap \subseteq Pages
      BY <1>5
    <3> QED BY <1>7, <3>1, CountPages
  <2> QED BY <1>1, <2>1, <2>2 DEF CountersAgree, Below
<1>9. used_page_count' = Cardinality(Taken') /\ used_page_count' = used_page_count - b.count
  <2>1. Cardinality(Taken \ Extent(b)) = Cardinality(Taken) - b.count
    BY <1>5, <1>7, CountPages
  <2>2. Cardinality(Taken \ Extent(b)) \in Nat
    <3>1. Taken \ Extent(b) \subseteq Pages BY <1>5
    <3> QED BY <3>1, PagesFinite
  <2>3. used_page_count = Cardinality(Taken) /\ used_page_count \in Nat
    BY DEF CountersAgree, Taken, TypeOK
  <2> QED BY <1>1, <2>1, <2>2, <2>3
<1>10. CountersAgree'
  <2>1. free_page_count' + reserved_page_count' + used_page_count' = total_page_count'
    BY <1>1, <1>4, <1>9 DEF CountersAgree, TypeOK
  <2> QED BY <1>8, <1>9, <2>1 DEF CountersAgree, Taken, Below
<1>11. TypeOK'
  <2>1. free_page_count' \in Nat /\ used_page_count' \in Nat
    BY <1>1, <1>9 DEF TypeOK
  <2>2. bitmap' \subseteq Below'
    BY <1>1, <1>3, <1>5
  <2> QED BY <1>1, <1>4, <2>1, <2>2 DEF TypeOK, Below
<1>12. BitmapExact' /\ Offline'
  <2>1. bitmap' = (Below \cap Untouchable) \cup Taken'
    BY <1>1, <1>2, <1>5 DEF BitmapExact
  <2> QED BY <1>1, <1>2, <1>3, <1>4, <2>1 DEF BitmapExact, Offline
<1>13. NoPageTwice'
  <2>1. \A c \in owned : c # b => Extent(c) \cap Extent(b) = {}
    BY DEF NoPageTwice
  <2> QED BY <1>1, <1>3, <1>4, <2>1 DEF NoPageTwice, Extent
<1> QED BY <1>10, <1>11, <1>12, <1>13

(* Every step keeps the invariant. *)
LEMMA NextInv == Inv /\ [Next]_vars => Inv'
<1> SUFFICES ASSUME Inv, [Next]_vars PROVE Inv' OBVIOUS
<1>1. CASE pmm_init
  BY <1>1, PmmInitInv
<1>2. ASSUME NEW count \in 0..MaxCount, pmm_alloc_pages(count) PROVE Inv'
  BY <1>2, AllocInv
<1>3. ASSUME NEW b \in owned, pmm_free_pages(b) PROVE Inv'
  BY <1>3, FreeInv
<1>4. CASE UNCHANGED vars
  <2>1. Untouchable' = Untouchable
    BY <1>4, LayoutFixed DEF vars
  <2> QED BY <1>4, <2>1 DEF vars, layout, counters, Inv, SafeInv, TypeOK, Offline, BitmapExact,
                       NoPageTwice, CountersAgree, Taken, Below
<1> QED BY <1>1, <1>2, <1>3, <1>4 DEF Next

(* The invariant holds in every reachable state. *)
LEMMA InvHolds == Spec => []Inv
  BY InitInv, NextInv, PTL DEF Spec

(* Type correctness of the allocator, whatever the memory map. *)
THEOREM TypeCorrect == Spec => []TypeOK
<1>1. Inv => TypeOK
  BY DEF Inv, SafeInv
<1> QED BY InvHolds, <1>1, PTL

(* No sequence of calls gives a page to two callers or hands out memory    *)
(* that belongs to the kernel, the bitmap, the initramfs or the firmware.  *)
THEOREM NoPageTwiceAlways == Spec => []NoPageTwice
<1>1. Inv => NoPageTwice
  BY DEF Inv, SafeInv
<1> QED BY InvHolds, <1>1, PTL

(* The free, used and reserved counters always add up and match the bitmap. *)
LEMMA CountersAgreeAlways == Spec => []CountersAgree
<1>1. Inv => CountersAgree
  BY DEF Inv
<1> QED BY InvHolds, <1>1, PTL

-----------------------------------------------------------------------------
(* The place of the bitmap *)

(* Rounding up to whole pages leaves a bit for every page. *)
LEMMA RoundUp ==
  ASSUME NEW t \in Nat, NEW B \in Nat, B > 0
  PROVE  /\ (t + B - 1) \div B \in Nat
         /\ ((t + B - 1) \div B) * B >= t
<1> DEFINE x == t + B - 1
           q == x \div B
<1>1. x \in Nat
  OBVIOUS
<1> HIDE DEF x
<1>2. q \in Nat /\ B * q <= x /\ x < B * (q + 1)
  BY <1>1
<1> HIDE DEF q
<1>3. B * (q + 1) = B * q + B /\ B * q \in Int /\ q * B = B * q
  BY <1>2
<1>4. B * q >= t
  BY <1>2, <1>3 DEF x
<1> QED BY <1>2, <1>3, <1>4 DEF q, x

(* Wherever find_bitmap_storage finds room lies in one usable descriptor   *)
(* above the low range.                                                    *)
LEMMA StorageUsable ==
  ASSUME NEW boot \in BootInfos, NEW size \in Nat,
         NEW a \in find_bitmap_storage(boot, size)
  PROVE  LET pages == {p \in Pages : a <= p /\ p < a + size}
         IN  /\ pages \subseteq Usable(boot)
             /\ \A p \in pages : LowPages <= p
             /\ a \in Pages /\ a + size <= PhysPages
<1>1. PICK i \in DOMAIN boot.memory_map : a \in Storage(boot, i, size)
  BY DEF find_bitmap_storage
<1> DEFINE d == boot.memory_map[i]
<1>2. /\ a \in Pages /\ d.start <= a /\ LowPages <= a /\ a + size <= d.start + d.pages
  BY <1>1 DEF Storage
<1>3. /\ boot.memory_map \in Seq([start : Pages, pages : Nat \ {0}])
      /\ d.start + d.pages <= PhysPages
  BY PmmAssumption
<1>4. d.start \in Pages /\ d.pages \in Nat
  <2>1. ASSUME NEW D, NEW m \in Seq(D), NEW k \in DOMAIN m PROVE m[k] \in D
    OBVIOUS
  <2>2. d \in [start : Pages, pages : Nat \ {0}]
    BY <1>3, <2>1
  <2> QED BY <2>2
<1>5. DescriptorPages(d) \subseteq Usable(boot)
  BY DEF Usable
<1> HIDE DEF d
<1>6. ASSUME NEW p \in Pages, a <= p, p < a + size
      PROVE  p \in DescriptorPages(d) /\ LowPages <= p
  BY <1>2, <1>4, <1>6, PagesAreNat, Bounds DEF DescriptorPages
<1>7. a + size <= PhysPages
  BY <1>2, <1>3, <1>4, PagesAreNat, Bounds
<1> QED BY <1>2, <1>5, <1>6, <1>7

(* pmm_init puts the bitmap where BitmapWellPlaced says. *)
LEMMA InitPlaces ==
  ASSUME TypeOK, pmm_init
  PROVE  BitmapWellPlaced'
<1> SUFFICES ASSUME phase' = "online" PROVE BitmapWellPlaced'
  BY DEF BitmapWellPlaced
<1> DEFINE total == MaxPhys(boot_info)
           size == (total + BITS_PER_PAGE - 1) \div BITS_PER_PAGE
<1>1. boot_info \in BootInfos /\ total \in Nat
  BY MaxPhysBounds, Bounds DEF TypeOK
<1>2. size \in Nat /\ size * BITS_PER_PAGE >= total
  BY <1>1, RoundUp, Bounds
<1>3. PICK a \in find_bitmap_storage(boot_info, size) :
        bitmap_pages' = {p \in Pages : a <= p /\ p < a + size}
  BY DEF pmm_init
<1>4. boot_info' = boot_info /\ total_page_count' = total
  BY DEF pmm_init
<1> HIDE DEF size, total
<1>5. /\ bitmap_pages' \subseteq Usable(boot_info)
      /\ \A p \in bitmap_pages' : LowPages <= p
      /\ a \in Pages /\ a + size <= PhysPages
  BY <1>1, <1>2, <1>3, StorageUsable
<1>6. LoaderData(boot_info) \cap Usable(boot_info) = {}
  BY <1>1, PmmAssumption
<1>7. Cardinality(bitmap_pages') = size
  <2> DEFINE b == [page |-> a, count |-> size]
  <2>1. bitmap_pages' = Extent(b)
    BY <1>3 DEF Extent
  <2>2. b.page = a /\ b.count = size
    OBVIOUS
  <2> HIDE DEF b
  <2> QED BY <1>2, <1>5, <2>1, <2>2, ExtentSize
<1>8. bitmap_pages' \cap {p \in Pages : p < LowPages} = {}
  BY <1>5, PagesAreNat, Bounds
<1> QED BY <1>2, <1>4, <1>5, <1>6, <1>7, <1>8 DEF BitmapWellPlaced

(* The bitmap never lies on memory the loader filled, nor in low memory,   *)
(* although find_bitmap_storage compares it with the kernel's range only:  *)
(* the proof needs that the loader's allocations are of another type.      *)
LEMMA BitmapWellPlacedAlways == Spec => []BitmapWellPlaced
<1>1. Init => BitmapWellPlaced
  BY DEF Init, BitmapWellPlaced
<1>2. Inv /\ BitmapWellPlaced /\ [Next]_vars => BitmapWellPlaced'
  <2> SUFFICES ASSUME Inv, BitmapWellPlaced, [Next]_vars PROVE BitmapWellPlaced'
    OBVIOUS
  <2>1. CASE pmm_init
    BY <2>1, InitPlaces DEF Inv, SafeInv
  <2>2. CASE UNCHANGED <<phase, layout>>
    BY <2>2 DEF layout, BitmapWellPlaced
  <2> QED BY <2>1, <2>2 DEF Next, vars, pmm_alloc_pages, pmm_free_pages
<1> QED BY <1>1, <1>2, InvHolds, PTL DEF Spec

(* So the bitmap is safe where pmm_init puts it, and the counters that the *)
(* info system call reports describe it.                                   *)
THEOREM BitmapSoundAlways == Spec => []BitmapSound
<1>1. BitmapWellPlaced /\ CountersAgree => BitmapSound
  BY DEF BitmapSound
<1> QED BY <1>1, BitmapWellPlacedAlways, CountersAgreeAlways, PTL

-----------------------------------------------------------------------------
(* Refinement *)

Pool == IF phase = "online" THEN Usable(boot_info) \ Untouchable ELSE {}

(* The pages an online allocator can still hand out are its clear bits     *)
(* above the low range.                                                    *)
LEMMA PoolIsClear ==
  ASSUME Inv, phase = "online"
  PROVE  Pool \ Taken = Below \ bitmap
<1>1. bitmap = (Below \cap Untouchable) \cup Taken /\ Usable(boot_info) \subseteq Below
  BY DEF Inv, SafeInv, BitmapExact
<1>2. Below \subseteq Pages /\ Pages \ Usable(boot_info) \subseteq Untouchable
  BY DEF Below, Untouchable
<1> QED BY <1>1, <1>2 DEF Pool

(* The scan misses no block: a free block is a run of clear bits. *)
LEMMA AvailableAreRuns ==
  ASSUME Inv, phase = "online", NEW count \in 0..MaxCount, count # 0,
         NEW b \in PA!Available(count)
  PROVE  b.page \in FreeRuns(count)
<1>1. /\ b \in [page : Pages, count : {count}]
      /\ b.page + b.count - 1 \in Pages
      /\ Extent(b) \subseteq Pool \ Taken
  BY DEF PA!Available, PA!Extent, PA!Taken, Extent, Pool, Taken
<1>2. b.page \in Pages /\ b.count = count
  BY <1>1
<1>3. Extent(b) \subseteq Below \ bitmap /\ Extent(b) \subseteq Pool
  BY <1>1, PoolIsClear
<1>4. b.page \in Extent(b) /\ b.page + count - 1 \in Extent(b)
  BY <1>1, <1>2, PagesAreNat, Bounds DEF Extent
<1>5. LowPages <= b.page
  <2>1. b.page \notin Untouchable
    BY <1>3, <1>4 DEF Pool
  <2> QED BY <1>2, <2>1, PagesAreNat, Bounds DEF Untouchable
<1>6. b.page < total_page_count /\ b.page + count - 1 < total_page_count
  BY <1>3, <1>4 DEF Below
<1>7. b.page + count <= total_page_count
  BY <1>2, <1>6, PagesAreNat, Bounds DEF Inv, SafeInv, TypeOK
<1>8. Extent(Block(b.page, count)) = Extent(b)
  BY <1>2 DEF Extent, Block
<1> QED BY <1>2, <1>3, <1>5, <1>6, <1>7, <1>8 DEF FreeRuns, Managed

(* A request is answered as the abstract allocator may answer it. *)
LEMMA AllocRefines ==
  ASSUME Inv, NEW count \in 0..MaxCount, pmm_alloc_pages(count)
  PROVE  PA!Alloc(count)
<1>0. phase = "online" /\ UNCHANGED <<phase, layout>>
  BY DEF pmm_alloc_pages
<1>1. Pool' = Pool
  BY <1>0, LayoutFixed DEF Pool, layout
<1>2. CASE count = 0 \/ FreeRuns(count) = {}
  <2>1. ret' = 0 /\ owned' = owned
    BY <1>2 DEF pmm_alloc_pages
  <2>2. count = 0 \/ PA!Available(count) = {}
    BY <1>0, <1>2, AvailableAreRuns
  <2> QED BY <1>1, <2>1, <2>2 DEF PA!Alloc, Pool
<1>3. CASE count # 0 /\ FreeRuns(count) # {}
  <2>1. PICK b \in [page : Pages, count : 1..MaxCount] :
           /\ b.count = count /\ b.page + b.count <= total_page_count
           /\ LowPages <= b.page
           /\ Extent(b) \subseteq Below \ bitmap
           /\ owned' = owned \cup {b} /\ ret' = b.page
    BY <1>3, AllocStep DEF Inv, SafeInv
  <2>2. Extent(b) \subseteq Pool \ Taken
    BY <1>0, <2>1, PoolIsClear
  <2>3. b \in [page : Pages, count : {count}]
    BY <2>1
  <2>4. b.page + b.count - 1 \in Pages
    BY <1>3, <2>1, Bounds DEF Pages, Inv, SafeInv, TypeOK
  <2>5. b \in PA!Available(count)
    BY <2>2, <2>3, <2>4 DEF PA!Available, PA!Extent, PA!Taken, Extent, Pool, Taken
  <2>6. count > 0
    BY <1>3, Bounds
  <2> QED BY <1>1, <2>1, <2>5, <2>6 DEF PA!Alloc, Pool
<1> QED BY <1>2, <1>3

(* pmm_init makes the pool available in one step. *)
LEMMA InitRefines ==
  ASSUME Inv, pmm_init
  PROVE  PA!Start \/ UNCHANGED PA!vars
<1>1. phase = "boot" /\ Pool = {} /\ owned = {} /\ UNCHANGED <<owned, ret>>
  BY DEF pmm_init, Pool, Inv, SafeInv, Offline
<1>2. CASE phase' = "online"
  <2>1. Pool' \subseteq Pages \ {0}
    <3>1. 0 \notin Pool'
      BY <1>2, Bounds DEF Pool, Untouchable, Usable, DescriptorPages
    <3>2. Pool' \subseteq Pages
      BY <1>2 DEF Pool, Usable, DescriptorPages
    <3> QED BY <3>1, <3>2
  <2> QED BY <1>1, <2>1 DEF PA!Start, Pool
<1>3. CASE phase' # "online"
  BY <1>1, <1>3 DEF PA!vars, Pool
<1> QED BY <1>2, <1>3

(* Every behaviour of pmm.c is one of the abstract page allocator: blocks  *)
(* are disjoint pages of the pool, and a request fails only when no run of *)
(* that many pages is free.                                                *)
THEOREM PmmImplementsPageAllocator == Spec => ImplementsPageAllocator
<1>1. Init => PA!Init
  BY DEF Init, PA!Init
<1>2. Inv /\ [Next]_vars => [PA!Next]_(PA!vars)
  <2> SUFFICES ASSUME Inv, [Next]_vars PROVE [PA!Next]_(PA!vars)
    OBVIOUS
  <2>1. CASE pmm_init
    BY <2>1, InitRefines DEF PA!Next
  <2>2. ASSUME NEW count \in 0..MaxCount, pmm_alloc_pages(count) PROVE PA!Next
    BY <2>2, AllocRefines DEF PA!Next
  <2>3. ASSUME NEW b \in owned, pmm_free_pages(b) PROVE PA!Next
    <3>1. UNCHANGED <<phase, layout, ret>> /\ owned' = owned \ {b}
      BY <2>3 DEF pmm_free_pages
    <3>2. Pool' = Pool
      BY <3>1, LayoutFixed DEF Pool, layout
    <3>3. PA!Free(b)
      BY <3>1, <3>2 DEF PA!Free, Pool
    <3> QED BY <3>3 DEF PA!Next
  <2>4. CASE UNCHANGED vars
    <3>1. Pool' = Pool
      BY <2>4, LayoutFixed DEF Pool, layout, vars
    <3> QED BY <2>4, <3>1 DEF vars, PA!vars, Pool
  <2> QED BY <2>1, <2>2, <2>3, <2>4 DEF Next
<1> QED BY <1>1, <1>2, InvHolds, PTL DEF Spec, PA!Spec, ImplementsPageAllocator
=============================================================================
