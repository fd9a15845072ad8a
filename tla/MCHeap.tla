------------------------------- MODULE MCHeap -------------------------------
(***************************************************************************)
(* Instances of Heap and the Pmm below it: every placement of a one-page   *)
(* kernel, initramfs and boot info among usable and firmware pages, with   *)
(* the usable runs between them listed upwards or downwards.  One layout   *)
(* has no room for a bitmap.  The heap is used after the boots that leave  *)
(* three pages free.                                                       *)
(***************************************************************************)
EXTENDS Heap, SequencesExt

TopPage == PhysPages - 1

(* The maximal runs of a set of pages, as descriptors. *)
Runs(pages) ==
  {[start |-> p, pages |-> CHOOSE n \in 1..PhysPages :
      /\ p..(p + n - 1) \subseteq pages /\ p + n \notin pages] :
   p \in {q \in pages : q - 1 \notin pages}}

Upwards(pages) == SetToSortSeq(Runs(pages), LAMBDA c, d : c.start < d.start)

MCBootInfos ==
  {[memory_map |-> IF up THEN Upwards(usable) ELSE Reverse(Upwards(usable)),
    kernel |-> {k}, initramfs |-> {i}, boot_info |-> {b}] :
     <<up, usable, k, i, b>> \in
       {<<up, 0..TopPage \ ({k, i, b} \cup f), k, i, b>> :
          up \in BOOLEAN, k \in {2, 5}, i \in {3, 4, 6}, b \in {1, 7},
          f \in {{}, {8}, {TopPage}, {5, 7, TopPage}}}}

MCHeapBoots ==
  {boot \in MCBootInfos : boot.kernel = {2} /\ boot.initramfs = {3} /\ boot.boot_info = {1}
     /\ Usable(boot) = 0..TopPage \ {1, 2, 3, TopPage} /\ boot.memory_map = Upwards(Usable(boot))}
=============================================================================
