--------------------------- MODULE PageAllocator ---------------------------
(***************************************************************************)
(* What the rest of the kernel relies on when it asks for physical pages:  *)
(* a block of consecutive pages that nobody else has, or a null pointer,   *)
(* and the latter only when no such block is left.  Which block is chosen  *)
(* is left open.                                                           *)
(***************************************************************************)
EXTENDS Integers

CONSTANTS
  Pages,   \* page numbers of the machine
  Counts   \* numbers of pages a caller may ask for

VARIABLES
  pool,    \* the pages the allocator manages; none before it is initialised
  owned,   \* blocks handed out and not given back: [page, count]
  ret      \* first page of the last answer, 0 for a null pointer

vars == <<pool, owned, ret>>

Extent(b) == {p \in Pages : b.page <= p /\ p < b.page + b.count}

Taken == UNION {Extent(b) : b \in owned}

(* The blocks of count pages that are entirely free. *)
Available(count) ==
  {b \in [page : Pages, count : {count}] :
     /\ b.page + b.count - 1 \in Pages
     /\ Extent(b) \subseteq pool \ Taken}

Init == pool = {} /\ owned = {} /\ ret = 0

Start ==
  /\ pool = {} /\ owned = {}
  /\ pool' \in SUBSET (Pages \ {0})
  /\ UNCHANGED <<owned, ret>>

Alloc(count) ==
  /\ UNCHANGED pool
  /\ \/ /\ count > 0
        /\ \E b \in Available(count) : owned' = owned \cup {b} /\ ret' = b.page
     \/ /\ count = 0 \/ Available(count) = {}
        /\ ret' = 0
        /\ UNCHANGED owned

Free(b) ==
  /\ owned' = owned \ {b}
  /\ UNCHANGED <<pool, ret>>

Next ==
  \/ Start
  \/ \E count \in Counts : Alloc(count)
  \/ \E b \in owned : Free(b)

Spec == Init /\ [][Next]_vars
=============================================================================
