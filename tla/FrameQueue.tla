----------------------------- MODULE FrameQueue -----------------------------
(***************************************************************************)
(* What a program may rely on about received frames: they come in the      *)
(* order of their arrival, each at most once and unaltered, cut off at the *)
(* end of the program's buffer.  A frame may be lost at the moment a       *)
(* program takes it, when the copy to the program fails.  A frame longer   *)
(* than MaxLen ends the promise when it reaches the head of the queue.     *)
(***************************************************************************)
EXTENDS Naturals, Sequences

CONSTANTS
    Arrivals,   \* the frames that can arrive, as sequences of units
    MaxLen,     \* the longest frame that can be delivered
    Caps        \* the sizes of the programs' buffers

VARIABLES
    queue,      \* the frames that have arrived and were not taken yet
    out,        \* what the last call delivered, <<>> if nothing
    over        \* an overlong frame was met

vars == <<queue, out, over>>

Init == queue = <<>> /\ out = <<>> /\ over = FALSE

Arrive ==
    /\ ~over
    /\ \E f \in Arrivals : queue' = Append(queue, f)
    /\ UNCHANGED <<out, over>>

\* The caller takes what was delivered.
Forget == out' = <<>> /\ UNCHANGED <<queue, over>>

Cut(f, cap) == IF Len(f) > cap THEN SubSeq(f, 1, cap) ELSE f

Receive ==
    /\ queue # <<>> /\ Len(Head(queue)) <= MaxLen
    /\ \E cap \in Caps : out' \in {<<>>, Cut(Head(queue), cap)}
    /\ queue' = Tail(queue)
    /\ UNCHANGED over

Overlong ==
    /\ queue # <<>> /\ Len(Head(queue)) > MaxLen
    /\ over' = TRUE /\ queue' = <<>> /\ out' = <<>>

Next == Arrive \/ Forget \/ Receive \/ Overlong

Spec == Init /\ [][Next]_vars

=============================================================================
