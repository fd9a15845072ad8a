------------------------------ MODULE Cursors ------------------------------
(***************************************************************************)
(* What file handles promise a process: a handle of a file is a cursor on  *)
(* the file's bytes, its own and nobody else's.  A read delivers the bytes *)
(* behind the cursor and moves it past them; it delivers none only at the  *)
(* end of the file or when none are asked for.  A call that fails delivers *)
(* nothing and moves nothing.                                              *)
(***************************************************************************)
EXTENDS Integers, Sequences

CONSTANTS Procs, Handles,
          Contents   \* the bytes of every file

VARIABLES
    cursor,      \* the cursors of every process: <<>> or <<[file, at]>>
    delivered    \* what the last read delivered

Init == cursor = [p \in Procs |-> [h \in Handles |-> <<>>]] /\ delivered = <<>>

Move(p, h, c) == cursor' = [cursor EXCEPT ![p][h] = c]

\* A handle that is in use is never given out again.
Open(p, h, f) ==
    /\ cursor[p][h] = <<>>
    /\ Move(p, h, <<[file |-> f, at |-> 0]>>)
    /\ delivered' = <<>>

Close(p, h) == cursor[p][h] # <<>> /\ Move(p, h, <<>>) /\ delivered' = <<>>

Read(p, h, n) ==
    \E c \in {cursor[p][h][k] : k \in DOMAIN cursor[p][h]} :
        /\ c.at + n <= Len(Contents[c.file])
        /\ delivered' = SubSeq(Contents[c.file], c.at + 1, c.at + n)
        /\ Move(p, h, <<[c EXCEPT !.at = @ + n]>>)

\* The end of the file.
ReadNothing(p, h) ==
    /\ \E k \in DOMAIN cursor[p][h] : cursor[p][h][k].at = Len(Contents[cursor[p][h][k].file])
    /\ delivered' = <<<<"end">>>>
    /\ UNCHANGED cursor

Fail == delivered' = <<>> /\ UNCHANGED cursor

Next ==
    \/ Fail
    \/ \E p \in Procs, h \in Handles :
        \/ \E f \in DOMAIN Contents : Open(p, h, f)
        \/ Close(p, h)
        \/ \E n \in 1..Len(delivered') : Read(p, h, n)
        \/ ReadNothing(p, h)

Spec == Init /\ [][Next]_<<cursor, delivered>>

=============================================================================
