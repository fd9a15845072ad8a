---------------------------- MODULE AddressSpaces ----------------------------
(***************************************************************************)
(* What a process may rely on about its memory.  The kernel's part of      *)
(* every address space is the same and, once there is a process, never     *)
(* changes.  The rest belongs to                                           *)
(* one process: its pages are in no other space and nobody else's          *)
(* operation changes them; a mapping, once made, stays where it is with    *)
(* the same flags until the process gives it up.                           *)
(***************************************************************************)
EXTENDS Naturals

CONSTANTS
    Procs,       \* the processes
    KernelLimit  \* the first address of the processes' own part

VARIABLES
    exists,      \* the processes that have an address space
    kernel,      \* the kernel's part: a set of [va, page, flags]
    spaces       \* the address spaces: a set of [proc, map], map as in kernel

vars == <<exists, kernel, spaces>>

Shared(ss, p) == {e.map : e \in {f \in ss : f.proc = p /\ f.map.va < KernelLimit}}

Own(ss) == {e \in ss : e.map.va >= KernelLimit}

KernelOnly(k) == \A e \in k : e.va < KernelLimit /\ "U" \notin e.flags

Init == exists = {} /\ spaces = {} /\ KernelOnly(kernel)

\* The kernel arranges its own part while there is no process: permissions
\* change, translations do not.
Boot ==
    /\ exists = {} /\ exists' = {} /\ spaces' = {}
    /\ KernelOnly(kernel')
    /\ {<<e.va, e.page>> : e \in kernel'} = {<<e.va, e.page>> : e \in kernel}

\* The address spaces change from old to new by what p does to its own part.
Step(p, k, old, new) ==
    /\ Shared(new, p) = k
    /\ {e \in old : e.proc # p} = {e \in new : e.proc # p}
    /\ \A e, f \in Own(new) : e.map.page = f.map.page => e = f
    /\ \A e \in Own(new) : "U" \in e.map.flags
    /\ \A e \in Own(new) \ old : \A f \in Own(old) :
          e.map.page # f.map.page /\ ~(e.proc = f.proc /\ e.map.va = f.map.va)

Change ==
    \E k \in {kernel}, old \in {spaces}, new \in {spaces'} :
        /\ kernel' = k
        /\ \E p \in Procs : exists' = exists \cup {p} /\ Step(p, k, old, new)

Next == Boot \/ Change

Spec == Init /\ [][Next]_vars

=============================================================================
