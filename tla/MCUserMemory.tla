---------------------------- MODULE MCUserMemory ----------------------------
(* UserMemory and Modules with tables of twenty entries and two levels: slot 0 of a root *)
(* is the kernel's, slot 1 holds code and stack, slot 2 the allocations.     *)
EXTENDS Modules, TLC

Symmetry == Permutations(Procs)

MCPages == 0..16

\* An ELF image whose code and data share a page, which the second segment
\* then makes writable; an Ore image with text and data, the same with a bad
\* relocation, and one that is refused at once.
Elf == [ore |-> FALSE, fault |-> "none",
        segs |-> <<[va |-> 20, pages |-> 2, flags |-> {"U"}],
                   [va |-> 21, pages |-> 2, flags |-> {"U", "W"}]>>]
Ore == [ore |-> TRUE, fault |-> "none",
        segs |-> <<[va |-> 20, pages |-> 1, flags |-> {"U"}],
                   [va |-> 21, pages |-> 1, flags |-> {"U", "W", "NX"}]>>]
MCImages == {Elf, Ore, [Ore EXCEPT !.fault = "reloc"], [Elf EXCEPT !.fault = "header"]}

\* Modules of one page of text, of two with data, and one whose init fails.
Module(name, text, command, data, rc) ==
    [name |-> name, header |-> TRUE, short |-> FALSE, text |-> text, entry |-> 0, command |-> command,
     data |-> data, bss |-> 0, rc |-> rc]

Small == Module("small", 1, NoEntry, 0, 0)
Huge == Module("huge", 15, 1, 1, 0)
Large == Module("large", 3, 2, 1, 0)
Fails == Module("fails", 1, 0, 1, -1)
Damaged == [Module("damaged", 1, 0, 0, 0) EXCEPT !.header = FALSE]
Short == [Module("short", 1, 0, 0, 0) EXCEPT !.short = TRUE]

MCBoots ==
    {[dir |-> <<>>, procs |-> 3],
     [dir |-> <<Damaged, Fails, Small, Large>>, procs |-> 1],
     [dir |-> <<Large, Fails, Short, Large>>, procs |-> 1],
     [dir |-> <<Huge, Huge, Small, Small, Small>>, procs |-> 0]}
=============================================================================
