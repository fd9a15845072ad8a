------------------------------ MODULE MCFiles ------------------------------
(* Sectors and blocks of two bytes: files that are empty, end within a      *)
(* sector, at its end and in the third one; the last one ends the disk.     *)
EXTENDS Files

F(name, size) == [name |-> name, size |-> size, dir |-> FALSE]

MCTarFiles == <<[name |-> <<"bin">>, size |-> 0, dir |-> TRUE], F(<<"bin", "ls">>, 3),
                F(<<"init">>, 2), F(<<"bin", "cat">>, 0), F(<<"late">>, 1)>>

MCDiskFiles == <<F(<<"ex", "a">>, 5), F(<<"b">>, 0), F(<<"ex", "c">>, 4)>>

\* A blank disk, and one with more entries than the table has room for.
MCOtherDisks == {[k \in 1..4 |-> <<"pad">>], mkorefs(MCDiskFiles \o <<F(<<"d">>, 1)>>)}

MCPaths == {<<"bin", "ls">>, <<"/", "disk", "ex", "a">>, <<"/", "disk", "ex", "c">>,
            <<"/", "disk", "ex">>, <<"disk", "b">>}

\* At most two handles are open at a time: both of one process, or one each.
FewOpen == Cardinality({<<p, h>> \in Procs \X (1..ORE_MAX_HANDLES - 1) : handles[p][h].type # 0}) <= 2

\* The processes are alike.
Alike == Permutations(Procs)

=============================================================================
