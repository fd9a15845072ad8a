-------------------------------- MODULE MCSmp --------------------------------
(* Smp on machines with up to five MADT entries, any of them disabled, any   *)
(* enabled one the boot CPU, and room for four CPUs in the table.            *)
EXTENDS Smp

MCApics == 0..4
MCMadts == {[k \in 1..5 |-> [apic |-> k - 1, enabled |-> e[k]]] : e \in [1..5 -> BOOLEAN]}
=============================================================================
