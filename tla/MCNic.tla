------------------------------- MODULE MCNic -------------------------------
(* Nic with a ring of five pages of two units.  A frame of one unit takes a   *)
(* page, one of two or three takes two, one of five is overlong and takes     *)
(* three; buffers of two units cut frames off.                                *)
EXTENDS Nic

\* Many frames come in, or a few while the transmitter is used as well.
MCTraffic == {[arrivals |-> 5, sends |-> FALSE], [arrivals |-> 1, sends |-> TRUE]}

MCTxFrames == {[id |-> 1, len |-> 1], [id |-> 2, len |-> 3]}
=============================================================================
