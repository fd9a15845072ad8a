----------------------------- MODULE MCProcess -----------------------------
(* Small instances of Process for TLC. *)
EXTENDS Process

(* Success and a negative exit code, which wait and exit widen differently. *)
MCCodes == {0, -1}
=============================================================================
