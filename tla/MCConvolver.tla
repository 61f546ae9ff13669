----------------------------- MODULE MCConvolver -----------------------------
(* Small instances of Convolver for TLC. *)
EXTENDS Convolver
=============================================================================
