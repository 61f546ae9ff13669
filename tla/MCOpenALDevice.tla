---------------------------- MODULE MCOpenALDevice ----------------------------
(* Small instances of OpenALDevice for TLC. *)
EXTENDS OpenALDevice, TLC

CONSTANTS short, long

MCLength == (short :> 1) @@ (long :> 4)
=============================================================================
