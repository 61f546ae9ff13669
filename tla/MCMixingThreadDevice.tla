------------------------- MODULE MCMixingThreadDevice -------------------------
(* Small instances of MixingThreadDevice for TLC. *)
EXTENDS MixingThreadDevice
=============================================================================
