--------------------------- MODULE MCThreadedDevice ---------------------------
(* Small instances of ThreadedDevice for TLC. *)
EXTENDS ThreadedDevice
=============================================================================
