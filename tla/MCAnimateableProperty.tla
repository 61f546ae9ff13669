------------------------- MODULE MCAnimateableProperty -------------------------
(* Small instances of AnimateableProperty for TLC. *)
EXTENDS AnimateableProperty
=============================================================================
