---------------------------- MODULE MCDynamicMusic ----------------------------
(* Small instances of DynamicMusic for TLC. *)
EXTENDS DynamicMusic, TLC

OneTransition == {<<1, 2>>}
=============================================================================
