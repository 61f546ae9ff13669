--------------------------- MODULE MCSequenceReader ---------------------------
(* Small instances of SequenceReader for TLC. *)
EXTENDS SequenceReader, TLC

CONSTANTS short, long, broken

MCLength == (short :> 1) @@ (long :> 9) @@ (broken :> 0)

MCPlaces == {[begin |-> 0, end |-> 1, skip |-> 1], [begin |-> 1, end |-> 2, skip |-> 0],
             [begin |-> 3, end |-> 3, skip |-> 0]}
=============================================================================
