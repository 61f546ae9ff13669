--------------------------- MODULE MCSoftwareDevice ---------------------------
(* Small instances of SoftwareDevice for TLC. *)
EXTENDS SoftwareDevice, TLC

CONSTANTS h1, h2, c1, c2

\* h1 fills one buffer and a half; h2 ends within a buffer.
MCSoundLength == (h1 :> 3) @@ (h2 :> 1)

\* Loop for ever, and loop once more.
MCForeverLoops == {-1, 1}
=============================================================================
