------------------------------ MODULE MCPairing ------------------------------
(***************************************************************************)
(* Small instances of Pairing.                                             *)
(***************************************************************************)
EXTENDS Pairing

\* Wall clocks of guests: off by the tolerated skew, and by more.
WallClocks == {-1, 2}

\* The host's wall clock is set back or forward while it waits.
Corrections == {-2, 1}
=============================================================================
