-------------------------- MODULE MCTransportSession --------------------------
(***************************************************************************)
(* TransportSession for TLC: the constants of the small instances.         *)
(***************************************************************************)
EXTENDS TransportSession

CONSTANT a1

OneAccount == {a1}

=============================================================================
