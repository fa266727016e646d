------------------------------- MODULE MCPairing -------------------------------
(***************************************************************************)
(* Pairing with one invitation and two joiners that both hold it.          *)
(***************************************************************************)
EXTENDS Pairing

CONSTANTS i1, c1, c2, h1, h2

SameInvitation == [c \in Claims |-> i1]
===============================================================================
