------------------------------- MODULE MCDesktop -------------------------------
(* Successive launches of the desktop application. *)
EXTENDS Desktop
=============================================================================
