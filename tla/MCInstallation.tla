---------------------------- MODULE MCInstallation ----------------------------
(* Two nodes and one direct caller of the key store on one data directory. *)
EXTENDS Installation

MCKeys == <<"node-transport", "space-controller">>
=============================================================================
