-------------------------- MODULE MCResourceTransfers --------------------------
(***************************************************************************)
(* Model values for ResourceTransfers.                                     *)
(***************************************************************************)
EXTENDS ResourceTransfers

CONSTANTS c1, p1, p2

UploadIds == 1..4

===============================================================================
