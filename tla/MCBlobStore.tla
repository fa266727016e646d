------------------------------ MODULE MCBlobStore ------------------------------
(* Two uploads, which may carry the same content, declare its digest or    *)
(* declare another.  The faults of a run are an error and a crash, a loss  *)
(* of power, or a crash and a change from outside.                         *)
EXTENDS BlobStore

CONSTANTS u1, u2

TwoUploads == {u1, u2}
SomeContents == {<<>>, <<0>>, <<0, 0>>, <<0, 1>>}
SomeDigests == {<<0>>, <<0, 1>>}
Budget(e, c, l, t) == [errors |-> e, crashes |-> c, losses |-> l, tampers |-> t]
SeparateFaults == {Budget(1, 1, 0, 0), Budget(0, 0, 1, 0), Budget(0, 1, 0, 1)}
===============================================================================
