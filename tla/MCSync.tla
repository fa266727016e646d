------------------------------- MODULE MCSync -------------------------------
(***************************************************************************)
(* One space: its genesis, the initial grant, a record authored under the  *)
(* grant and two concurrent edits of that record.                          *)
(***************************************************************************)
EXTENDS Sync, TLC

CONSTANTS s

MCOps == {"genesis", "grant", "record", "edit", "fork"}
MCSchema == [o \in MCOps |-> CASE o = "genesis" -> "space.genesis"
                               [] o = "grant" -> "capability.grant"
                               [] OTHER -> "record"]
MCTombstone == [o \in MCOps |-> FALSE]
MCSpaceOf == [o \in MCOps |-> s]
MCEntities == {"space", "capability", "note"}
MCEntityOf == [o \in MCOps |-> CASE o = "genesis" -> "space"
                                 [] o = "grant" -> "capability"
                                 [] OTHER -> "note"]
MCParents == [o \in MCOps |-> IF o \in {"edit", "fork"} THEN {"record"} ELSE {}]
MCAuthorization == [o \in MCOps |-> CASE o = "genesis" -> {}
                                      [] o = "grant" -> {"genesis"}
                                      [] OTHER -> {"grant"}]

MCNoAnchors == {}
MCAnchors == {<<"genesis", "grant">>}
PairedRow == [known |-> TRUE, enabled |-> TRUE, push |-> TRUE, credential |-> TRUE]
DormantRow == [known |-> TRUE, enabled |-> FALSE, push |-> FALSE, credential |-> FALSE]
SupervisedRow == [known |-> TRUE, enabled |-> TRUE, push |-> TRUE, credential |-> FALSE]
MCPaired == {DormantRow, PairedRow}
MCSupervised == {SupervisedRow}
MCNoRefusals == {}

Symmetry == Permutations(LeaseIds) \cup Permutations(Peers) \cup Permutations(Workers)
=============================================================================
