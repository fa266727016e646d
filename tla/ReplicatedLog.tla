---------------------------- MODULE ReplicatedLog ----------------------------
(***************************************************************************)
(* What the client and its nodes promise together: every replica holds a   *)
(* grow-only, causally closed set of immutable operations.  An operation   *)
(* enters the system at a replica that may originate it, and reaches any   *)
(* other replica only as a copy from a replica that holds it.              *)
(***************************************************************************)
CONSTANTS
    Replicas,
    Ops,
    Needs,       \* what an operation refers to
    Origin      \* the operations that may enter the system at a replica

VARIABLE have

(* Every replica holds operations of the graph.                            *)
TypeOK == have \in [Replicas -> SUBSET Ops]

Init == have = [r \in Replicas |-> {}]

Gain(r, D) ==
    /\ \A o \in D : Needs[o] \subseteq have[r] \cup D
    /\ have' = [have EXCEPT ![r] = @ \cup D]

(* New operations enter the system at r.                                   *)
Originate(r) == \E D \in SUBSET Origin[r] : Gain(r, D)

(* One operation is copied from q to r.                                    *)
Copy(r, q) == \E o \in have[q] : Gain(r, {o})

Next == \E r \in Replicas : Originate(r) \/ \E q \in Replicas : Copy(r, q)

Spec == Init /\ [][Next]_have

Closed == \A r \in Replicas : \A o \in have[r] : Needs[o] \subseteq have[r]
==============================================================================
