---------------------------- MODULE OperationGraph ----------------------------
(***************************************************************************)
(* The immutable signed operations of the causal log, and the two checks   *)
(* that a client store and a node run on an incoming operation against the *)
(* operations they already hold.  An operation is a member of Ops; what    *)
(* its signed envelope says is given by functions on Ops.                  *)
(***************************************************************************)
EXTENDS Integers, FiniteSets

CONSTANTS
    Ops,            \* operation ids (digests of the signed envelopes)
    Spaces,         \* space ids
    Entities,       \* entity ids
    Schema,         \* the entity schema of an operation
    IsTombstone,    \* whether its body is OperationBody::Tombstone
    SpaceOf,        \* the space it belongs to
    EntityOf,       \* the entity it is about
    Parents,        \* causal_parents
    Authorization,  \* the capability operations it cites
    MaxHeads        \* MAX_ENTITY_HEADS / MAX_CAUSAL_PARENTS

ClientSchemas == {"record", "event", "tag", "profile"}
Schemas == ClientSchemas \cup
               {"space.genesis", "capability.grant", "capability.revoke"}

ASSUME GraphAssumption ==
    /\ IsFiniteSet(Ops)
    /\ Schema \in [Ops -> Schemas]
    /\ IsTombstone \in [Ops -> BOOLEAN]
    /\ SpaceOf \in [Ops -> Spaces]
    /\ EntityOf \in [Ops -> Entities]
    /\ Parents \in [Ops -> SUBSET Ops]
    /\ Authorization \in [Ops -> SUBSET Ops]
    /\ MaxHeads \in Nat \ {0}

(* What an operation refers to; the store holds it only if it holds these. *)
Refs(o) == Parents[o] \cup Authorization[o]

SameEntity(o, q) == SpaceOf[o] = SpaceOf[q] /\ EntityOf[o] = EntityOf[q]

IsGenesis(o) == Schema[o] = "space.genesis"

(* OperationBody::validate_for: exactly a genesis cites no authorization,  *)
(* and a genesis has no parents.                                           *)
ASSUME GenesisIsRoot ==
    \A o \in Ops :
        /\ IsGenesis(o) <=> Authorization[o] = {}
        /\ IsGenesis(o) => Parents[o] = {}

(***************************************************************************)
(* validate_topology against the stored operations S and the head rows H.  *)
(***************************************************************************)
ValidTopology(o, S, H) ==
    LET history == {q \in S : SameEntity(o, q)}
        heads   == {q \in H : SameEntity(o, q)}
    IN  /\ \A q \in Parents[o] : EntityOf[q] = EntityOf[o] /\ Schema[q] = Schema[o]
        /\ history # {} => heads # {} /\ Parents[o] # {}
        /\ history = {} => ~IsTombstone[o]
        /\ Cardinality(heads) - Cardinality(Parents[o] \cap H) + 1 <= MaxHeads

NextHeads_KeepParents(o, H) == H \cup {o}     \* mutant: superseded heads stay

(* insert_graph: the parents stop being heads and the operation is one.    *)
NextHeads(o, H) == (H \ Parents[o]) \cup {o}

(* The operations of S that no operation of S supersedes.                  *)
MaximalOf(S) == {o \in S : \A q \in S : o \notin Parents[q]}
===============================================================================
