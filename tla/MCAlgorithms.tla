------------------------------ MODULE MCAlgorithms ------------------------------
(***************************************************************************)
(* The pure parts of the system, each as a machine of its own: the Saros   *)
(* clock, octal addresses, the geometry asset, signed operations as bytes  *)
(* and inventories.  They share nothing; a behaviour runs one of them      *)
(* while the others stay in an initial state.                              *)
(***************************************************************************)
EXTENDS SarosClock, TLC

CONSTANTS
    WordBits, Widths, Slices,
    Assets, Included, Series, ByteBits, TableBytes, CountBits, PointBits, MAX_PATH_POINTS,
    INLINE, MAX_CANONICAL_BYTES, MAX_CANONICAL_DEPTH, MAX_CANONICAL_CONTAINER_ITEMS,
    MaxSigned, Drafts, Alphabet, MaxFed, EnvelopeSlack, MAX_REFERENCES,
    KeyBits, DigitBits, BUCKET_CAPACITY, Objects, Replicas

VARIABLES
    machine,        \* the machine that runs
    address, stage, repeated, remaining, suffix, rarity,
    asset, state, request, position, polygons, answer,
    fed, progress, draft, signed, ledger, wire, damaged, received, verified,
    entries, conflict

Address == INSTANCE OctalAddress
Geometry == INSTANCE GeometryAsset
Signed == INSTANCE SignedOperations WITH stage <- progress
Inventories == INSTANCE Inventory

addressVars == <<address, stage, repeated, remaining, suffix, rarity>>
geometryVars == <<asset, state, request, position, polygons, answer>>
signedVars == <<fed, progress, draft, signed, ledger, wire, damaged, received, verified>>
inventoryVars == <<entries, conflict>>
allVars == <<machine, vars, addressVars, geometryVars, signedVars, inventoryVars>>

(* An asset of two sections with one and two records.                      *)
RecordOf(points) == [head |-> 1, ok |-> TRUE, points |-> points]
MCAsset ==
    [length |-> 9,
     directory |-> <<[saros |-> 1, count |-> 1, offset |-> 0],
                     [saros |-> 2, count |-> 2, offset |-> 8]>>,
     word |-> [b \in 0..10 |-> CASE b = 1 -> 3 [] b = 5 -> 1 [] b = 6 -> 3 [] OTHER -> 0],
     record |-> [b \in 0..22 |-> CASE b = 4 -> RecordOf(<<1>>) [] b = 15 -> RecordOf(<<0>>)
                                   [] OTHER -> RecordOf(<<>>)],
     coverage |-> [eclipses |-> 3, points |-> 1]]
(* One whose first record has more points than a path may have.            *)
MCLarge ==
    [length |-> 10,
     directory |-> <<[saros |-> 1, count |-> 1, offset |-> 0],
                     [saros |-> 2, count |-> 2, offset |-> 10]>>,
     word |-> [b \in 0..10 |-> CASE b = 1 -> 5 [] b = 6 -> 1 [] b = 7 -> 3 [] OTHER -> 0],
     record |-> [b \in 0..22 |-> CASE b = 4 -> RecordOf(<<1, 1>>) [] b = 17 -> RecordOf(<<0>>)
                                   [] OTHER -> RecordOf(<<>>)],
     coverage |-> [eclipses |-> 3, points |-> 2]]
Machines == {"clock", "address", "geometry", "signed", "inventory"}
OneOf(S) == CHOOSE x \in S : TRUE

AllInit ==
    /\ machine \in Machines
    /\ Init /\ (machine # "clock" => /\ series = OneOf(Catalogues) /\ at = OneOf(Instants)
                                     /\ bits = OneOf(Precisions))
    /\ Address!Init /\ (machine # "address" => address.digits = OneOf(Widths))
    /\ IF machine = "geometry" THEN Geometry!Init
       ELSE /\ asset = MCAsset /\ state = "closed" /\ request = None
            /\ position = 0 /\ polygons = <<>> /\ answer = None
    /\ Signed!Init
    /\ Inventories!Init

ClockStep(A) ==
    machine = "clock" /\ A /\ UNCHANGED <<machine, addressVars, geometryVars, signedVars, inventoryVars>>

AllNext ==
    \/ ClockStep(Next)
    \/ /\ machine = "address" /\ Address!Next
       /\ UNCHANGED <<machine, vars, geometryVars, signedVars, inventoryVars>>
    \/ /\ machine = "geometry" /\ Geometry!Next
       /\ UNCHANGED <<machine, vars, addressVars, signedVars, inventoryVars>>
    \/ /\ machine = "signed" /\ Signed!Next
       /\ UNCHANGED <<machine, vars, addressVars, geometryVars, inventoryVars>>
    \/ /\ machine = "inventory" /\ Inventories!Next
       /\ UNCHANGED <<machine, vars, addressVars, geometryVars, signedVars>>

(* The loops of a reading are run to their end by the caller.              *)
AllSpec ==
    /\ AllInit /\ [][AllNext]_allVars
    /\ WF_allVars(ClockStep(Start \/ Bisect \/ Phase \/ Euclid \/ Reduce \/ NextBit \/ Finish))
-------------------------------------------------------------------------------
(* OctalAddress: both classifications, the recurrence of a rarity and all  *)
(* views of a phase agree.                                                 *)
AddressesAgree == machine = "address" => Address!AddressesAgree

(* GeometryAsset: a lookup finds and a scan reads exactly the record asked *)
(* for.                                                                    *)
ReadsAreExact == machine = "geometry" => Geometry!ReadsAreExact

(* SignedOperations: an operation has one form, and what verifies is what  *)
(* was signed.                                                             *)
OperationIsAsSigned == machine = "signed" => Signed!OperationIsAsSigned

(* Inventory: digests tell entries apart and lead to all differences.      *)
DigestsTellDifferences == machine = "inventory" => Inventories!DigestsTellDifferences

(* SarosClock: every reading ends, and in a series whose eclipses are in   *)
(* order a reader that sleeps until the announced flip sees a later one.   *)
ReadingsGoOn == machine = "clock" => ReadingEnds /\ []ReadingsAdvance
-------------------------------------------------------------------------------
(* Series of one, of two and of five eclipses, the last in any order.      *)
MCCatalogues ==
    {[last |-> 0, time |-> (0 :> 1)]}
    \cup {[last |-> 1, time |-> (0 :> a @@ 1 :> b)] : a \in {-1, 0}, b \in {0, 3}}
    \cup {[last |-> 4, time |-> (0 :> -1 @@ 1 :> a @@ 2 :> b @@ 3 :> c @@ 4 :> 6)] :
            a, b, c \in 0..4}
MCInstants == [s : -2..6, n : 0..2]

(* All assets that differ from the first in at most two fields, and the    *)
(* second.                                                                 *)
Firsts == {4, 14, 15, 16}
Changed(a) ==
    {[a EXCEPT !.directory[i].saros = v] : i \in 1..2, v \in 0..3}
    \cup {[a EXCEPT !.directory[i].count = v] : i \in 1..2, v \in 0..3}
    \cup {[a EXCEPT !.directory[i].offset = v] : i \in 1..2, v \in {0, 2, 6, 8, 10, 18}}
    \cup {[a EXCEPT !.word[b] = v] : b \in {0, 1, 4, 5, 6}, v \in 0..4}
    \cup {[a EXCEPT !.length = v] : v \in 4..10}
    \cup {[a EXCEPT !.record[b].points = p] :
            b \in Firsts, p \in {<<>>, <<0>>, <<1>>, <<2>>, <<0, 0>>, <<1, 1>>}}
    \cup {[a EXCEPT !.record[b].head = h] : b \in Firsts, h \in {1, 3}}
    \cup {[a EXCEPT !.record[b].ok = FALSE] : b \in Firsts}
    \cup {[a EXCEPT !.coverage = c] : c \in [eclipses : 2..4, points : {0, 1, 3}]}
MCAssets == UNION {Changed(a) : a \in Changed(MCAsset)} \cup {MCLarge}

(* Bodies of every kind, nested, unsorted, with equal keys, too deep and   *)
(* too long; digest lists in any order, with duplicates and too long.      *)
Unsigned(n) == <<"uint", n>>
Integer(n) == <<"int", n>>
MCBodies ==
    {<<"simple", 2>>, Integer(-1), Integer(3), Unsigned(70), <<"float", 64>>, <<"float", 65>>,
     <<"float", 64 * 63>>, <<"bytes", <<1>>>>, <<"text", <<2>>>>,
     <<"bytes", [i \in 1..12 |-> 1]>>,
     <<"array", <<Unsigned(1), <<"array", <<>>>> >> >>,
     <<"array", << <<"array", << <<"array", <<>>>> >> >> >> >>,
     <<"map", << <<Unsigned(6), Unsigned(0)>>, <<Integer(1), <<"simple", 0>> >> >> >>,
     <<"map", << <<Unsigned(1), Unsigned(0)>>, <<Integer(1), <<"simple", 0>> >> >> >>}
MCDrafts ==
    [actor : {1}, parents : {<<1>>}, authorization : {<<>>}, occurred : {0}, body : MCBodies]
    \cup [actor : {1}, parents : {<<>>, <<1, 2>>, <<2, 1>>, <<1, 1>>, <<1, 2, 0>>},
          authorization : {<<>>, <<2, 0>>}, occurred : {-1, 0, 7, 50},
          body : {<<"simple", 2>>}]
    \cup [actor : {2}, parents : {<<1>>}, authorization : {<<>>}, occurred : {0},
          body : {<<"simple", 2>>}]
MCAlphabet == {0, 1, 2, 5, 6, 8, 16, 17, 24, 25, 32, 33, 34, 40, 41, 42, 58, 61, 62, 63}

(* Entries in two branches, two of them alike up to the last, short digit, *)
(* and one with two values.                                                *)
MCObjects == {<<0, 1>>, <<0, 2>>, <<1, 1>>, <<3, 1>>, <<16, 1>>, <<17, 1>>}
=================================================================================
