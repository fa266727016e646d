------------------------------- MODULE Inventory -------------------------------
(***************************************************************************)
(* Anti-entropy inventories (fractonica-replication): the entries of two   *)
(* replicas as radix trees, whose summaries are compared branch by branch. *)
(*                                                                         *)
(* A key has KeyBits bits (256 in the code) and is read in digits of       *)
(* DigitBits (3), most significant first; the last digit may have fewer    *)
(* bits and is filled with zeros.  A digest is the value it is computed    *)
(* from: SHA-256 is taken to be injective.                                 *)
(***************************************************************************)
EXTENDS Integers, Sequences, FiniteSets, SequencesExt, FiniteSetsExt

CONSTANTS
    KeyBits, DigitBits, BUCKET_CAPACITY,
    Objects,        \* entries that occur: <<key, value digest>>, digests > 0
    Replicas

RADIX == 2^DigitBits
MAX_OCTAL_DEPTH == (KeyBits + DigitBits - 1) \div DigitBits
NoEntry == 0
Keys == {e[1] : e \in Objects}

VARIABLES
    entries,        \* the map of each replica's tree: key to value digest
    conflict        \* replicas whose tree was refused, ConflictingEntry

vars == <<entries, conflict>>

Init == entries = [r \in Replicas |-> [k \in Keys |-> NoEntry]] /\ conflict = {}

(* build: one more entry; a key has one value.                             *)
build(r, key, value) ==
    /\ r \notin conflict
    /\ IF entries[r][key] \in {NoEntry, value}
       THEN /\ entries' = [entries EXCEPT ![r][key] = value] /\ UNCHANGED conflict
       ELSE /\ conflict' = conflict \cup {r} /\ UNCHANGED entries

Next == \E r \in Replicas, e \in Objects : build(r, e[1], e[2])
Spec == Init /\ [][Next]_vars
-------------------------------------------------------------------------------
bit(key, i) == IF i < KeyBits THEN (key \div 2^(KeyBits - 1 - i)) % 2 ELSE 0

octal_digit(key, depth) ==
    FoldLeft(LAMBDA d, i : 2 * d + bit(key, i), 0,
             [j \in 1..DigitBits |-> depth * DigitBits + j - 1])

key_has_prefix(key, prefix) ==
    \A i \in DOMAIN prefix : octal_digit(key, i - 1) = prefix[i]

(* validate_prefix: a full path ends in a digit whose filled bits are zero *)
(* (0 and 4 in the code).                                                  *)
validate_prefix(prefix) ==
    /\ Len(prefix) <= MAX_OCTAL_DEPTH
    /\ \A i \in DOMAIN prefix : prefix[i] \in 0..(RADIX - 1)
    /\ Len(prefix) = MAX_OCTAL_DEPTH =>
          prefix[Len(prefix)] % 2^(MAX_OCTAL_DEPTH * DigitBits - KeyBits) = 0

Present(map) == {k \in Keys : map[k] # NoEntry}

(* Mutant of Leaves: a leaf does not hash the key.                         *)
Leaves_Value(map, prefix, keys) ==
    [i \in 1..Cardinality(keys) |-> <<"leaf", map[SetToSortSeq(keys, <)[i]]>>]

(* The leaves of a bucket, in the order of the keys (bucket_hash).         *)
Leaves(map, prefix, keys) ==
    LET q == SetToSortSeq(keys, <) IN [i \in DOMAIN q |-> <<"leaf", q[i], map[q[i]]>>]

IsBucket(prefix, keys) ==
    Cardinality(keys) <= BUCKET_CAPACITY \/ Len(prefix) = MAX_OCTAL_DEPTH

(* summarize_entries: a bucket with its entries, or a node with a child    *)
(* for every digit that occurs; bucket_hash and node_hash.                 *)
RECURSIVE summarize_entries(_, _, _)
summarize_entries(map, prefix, keys) ==
    LET below(d) == {k \in keys : octal_digit(k, Len(prefix)) = d}
        digits == SetToSortSeq({d \in 0..(RADIX - 1) : below(d) # {}}, <)
        child(d) == summarize_entries(map, Append(prefix, d), below(d))
        children == [i \in DOMAIN digits |->
                        <<"child", digits[i], child(digits[i]).count, child(digits[i]).hash>>]
    IN  IF IsBucket(prefix, keys)
        THEN [count |-> Cardinality(keys), children |-> <<>>, entries |-> keys,
              hash |-> IF keys = {} THEN <<"empty", prefix, 0, <<>> >>
                       ELSE <<"node", prefix, Cardinality(keys), Leaves(map, prefix, keys)>>]
        ELSE [count |-> Cardinality(keys), children |-> children, entries |-> {},
              hash |-> <<"node", prefix, Cardinality(keys), children>>]

summary(map, prefix) ==
    summarize_entries(map, prefix, {k \in Present(map) : key_has_prefix(k, prefix)})

root(map) == summary(map, <<>>)
-------------------------------------------------------------------------------
Paths == {p \in UNION {[1..n -> 0..(RADIX - 1)] : n \in 0..MAX_OCTAL_DEPTH} :
                validate_prefix(p)}
Trees == {entries[r] : r \in Replicas \ conflict}

(* The roots of two replicas are equal exactly when their entries are:     *)
(* neither the order of the inserts nor the split into buckets shows, and  *)
(* no difference is hidden by a bucket, a node or the last short digit.    *)
RootTellsTheEntries ==
    \A a, b \in Trees : (root(a).hash = root(b).hash) <=> (a = b)

(* A child as its parent lists it is the summary of its own path, the      *)
(* digits that are not listed are empty, and the counts add up: a walker   *)
(* that asks for a child gets what the parent announced (summary,          *)
(* summarize_entries).                                                     *)
ChildrenAreSummaries ==
    \A map \in Trees : \A p \in Paths :
        LET s == summary(map, p) IN
        s.children # <<>> =>
            /\ \A d \in 0..(RADIX - 1) :
                  LET listed == {i \in DOMAIN s.children : s.children[i][2] = d}
                      own == summary(map, Append(p, d))
                  IN  IF listed = {} THEN own.count = 0
                      ELSE \A i \in listed : /\ validate_prefix(Append(p, d))
                                             /\ s.children[i][3] = own.count
                                             /\ s.children[i][4] = own.hash
            /\ s.count = FoldSeq(LAMBDA c, n : n + c[3], 0, s.children)

(* The keys two trees differ in, found by descending wherever the digests  *)
(* differ, until one side is a bucket.                                     *)
RECURSIVE Walk(_, _, _)
Walk(a, b, p) ==
    LET s == summary(a, p)
        t == summary(b, p)
        keys == {k \in Present(a) \cup Present(b) : key_has_prefix(k, p)}
    IN  IF s.hash = t.hash THEN {}
        ELSE IF s.children = <<>> \/ t.children = <<>>
        THEN {k \in keys : a[k] # b[k]}
        ELSE UNION {Walk(a, b, Append(p, c[2])) : c \in Range(s.children) \cup Range(t.children)}

(* A descent along differing digests finds every difference, and nothing   *)
(* else.                                                                   *)
DescentFindsDifferences ==
    \A a, b \in Trees : Walk(a, b, <<>>) = {k \in Keys : a[k] # b[k]}

(* The digests tell any two inventories apart and lead a walker to exactly *)
(* the entries they differ in (root, summary, summarize_entries).          *)
DigestsTellDifferences == RootTellsTheEntries /\ ChildrenAreSummaries /\ DescentFindsDifferences
===============================================================================
