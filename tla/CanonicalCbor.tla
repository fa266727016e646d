----------------------------- MODULE CanonicalCbor -----------------------------
(***************************************************************************)
(* The deterministic CBOR of fractonica-trust: encode_value, the strict    *)
(* Decoder and the digest lists of an operation.                           *)
(*                                                                         *)
(* The alphabet is scaled down and keeps its structure.  A byte is         *)
(* major * Additionals + additional, with 8 majors.  An additional below   *)
(* INLINE (24 in the code) is the argument itself, INLINE announces one    *)
(* byte of argument, INLINE + 1 two (the code also has four and eight),    *)
(* and the rest is reserved.  A float is half when its low byte is zero,   *)
(* and then has the one byte form, and infinite when its high byte is the  *)
(* largest (the code has a third width, with the same two tests).  Text    *)
(* has one-byte characters, in the lower half of the bytes.                *)
(***************************************************************************)
EXTENDS Integers, Sequences, SequencesExt, FiniteSetsExt

CONSTANTS
    INLINE,
    MAX_CANONICAL_BYTES,
    MAX_CANONICAL_DEPTH,
    MAX_CANONICAL_CONTAINER_ITEMS,
    MaxSigned           \* i64::MAX, below the largest argument

Additionals == INLINE + 3
Byte == 8 * Additionals
Lead(major, additional) == major * Additionals + additional

(* What F makes of x, with x evaluated once.                               *)
Apply(F(_), x) == CHOOSE y \in {F(z) : z \in {x}} : TRUE

(* A value is <<kind, content>>.                                           *)
Simple == 0..2              \* false, true and null
Null == <<"simple", 2>>
Finite(f) == f \div Byte # Byte - 1
Half(f) == f % Byte = 0
Utf8(q) == \A i \in DOMAIN q : q[i] < Byte \div 2
-------------------------------------------------------------------------------
Failed == [ok |-> FALSE, bytes |-> <<>>]
Empty == [ok |-> TRUE, bytes |-> <<>>]

push(out, q) ==
    IF out.ok /\ Len(out.bytes) + Len(q) <= MAX_CANONICAL_BYTES
    THEN [out EXCEPT !.bytes = @ \o q] ELSE Failed

(* The shortest head that holds the argument.                              *)
encode_head(major, n, out) ==
    push(out, IF n < INLINE THEN <<Lead(major, n)>>
              ELSE IF n < Byte THEN <<Lead(major, INLINE), n>>
              ELSE <<Lead(major, INLINE + 1), n \div Byte, n % Byte>>)

encode_float(f, out) ==
    IF ~Finite(f) THEN Failed
    ELSE push(out, IF Half(f) THEN <<Lead(7, INLINE), f \div Byte>>
                   ELSE <<Lead(7, INLINE + 1), f \div Byte, f % Byte>>)

(* canonical_key_order: bytewise, a prefix first.                          *)
Before(a, b) ==
    \/ IsStrictPrefix(a, b)
    \/ \E i \in DOMAIN a \cap DOMAIN b :
          a[i] < b[i] /\ SubSeq(a, 1, i - 1) = SubSeq(b, 1, i - 1)

Sorted(entries) == SortSeq(entries, LAMBDA x, y : Before(x[1].bytes, y[1].bytes))

RECURSIVE encode_value(_, _, _)
encode_value(v, depth, out) ==
    LET content == v[2]
        items(q, o) == FoldLeft(LAMBDA p, w : encode_value(w, depth + 1, p), o, q)
        entries == Sorted([i \in DOMAIN content |->
                              <<encode_value(content[i][1], depth + 1, Empty), content[i][2]>>])
    IN
    IF depth > MAX_CANONICAL_DEPTH \/ ~out.ok THEN Failed
    ELSE CASE v[1] = "simple" -> push(out, <<Lead(7, content)>>)
           [] v[1] = "uint" -> encode_head(0, content, out)
           [] v[1] = "int" -> IF content >= 0 THEN encode_head(0, content, out)
                              ELSE encode_head(1, -1 - content, out)
           [] v[1] = "float" -> encode_float(content, out)
           [] v[1] = "bytes" -> push(encode_head(2, Len(content), out), content)
           [] v[1] = "text" -> push(encode_head(3, Len(content), out), content)
           [] Len(content) > MAX_CANONICAL_CONTAINER_ITEMS -> Failed
           [] v[1] = "array" -> items(content, encode_head(4, Len(content), out))
           [] v[1] = "map" ->
                IF \/ \E i \in DOMAIN entries : ~entries[i][1].ok
                   \/ \E i \in 2..Len(entries) : entries[i - 1][1] = entries[i][1]
                   \/ MapThenSumSet(LAMBDA i : Len(entries[i][1].bytes), DOMAIN entries)
                        > MAX_CANONICAL_BYTES
                THEN Failed
                ELSE FoldLeft(LAMBDA p, e :
                                encode_value(e[2], depth + 1, push(p, e[1].bytes)),
                              encode_head(5, Len(content), out), entries)

to_canonical_cbor(v) == Apply(LAMBDA w : encode_value(w, 0, Empty), v)
-------------------------------------------------------------------------------
(* A decoder's state is the offset behind what was read, or an error.      *)
Error(e) == [error |-> e]
IsError(d) == "error" \in DOMAIN d

take(bytes, offset, n) ==
    IF offset + n > Len(bytes) THEN Error("UnexpectedEnd")
    ELSE [value |-> SubSeq(bytes, offset + 1, offset + n), next |-> offset + n]

BigEndian(q) == FoldLeft(LAMBDA n, b : n * Byte + b, 0, q)

(* An argument that has a shorter form is not canonical.                   *)
decode_argument(bytes, offset, additional) ==
    IF additional < INLINE THEN [value |-> additional, next |-> offset]
    ELSE IF additional > INLINE + 1 THEN Error("IndefiniteOrReserved")
    ELSE LET d == take(bytes, offset, additional - INLINE + 1)
             minimum == IF additional = INLINE THEN INLINE ELSE Byte
         IN  IF IsError(d) THEN d
             ELSE IF BigEndian(d.value) < minimum THEN Error("NonCanonical")
             ELSE [value |-> BigEndian(d.value), next |-> d.next]

decode_simple(bytes, offset, additional) ==
    IF additional \in Simple THEN [value |-> <<"simple", additional>>, next |-> offset]
    ELSE IF additional \notin {INLINE, INLINE + 1} THEN Error("UnsupportedType")
    ELSE LET d == take(bytes, offset, additional - INLINE + 1)
             f == IF additional = INLINE THEN d.value[1] * Byte ELSE BigEndian(d.value)
         IN  IF IsError(d) THEN d
             ELSE IF ~Finite(f) THEN Error("NonFiniteFloat")
             ELSE IF additional = INLINE + 1 /\ Half(f) THEN Error("NonCanonical")
             ELSE [value |-> <<"float", f>>, next |-> d.next]

(* A key of a map comes after the key before it, if there is one.          *)
Ascends(previous, key) == previous = <<>> \/ Before(previous, key)

RECURSIVE decode_value(_, _, _), decode_items(_, _, _, _, _), decode_entries(_, _, _, _, _, _)
decode_items(bytes, offset, depth, count, values) ==
    IF count = 0 THEN [value |-> <<"array", values>>, next |-> offset]
    ELSE LET d == decode_value(bytes, offset, depth) IN
         IF IsError(d) THEN d
         ELSE decode_items(bytes, d.next, depth, count - 1, Append(values, d.value))

decode_entries(bytes, offset, depth, count, previous, values) ==
    IF count = 0 THEN [value |-> <<"map", values>>, next |-> offset]
    ELSE LET k == decode_value(bytes, offset, depth)
             key == SubSeq(bytes, offset + 1, k.next)
             v == decode_value(bytes, k.next, depth)
         IN  IF IsError(k) THEN k
             ELSE IF ~Ascends(previous, key) THEN Error("NonCanonicalMapOrder")
             ELSE IF IsError(v) THEN v
             ELSE decode_entries(bytes, v.next, depth, count - 1, key,
                                 Append(values, <<k.value, v.value>>))

decode_value(bytes, offset, depth) ==
    LET lead == take(bytes, offset, 1)
        major == lead.value[1] \div Additionals
        additional == lead.value[1] % Additionals
        n == decode_argument(bytes, offset + 1, additional)
        q == take(bytes, n.next, n.value)
    IN
    IF depth > MAX_CANONICAL_DEPTH THEN Error("TooDeep")
    ELSE IF IsError(lead) THEN lead
    ELSE IF major = 7 THEN decode_simple(bytes, offset + 1, additional)
    ELSE IF major = 6 THEN Error("UnsupportedType")
    ELSE IF IsError(n) THEN n
    ELSE CASE major = 0 -> [value |-> <<"uint", n.value>>, next |-> n.next]
           [] major = 1 -> IF n.value > MaxSigned THEN Error("IntegerOutOfRange")
                           ELSE [value |-> <<"int", -1 - n.value>>, next |-> n.next]
           [] major = 2 -> IF IsError(q) THEN q
                           ELSE [value |-> <<"bytes", q.value>>, next |-> q.next]
           [] major = 3 -> IF IsError(q) THEN q
                           ELSE IF ~Utf8(q.value) THEN Error("InvalidUtf8")
                           ELSE [value |-> <<"text", q.value>>, next |-> q.next]
           [] n.value > MAX_CANONICAL_CONTAINER_ITEMS -> Error("ContainerTooLarge")
           [] major = 4 -> decode_items(bytes, n.next, depth + 1, n.value, <<>>)
           [] major = 5 -> decode_entries(bytes, n.next, depth + 1, n.value, <<>>, <<>>)

(* What the decoder makes of a whole string, without the last test.        *)
Decoded(bytes) ==
    LET d == decode_value(bytes, 0, 0) IN
    IF Len(bytes) > MAX_CANONICAL_BYTES THEN Error("EncodedTooLarge")
    ELSE IF IsError(d) THEN d
    ELSE IF d.next # Len(bytes) THEN Error("TrailingData")
    ELSE d

from_canonical_cbor(bytes) ==
    LET Compared(d) ==
            IF IsError(d) THEN d
            ELSE LET encoded == to_canonical_cbor(d.value) IN
                 IF ~encoded.ok THEN Error("Encoding")
                 ELSE IF encoded.bytes # bytes THEN Error("NonCanonical")
                 ELSE d
    IN  Apply(Compared, Decoded(bytes))
===============================================================================
