--------------------------- MODULE SignedOperations ---------------------------
(***************************************************************************)
(* Operations as bytes (fractonica-trust): an author builds a payload,     *)
(* signs its canonical form and sends a COSE_Sign1 envelope; the bytes may *)
(* be damaged on the way or at rest; a reader decodes the envelope and the *)
(* payload and verifies the signature.  A second reader is fed bytes one   *)
(* at a time, from any source.                                             *)
(*                                                                         *)
(* Of the eleven fields of a payload the version, the actor, the two       *)
(* digest lists, the time and the body are kept.  A digest and an actor    *)
(* are one byte.  The identifier of an operation is its payload: SHA-256   *)
(* is taken to be injective.  Signatures are ideal: the ledger remembers   *)
(* what each key signed, and a signature is the key and its entry.         *)
(***************************************************************************)
EXTENDS CanonicalCbor

CONSTANTS
    Drafts,             \* fields an author may pass to OperationPayload::new
    Alphabet,           \* bytes fed or damaged
    MaxFed,             \* bound on the bytes fed
    EnvelopeSlack,      \* bytes an envelope may be longer than a value: 128
    MAX_REFERENCES,     \* longest digest list
    None

OPERATION_PROTOCOL_VERSION == 1
COSE_PROTECTED_HEADER == <<3>>
COSE_TAG == Lead(6, 1)
CONTEXT == <<4>>

VARIABLES
    fed,                \* the bytes the second reader has been fed
    stage,              \* "new", "drafted", "signed", "sent", "received", "end"
    draft,              \* OperationPayload
    signed,             \* SignedOperation of the author
    ledger,             \* the messages signed: [actor, message]
    wire,               \* the envelope's bytes
    damaged,            \* whether the bytes were damaged
    received,           \* SignedOperation of the reader
    verified            \* whether the reader verified it

vars == <<fed, stage, draft, signed, ledger, wire, damaged, received, verified>>

Init ==
    /\ fed = <<>> /\ stage = "new" /\ draft = None /\ signed = None /\ ledger = <<>>
    /\ wire = <<>> /\ damaged = FALSE /\ received = None /\ verified = FALSE

Digest(d) == <<"bytes", <<d>>>>
IsDigest(v) == v[1] = "bytes" /\ Len(v[2]) = 1
Ascending(q) == \A i \in 2..Len(q) : q[i - 1] < q[i]
-------------------------------------------------------------------------------
(* normalize_digest_set: sorted; refused when too long or with duplicates. *)
NormalizableSet(q) == Len(q) <= MAX_REFERENCES /\ Cardinality(Range(q)) = Len(q)
normalize_digest_set(q) == SortSeq(q, <)

(* OperationPayload::canonical_bytes.                                      *)
canonical_bytes(p) ==
    to_canonical_cbor(<<"array", <<
        <<"uint", OPERATION_PROTOCOL_VERSION>>,
        <<"bytes", <<p.actor>>>>,
        <<"array", [i \in DOMAIN p.parents |-> Digest(p.parents[i])]>>,
        <<"array", [i \in DOMAIN p.authorization |-> Digest(p.authorization[i])]>>,
        <<"int", p.occurred>>,
        p.body>> >>)

(* OperationPayload::new.                                                  *)
new(p) ==
    LET n == [p EXCEPT !.parents = normalize_digest_set(@),
                       !.authorization = normalize_digest_set(@)] IN
    IF \/ p.occurred < 0
       \/ ~NormalizableSet(p.parents) \/ ~NormalizableSet(p.authorization)
       \/ ~canonical_bytes(n).ok
    THEN Error("InvalidPayload") ELSE n

decode_digest_set(v) ==
    IF v[1] # "array" \/ Len(v[2]) > MAX_REFERENCES \/ \E i \in DOMAIN v[2] : ~IsDigest(v[2][i])
    THEN Error("InvalidOperationPayload")
    ELSE LET q == [i \in DOMAIN v[2] |-> v[2][i][2][1]] IN
         IF Ascending(q) THEN [list |-> q] ELSE Error("NotStrictlyAscending")

(* decode_operation_value.                                                 *)
decode_operation_value(v) ==
    IF v[1] # "array" \/ Len(v[2]) # 6 THEN Error("InvalidOperationPayload")
    ELSE LET f == v[2]
             parents == decode_digest_set(f[3])
             authorization == decode_digest_set(f[4])
         IN  IF \/ f[1] # <<"uint", OPERATION_PROTOCOL_VERSION>>
                \/ ~IsDigest(f[2])
                \/ IsError(parents) \/ IsError(authorization)
                \/ f[5][1] \notin {"int", "uint"}
                \/ f[5][1] = "uint" /\ f[5][2] > MaxSigned
             THEN Error("InvalidOperationPayload")
             ELSE new([actor |-> f[2][2][1], parents |-> parents.list,
                       authorization |-> authorization.list, occurred |-> f[5][2],
                       body |-> f[6]])

(* OperationPayload::from_canonical_bytes.                                 *)
from_canonical_bytes(bytes) ==
    Apply(LAMBDA d : IF IsError(d) THEN d ELSE decode_operation_value(d.value),
          from_canonical_cbor(bytes))

cose_signature_structure(payload) ==
    to_canonical_cbor(<<"array", <<
        <<"text", CONTEXT>>, <<"bytes", COSE_PROTECTED_HEADER>>, <<"bytes", <<>>>>,
        <<"bytes", payload>> >> >>)

(* SignedOperation::to_cose_sign1.                                         *)
to_cose_sign1(op) ==
    LET untagged == to_canonical_cbor(<<"array", <<
            <<"bytes", COSE_PROTECTED_HEADER>>, <<"map", <<>>>>,
            <<"bytes", op.payload>>, <<"bytes", op.signature>> >> >>)
    IN  IF untagged.ok THEN [untagged EXCEPT !.bytes = <<COSE_TAG>> \o @] ELSE untagged

(* take_canonical_byte_string.                                             *)
take_canonical_byte_string(bytes, offset) ==
    LET lead == take(bytes, offset, 1)
        n == decode_argument(bytes, offset + 1, lead.value[1] % Additionals)
    IN  IF IsError(lead) THEN lead
        ELSE IF lead.value[1] \div Additionals # 2 THEN Error("InvalidCoseSign1")
        ELSE IF IsError(n) THEN n
        ELSE take(bytes, n.next, n.value)

decode_exact_cose_sign1(bytes) ==
    LET protected == take_canonical_byte_string(bytes, 2)
        unprotected == take(bytes, protected.next, 1)
        payload == take_canonical_byte_string(bytes, unprotected.next)
        signature == take_canonical_byte_string(bytes, payload.next)
    IN  IF Len(bytes) > MAX_CANONICAL_BYTES + EnvelopeSlack \/ Len(bytes) < 2
        THEN Error("InvalidCoseSign1")
        ELSE IF bytes[1] # COSE_TAG \/ bytes[2] # Lead(4, 4) THEN Error("InvalidCoseSign1")
        ELSE IF IsError(protected) THEN protected
        ELSE IF protected.value # COSE_PROTECTED_HEADER THEN Error("WrongCoseProtectedHeader")
        ELSE IF IsError(unprotected) THEN unprotected
        ELSE IF unprotected.value[1] # Lead(5, 0) THEN Error("NonEmptyCoseUnprotectedHeader")
        ELSE IF IsError(payload) THEN payload
        ELSE IF IsError(signature) THEN signature
        ELSE IF Len(signature.value) # 2 THEN Error("InvalidCoseSignatureLength")
        ELSE IF signature.next # Len(bytes) THEN Error("InvalidCoseSign1")
        ELSE [payload |-> payload.value, signature |-> signature.value]
-------------------------------------------------------------------------------
(* The author's steps.                                                     *)
Create(p) ==
    /\ stage = "new" /\ fed = <<>>
    /\ LET n == new(p) IN
       IF IsError(n) THEN stage' = "end" /\ UNCHANGED draft
       ELSE stage' = "drafted" /\ draft' = n
    /\ UNCHANGED <<fed, signed, ledger, wire, damaged, received, verified>>

(* sign: the payload must decode again before it is signed.                *)
sign(key) ==
    /\ stage = "drafted"
    /\ LET payload == canonical_bytes(draft).bytes
           input == cose_signature_structure(payload)
       IN  IF key # draft.actor \/ IsError(from_canonical_bytes(payload)) \/ ~input.ok
           THEN stage' = "end" /\ UNCHANGED <<signed, ledger>>
           ELSE /\ stage' = "signed"
                /\ ledger' = Append(ledger, [actor |-> key, message |-> input.bytes])
                /\ signed' = [payload |-> payload, signature |-> <<key, Len(ledger) + 1>>]
    /\ UNCHANGED <<fed, draft, wire, damaged, received, verified>>

Send ==
    /\ stage = "signed"
    /\ LET envelope == to_cose_sign1(signed) IN
       IF envelope.ok THEN stage' = "sent" /\ wire' = envelope.bytes
       ELSE stage' = "end" /\ UNCHANGED wire
    /\ UNCHANGED <<fed, draft, signed, ledger, damaged, received, verified>>

(* A byte changes, the end is lost, or a byte is added.                    *)
Damage ==
    /\ stage = "sent" /\ ~damaged /\ damaged' = TRUE
    /\ \/ \E i \in DOMAIN wire, b \in Alphabet : wire' = [wire EXCEPT ![i] = b]
       \/ \E n \in 0..(Len(wire) - 1) : wire' = SubSeq(wire, 1, n)
       \/ \E b \in Alphabet : wire' = Append(wire, b)
    /\ UNCHANGED <<fed, stage, draft, signed, ledger, received, verified>>

(* from_cose_sign1.                                                        *)
Receive ==
    /\ stage = "sent"
    /\ LET envelope == decode_exact_cose_sign1(wire) IN
       IF IsError(envelope) THEN stage' = "end" /\ UNCHANGED received
       ELSE IF IsError(from_canonical_bytes(envelope.payload))
       THEN stage' = "end" /\ UNCHANGED received
       ELSE stage' = "received" /\ received' = envelope
    /\ UNCHANGED <<fed, draft, signed, ledger, wire, damaged, verified>>

(* verify_strict with the key that is the actor's identity.                *)
SignatureHolds(actor, message, signature) ==
    /\ signature[1] = actor /\ signature[2] \in DOMAIN ledger
    /\ ledger[signature[2]] = [actor |-> actor, message |-> message]

(* Mutant of Verify: the envelope's signature is checked for no message.   *)
Verify_Key ==
    /\ stage = "received" /\ stage' = "end"
    /\ LET p == from_canonical_bytes(received.payload) IN
       verified' = (received.signature[1] = p.actor)
    /\ UNCHANGED <<fed, draft, signed, ledger, wire, damaged, received>>

Verify ==
    /\ stage = "received" /\ stage' = "end"
    /\ LET p == from_canonical_bytes(received.payload)
           input == cose_signature_structure(received.payload)
       IN  verified' = (input.ok /\ SignatureHolds(p.actor, input.bytes, received.signature))
    /\ UNCHANGED <<fed, draft, signed, ledger, wire, damaged, received>>

(* The second reader waits for more bytes as long as the value is not over *)
(* and nothing read so far is refused.                                     *)
Feed(b) ==
    /\ stage = "new" /\ Len(fed) < MaxFed
    /\ Decoded(fed) = Error("UnexpectedEnd")
    /\ fed' = Append(fed, b)
    /\ UNCHANGED <<stage, draft, signed, ledger, wire, damaged, received, verified>>

Next ==
    \/ \E p \in Drafts : Create(p) \/ sign(p.actor)
    \/ Send \/ Damage \/ Receive \/ Verify
    \/ \E b \in Alphabet : Feed(b)

Spec == Init /\ [][Next]_vars
-------------------------------------------------------------------------------
(* A value has one form: what the strict decoder accepts is what the       *)
(* encoder writes, byte for byte, so that the comparison at the end of     *)
(* from_canonical_cbor never refuses what the decoder let through.         *)
ValueHasOneForm ==
    ~IsError(Decoded(fed)) => from_canonical_cbor(fed) = Decoded(fed)

(* An operation has one form: the fields that were read from a payload     *)
(* give back the payload's bytes, and with them its identifier, even when  *)
(* the envelope was damaged (decode_digest_set, operation_id).             *)
FieldsGiveTheIdentifier ==
    received # None =>
        canonical_bytes(from_canonical_bytes(received.payload)).bytes = received.payload

(* An envelope has one form: what was accepted is what to_cose_sign1       *)
(* writes, unless it is too long to be written (decode_exact_cose_sign1).  *)
EnvelopeHasOneForm ==
    received # None =>
        LET again == to_cose_sign1(received) IN
        IF again.ok THEN again.bytes = wire ELSE Len(wire) > MAX_CANONICAL_BYTES

(* The integer and the unsigned form of a number are the same bytes, and a *)
(* map's entries have one order: a body as it is read back.                *)
SameForm(v, w) == to_canonical_cbor(v) = to_canonical_cbor(w)

(* What was sent and not damaged is accepted, verifies, and has the fields *)
(* of the author's draft (sign, from_cose_sign1, verify).                  *)
UndamagedIsVerified ==
    wire # <<>> /\ ~damaged =>
        /\ stage \in {"sent", "received", "end"}
        /\ stage = "end" => verified
        /\ received # None =>
              LET p == from_canonical_bytes(received.payload) IN
              /\ [p EXCEPT !.body = Null] = [draft EXCEPT !.body = Null]
              /\ SameForm(p.body, draft.body)

(* What verifies was signed: the payload is the draft's, whatever happened *)
(* to the envelope (verify).                                               *)
VerifiedWasSigned ==
    verified => received.payload = canonical_bytes(draft).bytes

(* An operation and its envelope have one form each, and what verifies at  *)
(* the reader is what its author signed (sign, from_cose_sign1, verify).   *)
OperationIsAsSigned ==
    /\ ValueHasOneForm /\ FieldsGiveTheIdentifier /\ EnvelopeHasOneForm
    /\ UndamagedIsVerified /\ VerifiedWasSigned
===============================================================================
