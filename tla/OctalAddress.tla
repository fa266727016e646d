----------------------------- MODULE OctalAddress -----------------------------
(***************************************************************************)
(* The octal views of a phase (fractonica-temporal-core): the fixed-point  *)
(* word, projections of it, materialized addresses, and the rarity of an   *)
(* address, computed once on the number and once on its digits.            *)
(*                                                                         *)
(* The machine is a display that counts through all addresses of a width   *)
(* and classifies each; one turn of the loop of classify_rarity is an      *)
(* action.  A word has WordBits bits (64 in the code), most significant    *)
(* first, and holds WordBits \div 3 complete digits.                       *)
(***************************************************************************)
EXTENDS Integers, Sequences, SequencesExt

CONSTANTS
    WordBits,       \* PHASE_WORD_BITS
    Widths,         \* numbers of digits of the addresses counted through
    Slices          \* denominators of the progress inside a bucket

RADIX == 8
BITS_PER_OCTAL_DIGIT == 3
PHASE_WORD_OCTAL_DIGITS == WordBits \div BITS_PER_OCTAL_DIGIT

VARIABLES
    address,            \* OctalAddress
    stage,              \* "shown", "classify" or "classified"
    repeated,           \* repeated_digit
    remaining, suffix,  \* the loop of classify_rarity
    rarity

vars == <<address, stage, repeated, remaining, suffix, rarity>>

Common == [family |-> "common", digit |-> 0]
omega_nihil == [family |-> "nihil", digit |-> 7]

Init ==
    /\ \E w \in Widths : address = [value |-> 0, digits |-> w]
    /\ stage = "shown" /\ repeated = 0 /\ remaining = 0 /\ suffix = 0
    /\ rarity = Common
-------------------------------------------------------------------------------
(* Bits and digits of a number of the given length, counted from the most  *)
(* significant side.                                                       *)
bit_msb(value, length, i) == (value \div 2^(length - i - 1)) % 2
octal_digit_msb(value, length, i) ==
    (value \div 2^(length - BITS_PER_OCTAL_DIGIT * (i + 1))) % RADIX

(* PhaseBitIter: the first n digits of the ratio and the remainder.        *)
RECURSIVE Drawn(_, _, _)
Drawn(ratio, n, prefix) ==
    IF n = 0 THEN [prefix |-> prefix, rem |-> ratio.num]
    ELSE LET complement == ratio.den - ratio.num
             one == ratio.num >= complement
         IN  Drawn([ratio EXCEPT !.num = IF one THEN @ - complement ELSE @ + @],
                   n - 1, 2 * prefix + (IF one THEN 1 ELSE 0))

(* PhaseRatio::project_with_remainder, and the word of all WordBits.       *)
project(ratio, bits) == Drawn(ratio, bits, 0)
word64(ratio) == project(ratio, WordBits).prefix

(* OctalDigitIter: three bits of the ratio at a time.                      *)
octal_digits(ratio, n) ==
    [i \in 1..n |->
        LET before == project(ratio, BITS_PER_OCTAL_DIGIT * (i - 1)) IN
        Drawn([num |-> before.rem, den |-> ratio.den], BITS_PER_OCTAL_DIGIT, 0).prefix]

(* PhaseWord64::project: the high bits of the word.                        *)
word_project(word, bits) == word \div 2^(WordBits - bits)

(* OctalAddress::from_projection: the complete digits of a projection.     *)
from_projection(prefix, bits) ==
    [value |-> prefix \div 2^(bits % BITS_PER_OCTAL_DIGIT),
     digits |-> bits \div BITS_PER_OCTAL_DIGIT]

(* OctalAddress::write_ascii and from_octal_ascii, on digits.              *)
write_ascii(a) ==
    [i \in 1..a.digits |->
        octal_digit_msb(a.value, BITS_PER_OCTAL_DIGIT * a.digits, i - 1)]
from_octal_ascii(q) ==
    [value |-> FoldLeft(LAMBDA v, d : v * RADIX + d, 0, q), digits |-> Len(q)]

(* pulse_from_phase: two glyphs of the leading digits of a projection.     *)
glyphs(prefix, bits, n) ==
    LET digit(i) == octal_digit_msb(prefix, bits, i) IN
    <<[i \in 1..n |-> digit(i - 1)], [i \in 1..n |-> digit(i - 1 + n)]>>
-------------------------------------------------------------------------------
(* rarity_from_suffix.                                                     *)
rarity_from_suffix(wildcard, digit) ==
    CASE wildcard = 0 -> [family |-> "nihil", digit |-> digit]
      [] wildcard = 1 -> [family |-> "simplex", digit |-> digit]
      [] wildcard = 2 -> [family |-> "duplex", digit |-> digit]
      [] wildcard = 3 -> [family |-> "triplex", digit |-> digit]
      [] OTHER -> Common

(* classify_rarity up to its loop: zero is Omega Nihil, and the value at a *)
(* flip counts as the address before it.                                   *)
Classify ==
    /\ stage = "shown"
    /\ IF address.value = 0
       THEN /\ stage' = "classified" /\ rarity' = omega_nihil
            /\ UNCHANGED <<repeated, remaining, suffix>>
       ELSE LET adjusted == IF address.value % RADIX = 0 THEN address.value - 1
                            ELSE address.value
            IN  /\ stage' = "classify" /\ rarity' = rarity
                /\ repeated' = adjusted % RADIX
                /\ remaining' = adjusted /\ suffix' = 0
    /\ UNCHANGED address

(* One turn of the loop: one more trailing digit is the repeated one.      *)
Strip ==
    /\ stage = "classify"
    /\ suffix < address.digits /\ remaining % RADIX = repeated
    /\ suffix' = suffix + 1 /\ remaining' = remaining \div RADIX
    /\ UNCHANGED <<address, stage, repeated, rarity>>

Classified ==
    /\ stage = "classify"
    /\ ~(suffix < address.digits /\ remaining % RADIX = repeated)
    /\ rarity' = rarity_from_suffix(address.digits - suffix, repeated)
    /\ stage' = "classified"
    /\ UNCHANGED <<address, repeated, remaining, suffix>>

(* The display flips to the next address and wraps at the interval's end.  *)
Flip ==
    /\ stage = "classified"
    /\ address' = [address EXCEPT !.value = (@ + 1) % RADIX^address.digits]
    /\ stage' = "shown" /\ repeated' = 0 /\ remaining' = 0 /\ suffix' = 0
    /\ rarity' = Common

Next == Classify \/ Strip \/ Classified \/ Flip
Spec == Init /\ [][Next]_vars
-------------------------------------------------------------------------------
(* The digits of the address before a flip: a trailing zero borrows.       *)
Borrowed(q) ==
    IF Last(q) # 0 THEN q
    ELSE LET lender == Max({i \in DOMAIN q : q[i] # 0}) IN
         [i \in DOMAIN q |-> IF i > lender THEN RADIX - 1
                             ELSE IF i = lender THEN q[i] - 1 ELSE q[i]]

(* classify_rarity_digits: the same on a slice of digits of any length.    *)
classify_rarity_digits(q) ==
    IF \A i \in DOMAIN q : q[i] = 0 THEN omega_nihil
    ELSE LET b == Borrowed(q)
             same == {n \in 1..Len(q) :
                         \A i \in (Len(q) - n + 1)..Len(q) : b[i] = Last(b)}
         IN  rarity_from_suffix(Len(q) - Max(same), Last(b))

Families == <<"nihil", "simplex", "duplex", "triplex">>

(* Mutant of repdigit_offset: the offset of all ones only.                 *)
repdigit_offset_Ones(wildcard, digit, n) == (RADIX^(n - wildcard) - 1) \div 7

(* repdigit_stride and repdigit_offset of the family with this many        *)
(* wildcard digits, for addresses of n digits.                             *)
repdigit_stride(wildcard, n) == RADIX^(n - wildcard)
repdigit_offset(wildcard, digit, n) == digit * ((repdigit_stride(wildcard, n) - 1) \div 7)

(* The machine's values are in range and the loop stays in the address.    *)
TypeOK ==
    /\ address.digits \in Widths /\ address.value \in 0..(RADIX^address.digits - 1)
    /\ stage \in {"shown", "classify", "classified"}
    /\ repeated \in 0..7 /\ suffix \in 0..address.digits /\ remaining \in Nat
    /\ rarity \in [family : Range(Families) \cup {"common"}, digit : 0..7]

(* The two classifications, by division of the number and by borrowing in  *)
(* its digits, give every address the same rarity.                         *)
ClassificationsAgree ==
    stage = "classified" => rarity = classify_rarity_digits(write_ascii(address))

(* The addresses of a family recur with its stride at its digit's offset:  *)
(* an address is given the rarest family whose recurrence it meets, and is *)
(* common when it meets none (repdigit_stride, repdigit_offset).           *)
RarityFollowsStride ==
    stage = "classified" /\ address.value # 0 =>
        LET a == IF address.value % RADIX = 0 THEN address.value - 1 ELSE address.value
            n == address.digits
            met == {w \in 0..3 : w < n /\ a % repdigit_stride(w, n) =
                                              repdigit_offset(w, a % RADIX, n)}
        IN  rarity = IF met = {} THEN Common
                     ELSE [family |-> Families[Min(met) + 1], digit |-> a % RADIX]

(* Every phase inside the bucket of an address leads back to the address,  *)
(* by the digits of the exact ratio, by the word, by a projection of the   *)
(* word with trailing bits and by the text of its digits.                  *)
PhaseLeadsToAddress ==
    stage = "shown" =>
        \A k \in Slices : \A j \in 0..(k - 1) :
            LET ratio == [num |-> address.value * k + j, den |-> RADIX^address.digits * k]
                bits == BITS_PER_OCTAL_DIGIT * address.digits
                q == write_ascii(address)
            IN  /\ octal_digits(ratio, address.digits) = q
                /\ from_octal_ascii(q) = address
                /\ \A extra \in 0..2 :
                      bits + extra <= WordBits =>
                         /\ word_project(word64(ratio), bits + extra)
                              = project(ratio, bits + extra).prefix
                         /\ from_projection(project(ratio, bits + extra).prefix, bits + extra)
                              = address
                         /\ 2 * (address.digits \div 2) = address.digits =>
                               LET g == glyphs(project(ratio, bits + extra).prefix,
                                               bits + extra, address.digits \div 2)
                               IN  g[1] \o g[2] = q

(* An address has one meaning: both classifications and the recurrence of  *)
(* its family give it the same rarity, and every view of a phase leads to  *)
(* it (OctalAddress, classify_rarity_digits, project, word64).             *)
AddressesAgree == ClassificationsAgree /\ RarityFollowsStride /\ PhaseLeadsToAddress
===============================================================================
