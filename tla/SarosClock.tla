------------------------------ MODULE SarosClock ------------------------------
(***************************************************************************)
(* A reading of the Saros clock (fractonica-saros-engine on top of         *)
(* fractonica-temporal-core): the eclipse interval of a series that holds  *)
(* an instant is found by bisection, the phase inside it is reduced to     *)
(* lowest terms with Euclid's algorithm, and the requested number of       *)
(* binary digits is drawn from the exact ratio one at a time.  Each turn   *)
(* of one of these loops is an action.  A reader then sleeps until the     *)
(* instant the engine announces for the next flip and reads again.         *)
(*                                                                         *)
(* An eclipse happens at a whole second; an instant has a nanosecond part. *)
(* Neither the catalogue check nor the engine compares the eclipses of a   *)
(* series with each other, so nothing here assumes that they are in order. *)
(***************************************************************************)
EXTENDS Integers

CONSTANTS
    Catalogues,         \* series: [last |-> n, time |-> function from 0..n]
    Instants,           \* instants a reading may start at: [s |-> , n |-> ]
    Precisions,         \* BitPrecision: 1..64
    NANOSECONDS_PER_SECOND,
    MaxU128,            \* largest value of a checked product
    None

ASSUME ClockAssumption ==
    /\ NANOSECONDS_PER_SECOND \in Nat \ {0}
    /\ \A c \in Catalogues : c.last \in Nat /\ c.time \in [0..c.last -> Int]
    /\ Instants \subseteq [s : Int, n : 0..(NANOSECONDS_PER_SECOND - 1)]
    /\ Precisions \subseteq Nat \ {0}
    /\ MaxU128 \in Nat

VARIABLES
    series,         \* the section read
    at,             \* the instant
    bits,           \* the precision asked for
    pc,             \* which loop the reading is in
    low, high,      \* the bisection
    left, right,    \* Euclid's algorithm
    num, den,       \* the PhaseRatio
    rem,            \* PhaseBitIter.remainder
    prefix, taken,  \* the digits drawn, and how many
    scale,          \* 2^taken, the denominator of the projection
    last            \* the reading before this one

search == <<low, high>>
euclid == <<left, right>>
ratio == <<num, den>>
digits == <<rem, prefix, taken, scale>>
vars == <<series, at, bits, pc, search, euclid, ratio, digits, last>>

Init ==
    /\ series \in Catalogues /\ at \in Instants /\ bits \in Precisions
    /\ pc = "start"
    /\ low = 0 /\ high = 0 /\ left = 0 /\ right = 0
    /\ num = 0 /\ den = 1 /\ rem = 0 /\ prefix = 0 /\ taken = 0 /\ scale = 1
    /\ last = None

-------------------------------------------------------------------------------
(* Interval::phase_at in nanoseconds.                                      *)
Elapsed == (at.s - series.time[low - 1]) * NANOSECONDS_PER_SECOND + at.n
Total == (series.time[low] - series.time[low - 1]) * NANOSECONDS_PER_SECOND

(* The half-open coverage [first, last) of a series with an interval.      *)
Covered == series.last >= 1 /\ series.time[0] <= at.s /\ at.s < series.time[series.last]

(* reading_at: outside the coverage nothing is clamped.                    *)
Start ==
    /\ pc = "start"
    /\ pc' = IF Covered THEN "bracket" ELSE "outside"
    /\ low' = 1 /\ high' = series.last
    /\ UNCHANGED <<series, at, bits, euclid, ratio, digits, last>>

(* One turn of the bisection for the first eclipse after the instant.      *)
Bisect ==
    /\ pc = "bracket" /\ low < high
    /\ LET middle == low + (high - low) \div 2 IN
       IF series.time[middle] <= at.s
       THEN low' = middle + 1 /\ high' = high
       ELSE low' = low /\ high' = middle
    /\ UNCHANGED <<series, at, bits, pc, euclid, ratio, digits, last>>

(* Interval::phase_at: the exact ratio of the elapsed to the total time.   *)
Phase ==
    /\ pc = "bracket" /\ low = high
    /\ left' = Elapsed /\ right' = Total
    /\ pc' = "reduce"
    /\ UNCHANGED <<series, at, bits, search, ratio, digits, last>>

(* One turn of greatest_common_divisor.                                    *)
Euclid ==
    /\ pc = "reduce" /\ right # 0
    /\ left' = right /\ right' = left % right
    /\ UNCHANGED <<series, at, bits, pc, search, ratio, digits, last>>

(* PhaseRatio::from_valid_parts, and PhaseRatio::bits.                     *)
Reduce ==
    /\ pc = "reduce" /\ right = 0
    /\ num' = Elapsed \div left /\ den' = Total \div left
    /\ rem' = Elapsed \div left /\ prefix' = 0 /\ taken' = 0 /\ scale' = 1
    /\ pc' = "expand"
    /\ UNCHANGED <<series, at, bits, search, euclid, last>>

(* PhaseBitIter::next_bit: doubling without computing a doubled remainder. *)
NextBit ==
    /\ pc = "expand" /\ taken < bits
    /\ LET complement == den - rem IN
       IF rem >= complement
       THEN rem' = rem - complement /\ prefix' = 2 * prefix + 1
       ELSE rem' = rem + rem /\ prefix' = 2 * prefix
    /\ taken' = taken + 1 /\ scale' = 2 * scale
    /\ UNCHANGED <<series, at, bits, pc, search, euclid, ratio, last>>

(* timestamp_at_boundary: the offset of the next bucket, rounded up.       *)
FlipProduct == Total * (prefix + 1) + (scale - 1)

(* Mutant of FlipOffset: rounded down.                                     *)
FlipOffset_Floor == (Total * (prefix + 1)) \div scale

FlipOffset == FlipProduct \div scale
FlipAt == [s |-> series.time[low - 1] + FlipOffset \div NANOSECONDS_PER_SECOND,
           n |-> FlipOffset % NANOSECONDS_PER_SECOND]

(* The projection is complete; announcing its end may overflow.            *)
Finish ==
    /\ pc = "expand" /\ taken = bits
    /\ pc' = IF FlipProduct <= MaxU128 THEN "done" ELSE "overflow"
    /\ UNCHANGED <<series, at, bits, search, euclid, ratio, digits, last>>

(* The reader wakes up at the announced flip and reads again.              *)
Wake ==
    /\ pc = "done"
    /\ at' = FlipAt
    /\ last' = [low |-> low, prefix |-> prefix]
    /\ pc' = "start"
    /\ UNCHANGED <<series, bits, search, euclid, ratio, digits>>

Next ==
    \/ Start \/ Bisect \/ Phase \/ Euclid \/ Reduce \/ NextBit \/ Finish \/ Wake

Spec == Init /\ [][Next]_vars
FairSpec == Spec /\ WF_vars(Start \/ Bisect \/ Phase \/ Euclid \/ Reduce \/ NextBit \/ Finish)
-------------------------------------------------------------------------------
Stages == {"start", "outside", "bracket", "reduce", "expand", "done", "overflow"}
Resolved == pc \in {"reduce", "expand", "done", "overflow"}
Projected == pc \in {"done", "overflow"}

(* The bisection stays inside the section, and no difference of the digit  *)
(* loop leaves 0..den: the arithmetic of next_bit needs no wider word.     *)
TypeOK ==
    /\ pc \in Stages
    /\ pc \in {"bracket", "reduce", "expand", "done", "overflow"} =>
         low \in 1..series.last /\ high \in low..series.last
    /\ left \in Nat /\ right \in Nat /\ num \in Nat /\ den \in Nat \ {0}
    /\ rem \in 0..(den - 1)
    /\ taken \in Nat /\ scale \in Nat \ {0} /\ prefix \in 0..(scale - 1)

(* The interval found holds the instant: previous <= at < next.  It does   *)
(* so whatever the order of the eclipses, so that Interval::validate never *)
(* fails after the bisection (reading_at).                                 *)
IntervalHoldsInstant ==
    Resolved => series.time[low - 1] <= at.s /\ at.s < series.time[low]

(* A finished projection is the phase rounded down to the precision:       *)
(* prefix = floor(Elapsed / Total * 2^bits), through the reduction and     *)
(* every digit (the comment of PhaseProjection; project_with_remainder).   *)
PrefixIsFloor ==
    Projected => /\ prefix * Total <= Elapsed * scale
                 /\ Elapsed * scale < (prefix + 1) * Total

(* The digit loop is exact at every turn: what was drawn and what is left  *)
(* add up to the ratio (PhaseBitIter, project_with_remainder).             *)
ExpansionIsExact == pc \in {"expand", "done", "overflow"} => prefix * den + rem = num * scale

(* Digits of an instant of the interval by definition.                     *)
FloorAt(t) == (t * scale) \div Total

(* The announced flip is the first instant with another projection: it is  *)
(* after the instant read, no instant before it has another projection,    *)
(* and it has one itself unless it ends the interval                       *)
(* (timestamp_at_boundary).                                                *)
FlipIsNext ==
    pc = "done" =>
        /\ FlipOffset > Elapsed
        /\ \A t \in Elapsed..(FlipOffset - 1) : FloorAt(t) = prefix
        /\ FlipOffset < Total => FloorAt(FlipOffset) > prefix
        /\ FlipOffset <= Total

Ordered == \A i \in 1..series.last : series.time[i - 1] < series.time[i]

(* In a series whose eclipses are in order, a reader that sleeps until the *)
(* announced flip sees a later reading every time it wakes up: the same    *)
(* interval and a larger prefix, or the next interval from its beginning.  *)
ReadingsAdvance ==
    pc = "done" /\ last # None /\ Ordered =>
        \/ low = last.low /\ prefix > last.prefix
        \/ low = last.low + 1 /\ prefix = 0

(* Every reading ends: outside the coverage, in an error or with a result. *)
ReadingEnds == []<>(pc \in {"outside", "done", "overflow"})
===============================================================================
