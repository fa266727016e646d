---------------------------- MODULE SarosClockProofs ----------------------------
(***************************************************************************)
(* For every catalogue, instant and precision: the interval found holds    *)
(* the instant, and the digits drawn are the phase rounded down.           *)
(*                                                                         *)
(* The inductive invariant adds to the properties what each loop keeps:    *)
(* the bisection brackets the instant between low - 1 and high, Euclid's   *)
(* algorithm keeps every common divisor of its two numbers a divisor of    *)
(* the elapsed and the total time, and a reduced ratio is the original one *)
(* divided by left.                                                        *)
(***************************************************************************)
EXTENDS SarosClock, TLAPS

N == NANOSECONDS_PER_SECOND
Divides(g, n) == \E k \in Nat : n = g * k

Inputs == /\ series \in Catalogues /\ at \in [s : Int, n : 0..(N - 1)]
          /\ bits \in Nat \ {0}

Bracketing == pc = "bracket" => series.time[low - 1] <= at.s /\ at.s < series.time[high]

Reducing ==
    pc = "reduce" =>
        /\ left # 0 \/ right # 0
        /\ \A g \in Nat \ {0} :
              Divides(g, left) /\ Divides(g, right) => Divides(g, Elapsed) /\ Divides(g, Total)

Reduced ==
    pc \in {"expand", "done", "overflow"} =>
        left \in Nat \ {0} /\ Elapsed = left * num /\ Total = left * den

Inv ==
    /\ Inputs /\ TypeOK /\ IntervalHoldsInstant /\ Bracketing /\ Reducing /\ Reduced
    /\ ExpansionIsExact /\ num < den

-------------------------------------------------------------------------------
(* Products with a positive factor keep the order.                         *)
LEMMA ProductOrder ==
    ASSUME NEW a \in Int, NEW b \in Int, NEW c \in Nat \ {0}
    PROVE  /\ a < b => a * c < b * c
           /\ a <= b => a * c <= b * c
           /\ a * c < b * c => a < b
  <1>1. a * c \in Int /\ b * c \in Int  OBVIOUS
  <1>2. ASSUME a < b PROVE a * c < b * c
    <2>1. PICK d \in Nat \ {0} : b = a + d
      <3>1. b - a \in Nat \ {0} /\ b = a + (b - a)  BY <1>2
      <3> QED BY <3>1
    <2>2. b * c = a * c + d * c  BY <2>1
    <2>3. d * c \in Nat \ {0}  BY <2>1
    <2> QED BY <2>2, <2>3, <1>1
  <1>3. ASSUME a <= b PROVE a * c <= b * c
    <2>1. CASE a = b  BY <2>1, <1>1
    <2>2. CASE a < b  BY <2>2, <1>2, <1>1
    <2> QED BY <2>1, <2>2, <1>3
  <1>4. ASSUME b <= a PROVE b * c <= a * c
    <2>1. PICK d \in Nat : a = b + d
      <3>1. a - b \in Nat /\ a = b + (a - b)  BY <1>4
      <3> QED BY <3>1
    <2>2. a * c = b * c + d * c  BY <2>1
    <2>3. d * c \in Nat  BY <2>1
    <2> QED BY <2>2, <2>3, <1>1
  <1>5. ASSUME a * c < b * c PROVE a < b  BY <1>4, <1>5, <1>1
  <1> QED BY <1>2, <1>3, <1>5

(* The elapsed time of an instant inside the interval is less than the     *)
(* total (Interval::phase_at never fails in reading_at).                   *)
LEMMA ElapsedInTotal ==
    ASSUME Inputs, low \in 1..series.last,
           series.time[low - 1] <= at.s, at.s < series.time[low]
    PROVE  Elapsed \in Nat /\ Total \in Nat \ {0} /\ Elapsed < Total
  <1>1. /\ N \in Nat \ {0} /\ at.s \in Int /\ at.n \in 0..(N - 1)
        /\ series.time[low - 1] \in Int /\ series.time[low] \in Int
    <2>1. N \in Nat \ {0} BY ClockAssumption, Zenon DEF N
    <2>2. at \in [s : Int, n : 0..(N - 1)] BY Zenon DEF Inputs
    <2>3. series.last \in Nat /\ series.time \in [0..series.last -> Int]
      BY ClockAssumption, Zenon DEF Inputs
    <2>4. low - 1 \in 0..series.last /\ low \in 0..series.last BY <2>3
    <2>5. at.s \in Int /\ at.n \in 0..(N - 1) BY <2>2
    <2> QED BY <2>1, <2>3, <2>4, <2>5, Zenon
  <1> DEFINE a == at.s - series.time[low - 1]
             b == series.time[low] - series.time[low - 1]
  <1>2. a \in Nat /\ b \in Nat \ {0} /\ a + 1 <= b  BY <1>1
  <1>3. (a + 1) * N <= b * N  BY <1>1, <1>2, ProductOrder
  <1>4. (a + 1) * N = a * N + N  BY <1>1, <1>2
  <1>5. a * N \in Nat /\ b * N \in Nat  BY <1>1, <1>2
  <1>6. Elapsed = a * N + at.n /\ Total = b * N  BY DEF Elapsed, Total, N
  <1> HIDE DEF a, b
  <1> QED BY <1>1, <1>3, <1>4, <1>5, <1>6

(* One turn of Euclid's algorithm keeps every common divisor.              *)
LEMMA EuclidTurn ==
    ASSUME NEW l \in Nat, NEW r \in Nat \ {0}, NEW g \in Nat \ {0},
           Divides(g, r), Divides(g, l % r)
    PROVE  Divides(g, l)
  <1>1. PICK j \in Nat : r = g * j  BY DEF Divides
  <1>2. PICK k \in Nat : l % r = g * k  BY DEF Divides
  <1>3. l = r * (l \div r) + (l % r) /\ l \div r \in Nat  OBVIOUS
  <1> DEFINE q == l \div r
  <1>4. q \in Nat  BY <1>3
  <1>5. l = ((g * j) * q) + (g * k)  BY <1>1, <1>2, <1>3
  <1> HIDE DEF q
  <1>6. (g * j) * q + g * k = g * (j * q + k)  BY <1>4
  <1>7. j * q + k \in Nat  BY <1>4
  <1> QED BY <1>5, <1>6, <1>7 DEF Divides

(* Dividing by a divisor is exact.                                         *)
LEMMA ExactDivision ==
    ASSUME NEW n \in Nat, NEW g \in Nat \ {0}, Divides(g, n)
    PROVE  n = g * (n \div g) /\ n \div g \in Nat
  <1>1. PICK k \in Nat : n = g * k  BY DEF Divides
  <1>2. n \div g = k  BY <1>1
  <1> QED BY <1>1, <1>2
-------------------------------------------------------------------------------
LEMMA InitInv == Init => Inv
  <1> SUFFICES ASSUME Init PROVE Inv  OBVIOUS
  <1>1. Inputs  BY ClockAssumption DEF Init, Inputs, N
  <1>2. TypeOK  BY DEF Init, TypeOK, Stages
  <1> QED BY <1>1, <1>2 DEF Init, Inv, IntervalHoldsInstant, Resolved, Bracketing, Reducing,
                            Reduced, ExpansionIsExact

(* Nothing else of the state is read by the invariant.                     *)
LEMMA StutterInv == Inv /\ UNCHANGED vars => Inv'
  BY DEF Inv, vars, search, euclid, ratio, digits, Inputs, TypeOK, Stages,
         IntervalHoldsInstant, Resolved, Bracketing, Reducing, Reduced, ExpansionIsExact,
         Elapsed, Total

LEMMA StartInv == Inv /\ Start => Inv'
  <1> SUFFICES ASSUME Inv, Start PROVE Inv'  OBVIOUS
  <1> USE DEF Inv, Start, euclid, ratio, digits
  <1>1. Inputs'  BY DEF Inputs
  <1>2. series.last \in Nat /\ at.s \in Int /\ series.time \in [0..series.last -> Int]
    BY ClockAssumption DEF Inputs
  <1>3. TypeOK'  BY <1>2 DEF TypeOK, Stages, Covered
  <1>4. Bracketing'  BY <1>2 DEF Bracketing, Covered
  <1>5. (IntervalHoldsInstant /\ Reducing /\ Reduced /\ ExpansionIsExact /\ num < den)'
    BY DEF IntervalHoldsInstant, Resolved, Reducing, Reduced, ExpansionIsExact
  <1> QED BY <1>1, <1>3, <1>4, <1>5

LEMMA BisectInv == Inv /\ Bisect => Inv'
  <1> SUFFICES ASSUME Inv, Bisect PROVE Inv'  OBVIOUS
  <1> USE DEF Inv, Bisect, euclid, ratio, digits
  <1> DEFINE middle == low + (high - low) \div 2
  <1>1. Inputs'  BY DEF Inputs
  <1>2. series.last \in Nat /\ at.s \in Int /\ series.time \in [0..series.last -> Int]
    BY ClockAssumption DEF Inputs
  <1>3. low \in 1..series.last /\ high \in low..series.last  BY DEF TypeOK
  <1>4. middle \in low..(high - 1)
    <2>1. low < high /\ low \in Int /\ high \in Int  BY <1>2, <1>3
    <2>2. \A d \in Nat \ {0} : d \div 2 \in 0..(d - 1)  OBVIOUS
    <2>3. high - low \in Nat \ {0}  BY <2>1
    <2>4. (high - low) \div 2 \in 0..(high - low - 1)  BY <2>2, <2>3
    <2> QED BY <2>1, <2>4
  <1>5. series.time[middle] \in Int  BY <1>2, <1>3, <1>4
  <1>6. TypeOK'
    <2>1. low' \in 1..series.last /\ high' \in low'..series.last  BY <1>2, <1>3, <1>4
    <2> QED BY <2>1 DEF TypeOK, Stages
  <1>7. Bracketing'
    <2>1. CASE series.time[middle] <= at.s
      <3>1. low' = middle + 1 /\ high' = high  BY <2>1
      <3>2. low' - 1 = middle  BY <3>1, <1>4, <1>3, <1>2
      <3> QED BY <3>1, <3>2, <2>1 DEF Bracketing
    <2>2. CASE ~(series.time[middle] <= at.s)
      <3>1. low' = low /\ high' = middle  BY <2>2
      <3>2. at.s < series.time[middle]  BY <2>2, <1>2, <1>5
      <3> QED BY <3>1, <3>2 DEF Bracketing
    <2> QED BY <2>1, <2>2
  <1>8. (IntervalHoldsInstant /\ Reducing /\ Reduced /\ ExpansionIsExact /\ num < den)'
    BY DEF IntervalHoldsInstant, Resolved, Reducing, Reduced, ExpansionIsExact
  <1> QED BY <1>1, <1>6, <1>7, <1>8

LEMMA PhaseInv == Inv /\ Phase => Inv'
  <1> SUFFICES ASSUME Inv, Phase PROVE Inv'  OBVIOUS
  <1> USE DEF Inv, Phase, search, ratio, digits
  <1>1. Inputs'  BY DEF Inputs
  <1>2. series.last \in Nat /\ low \in 1..series.last /\ high = low
    BY ClockAssumption DEF Inputs, TypeOK
  <1>3. series.time[low - 1] <= at.s /\ at.s < series.time[low]  BY <1>2 DEF Bracketing
  <1>4. Elapsed \in Nat /\ Total \in Nat \ {0} /\ Elapsed < Total
    BY <1>2, <1>3, ElapsedInTotal
  <1>5. Elapsed' = Elapsed /\ Total' = Total  BY DEF Elapsed, Total
  <1>6. TypeOK'  BY <1>2, <1>4 DEF TypeOK, Stages
  <1>7. IntervalHoldsInstant'  BY <1>3 DEF IntervalHoldsInstant
  <1>8. Reducing'  BY <1>4, <1>5 DEF Reducing
  <1>9. (Bracketing /\ Reduced /\ ExpansionIsExact /\ num < den)'
    BY DEF Bracketing, Reduced, ExpansionIsExact
  <1> QED BY <1>1, <1>6, <1>7, <1>8, <1>9

LEMMA EuclidInv == Inv /\ Euclid => Inv'
  <1> SUFFICES ASSUME Inv, Euclid PROVE Inv'  OBVIOUS
  <1> USE DEF Inv, Euclid, search, ratio, digits
  <1>1. Inputs'  BY DEF Inputs
  <1>2. left \in Nat /\ right \in Nat \ {0}  BY DEF TypeOK
  <1>3. left % right \in Nat  BY <1>2
  <1>4. TypeOK'  BY <1>2, <1>3 DEF TypeOK, Stages
  <1>5. Elapsed' = Elapsed /\ Total' = Total  BY DEF Elapsed, Total
  <1>6. Reducing'
    <2> SUFFICES ASSUME NEW g \in Nat \ {0}, Divides(g, right), Divides(g, left % right)
                 PROVE  Divides(g, Elapsed) /\ Divides(g, Total)
      BY <1>2, <1>5 DEF Reducing
    <2>1. Divides(g, left)  BY <1>2, EuclidTurn
    <2> QED BY <2>1 DEF Reducing
  <1>7. (IntervalHoldsInstant /\ Bracketing /\ Reduced /\ ExpansionIsExact /\ num < den)'
    BY DEF IntervalHoldsInstant, Resolved, Bracketing, Reduced, ExpansionIsExact
  <1> QED BY <1>1, <1>4, <1>6, <1>7

LEMMA ReduceInv == Inv /\ Reduce => Inv'
  <1> SUFFICES ASSUME Inv, Reduce PROVE Inv'  OBVIOUS
  <1> USE DEF Inv, Reduce, search, euclid
  <1>1. Inputs'  BY DEF Inputs
  <1>2. low \in 1..series.last /\ series.time[low - 1] <= at.s /\ at.s < series.time[low]
    BY DEF TypeOK, IntervalHoldsInstant, Resolved
  <1>3. Elapsed \in Nat /\ Total \in Nat \ {0} /\ Elapsed < Total  BY <1>2, ElapsedInTotal
  <1>4. left \in Nat \ {0}  BY DEF Reducing, TypeOK
  <1>5. Divides(left, left) /\ Divides(left, 0)
    <2>1. left = left * 1 /\ 0 = left * 0  BY <1>4
    <2> QED BY <2>1 DEF Divides
  <1>6. Divides(left, Elapsed) /\ Divides(left, Total)  BY <1>4, <1>5 DEF Reducing
  <1>7. /\ num' \in Nat /\ Elapsed = left * num'
        /\ den' \in Nat /\ Total = left * den'
    BY <1>3, <1>4, <1>6, ExactDivision
  <1>8. num' < den'
    <2>1. num' * left < den' * left  BY <1>3, <1>4, <1>7
    <2> QED BY <2>1, <1>4, <1>7, ProductOrder
  <1>9. Elapsed' = Elapsed /\ Total' = Total  BY DEF Elapsed, Total
  <1>10. TypeOK'
    <2>1. rem' \in 0..(den' - 1) /\ den' \in Nat \ {0}  BY <1>7, <1>8
    <2> QED BY <2>1, <1>7 DEF TypeOK, Stages
  <1>11. Reduced'  BY <1>4, <1>7, <1>9 DEF Reduced
  <1>12. ExpansionIsExact'  BY <1>7 DEF ExpansionIsExact
  <1>13. (IntervalHoldsInstant /\ Bracketing /\ Reducing)'
    BY DEF IntervalHoldsInstant, Resolved, Bracketing, Reducing
  <1> QED BY <1>1, <1>8, <1>10, <1>11, <1>12, <1>13

(* Doubling a remainder by its complement is exact and stays below den.    *)
LEMMA BitTurn ==
    ASSUME NEW d \in Nat \ {0}, NEW r \in 0..(d - 1), NEW p \in Nat, NEW s \in Nat \ {0},
           NEW n \in Nat, p \in 0..(s - 1), p * d + r = n * s
    PROVE  /\ r >= d - r => /\ r - (d - r) \in 0..(d - 1)
                            /\ (2 * p + 1) * d + (r - (d - r)) = n * (2 * s)
                            /\ 2 * p + 1 \in 0..(2 * s - 1)
           /\ ~(r >= d - r) => /\ r + r \in 0..(d - 1)
                               /\ (2 * p) * d + (r + r) = n * (2 * s)
                               /\ 2 * p \in 0..(2 * s - 1)
  <1>1. p * d \in Nat /\ n * s \in Nat  OBVIOUS
  <1>2. n * (2 * s) = 2 * (n * s)  OBVIOUS
  <1>3. (2 * p) * d = 2 * (p * d) /\ (2 * p + 1) * d = 2 * (p * d) + d  OBVIOUS
  <1> QED BY <1>1, <1>2, <1>3

LEMMA NextBitInv == Inv /\ NextBit => Inv'
  <1> SUFFICES ASSUME Inv, NextBit PROVE Inv'  OBVIOUS
  <1> USE DEF Inv, NextBit, search, euclid, ratio
  <1>1. Inputs'  BY DEF Inputs
  <1>2. /\ den \in Nat \ {0} /\ rem \in 0..(den - 1) /\ num \in Nat
        /\ scale \in Nat \ {0} /\ prefix \in 0..(scale - 1) /\ taken \in Nat
    BY DEF TypeOK
  <1>3. prefix * den + rem = num * scale  BY DEF ExpansionIsExact
  <1>4. /\ rem' \in 0..(den - 1) /\ prefix' * den + rem' = num * (2 * scale)
        /\ prefix' \in 0..(2 * scale - 1)
    <2>1. prefix \in Nat  BY <1>2
    <2>2. CASE rem >= den - rem
      <3>1. rem' = rem - (den - rem) /\ prefix' = 2 * prefix + 1  BY <2>2
      <3> QED BY <3>1, <2>1, <2>2, <1>2, <1>3, BitTurn
    <2>3. CASE ~(rem >= den - rem)
      <3>1. rem' = rem + rem /\ prefix' = 2 * prefix  BY <2>3
      <3> QED BY <3>1, <2>1, <2>3, <1>2, <1>3, BitTurn
    <2> QED BY <2>2, <2>3
  <1>5. taken' \in Nat /\ scale' \in Nat \ {0} /\ scale' = 2 * scale  BY <1>2
  <1>6. TypeOK'  BY <1>4, <1>5 DEF TypeOK, Stages
  <1>7. ExpansionIsExact'  BY <1>4, <1>5 DEF ExpansionIsExact
  <1>8. Elapsed' = Elapsed /\ Total' = Total  BY DEF Elapsed, Total
  <1>9. (IntervalHoldsInstant /\ Bracketing /\ Reducing /\ Reduced /\ num < den)'
    BY <1>8 DEF IntervalHoldsInstant, Resolved, Bracketing, Reducing, Reduced
  <1> QED BY <1>1, <1>6, <1>7, <1>9

LEMMA FinishInv == Inv /\ Finish => Inv'
  <1> SUFFICES ASSUME Inv, Finish PROVE Inv'  OBVIOUS
  <1> USE DEF Inv, Finish, search, euclid, ratio, digits
  <1>1. Elapsed' = Elapsed /\ Total' = Total  BY DEF Elapsed, Total
  <1>2. pc' \in {"done", "overflow"}  OBVIOUS
  <1> QED BY <1>1, <1>2 DEF Inputs, TypeOK, Stages, IntervalHoldsInstant, Resolved, Bracketing,
                            Reducing, Reduced, ExpansionIsExact

LEMMA WakeInv == Inv /\ Wake => Inv'
  <1> SUFFICES ASSUME Inv, Wake PROVE Inv'  OBVIOUS
  <1> USE DEF Inv, Wake, search, euclid, ratio, digits
  <1>1. /\ low \in 1..series.last /\ scale \in Nat \ {0} /\ prefix \in Nat
        /\ series.time[low - 1] <= at.s /\ at.s < series.time[low]
    BY DEF TypeOK, IntervalHoldsInstant, Resolved
  <1>2. Total \in Nat \ {0}  BY <1>1, ElapsedInTotal
  <1>3. N \in Nat \ {0} /\ series.time[low - 1] \in Int
    BY <1>1, ClockAssumption DEF Inputs, N
  <1>4. FlipProduct \in Nat
    <2>1. Total * (prefix + 1) \in Nat  BY <1>1, <1>2
    <2> QED BY <2>1, <1>1 DEF FlipProduct
  <1>5. FlipOffset \in Nat  BY <1>1, <1>4 DEF FlipOffset
  <1>6. FlipOffset \div N \in Nat /\ FlipOffset % N \in 0..(N - 1)  BY <1>3, <1>5
  <1>7. at' \in [s : Int, n : 0..(N - 1)]  BY <1>3, <1>6 DEF FlipAt, N
  <1> QED BY <1>7 DEF Inputs, TypeOK, Stages, IntervalHoldsInstant, Resolved, Bracketing,
                      Reducing, Reduced, ExpansionIsExact

LEMMA NextInv == Inv /\ [Next]_vars => Inv'
  BY StutterInv, StartInv, BisectInv, PhaseInv, EuclidInv, ReduceInv, NextBitInv, FinishInv,
     WakeInv DEF Next

LEMMA Invariance == Spec => []Inv
  BY InitInv, NextInv, PTL DEF Spec

(* Every reading of every series stays inside the section, and the digit   *)
(* loop inside the width of its denominator (reading_at, next_bit).        *)
THEOREM ClockTypes == Spec => []TypeOK
  BY Invariance, PTL DEF Inv

(* The interval that reading_at resolves holds the instant, for every      *)
(* section, in order or not.                                               *)
THEOREM IntervalFound == Spec => []IntervalHoldsInstant
  BY Invariance, PTL DEF Inv

(* Every prefix of the expansion is exact (PhaseBitIter).                  *)
THEOREM ExactExpansion == Spec => []ExpansionIsExact
  BY Invariance, PTL DEF Inv

(* A finished projection follows from the exact expansion of the reduced   *)
(* ratio, multiplied by what it was divided by.                            *)
LEMMA FloorInv == Inv => PrefixIsFloor
  <1> SUFFICES ASSUME Inv, Projected
               PROVE  prefix * Total <= Elapsed * scale /\ Elapsed * scale < (prefix + 1) * Total
    BY DEF PrefixIsFloor
  <1>1. /\ den \in Nat \ {0} /\ rem \in 0..(den - 1) /\ num \in Nat
        /\ scale \in Nat \ {0} /\ prefix \in Nat /\ left \in Nat \ {0}
        /\ Elapsed = left * num /\ Total = left * den
        /\ prefix * den + rem = num * scale
    BY DEF Inv, Projected, TypeOK, Reduced, ExpansionIsExact
  <1>2. /\ prefix * den \in Int /\ num * scale \in Int
        /\ prefix * den <= num * scale /\ num * scale < (prefix + 1) * den
        /\ (prefix + 1) * den \in Int
    BY <1>1
  <1>3. /\ (prefix * den) * left <= (num * scale) * left
        /\ (num * scale) * left < ((prefix + 1) * den) * left
    BY <1>1, <1>2, ProductOrder
  <1>4. /\ (prefix * den) * left = prefix * (left * den)
        /\ (num * scale) * left = (left * num) * scale
        /\ ((prefix + 1) * den) * left = (prefix + 1) * (left * den)
    BY <1>1
  <1> QED BY <1>1, <1>3, <1>4

(* The projection of project_with_remainder is the phase of the instant    *)
(* rounded down to the precision asked for.                                *)
THEOREM FloorOfPhase == Spec => []PrefixIsFloor
  BY FloorInv, Invariance, PTL

(* A quotient is bounded as its product is.                                *)
LEMMA Quotient ==
    ASSUME NEW a \in Nat, NEW b \in Nat \ {0}, NEW q \in Nat
    PROVE  /\ q * b <= a => q <= a \div b
           /\ a < (q + 1) * b => a \div b <= q
  <1> DEFINE d == a \div b
  <1>1. d \in Nat /\ d * b <= a /\ a < (d + 1) * b
    <2>1. a = b * (a \div b) + (a % b) /\ a \div b \in Nat /\ a % b \in 0..(b - 1)  OBVIOUS
    <2>2. (d + 1) * b = b * d + b /\ d * b = b * d  BY <2>1
    <2>3. b * d \in Nat  BY <2>1
    <2> QED BY <2>1, <2>2, <2>3
  <1> HIDE DEF d
  <1>2. ASSUME q * b <= a PROVE q <= d
    <2>1. q * b < (d + 1) * b  BY <1>1, <1>2
    <2>2. q < d + 1  BY <2>1, <1>1, ProductOrder
    <2> QED BY <2>2, <1>1
  <1>3. ASSUME a < (q + 1) * b PROVE d <= q
    <2>1. d * b < (q + 1) * b  BY <1>1, <1>3
    <2>2. d < q + 1  BY <2>1, <1>1, ProductOrder
    <2> QED BY <2>2, <1>1
  <1> QED BY <1>2, <1>3 DEF d

(* The instant timestamp_at_boundary announces is the first one with       *)
(* another projection, or the end of the interval.                         *)
THEOREM FlipIsExact == Spec => []FlipIsNext
  <1>1. Inv => FlipIsNext
    <2> SUFFICES ASSUME Inv, pc = "done" PROVE FlipIsNext  BY DEF FlipIsNext
    <2> DEFINE F == FlipOffset
               P == (prefix + 1) * Total
    <2>1. /\ low \in 1..series.last /\ scale \in Nat \ {0} /\ prefix \in 0..(scale - 1)
          /\ series.time[low - 1] <= at.s /\ at.s < series.time[low]
      BY DEF Inv, TypeOK, IntervalHoldsInstant, Resolved
    <2>2. Elapsed \in Nat /\ Total \in Nat \ {0}  BY <2>1, ElapsedInTotal DEF Inv
    <2>3. prefix * Total <= Elapsed * scale /\ Elapsed * scale < P
      BY FloorInv DEF PrefixIsFloor, Projected
    <2>4. P \in Nat /\ P = Total * (prefix + 1) /\ prefix \in Nat  BY <2>1, <2>2
    <2>5. F \in Nat /\ P <= F * scale /\ F * scale < P + scale
      <3>1. F = (P + (scale - 1)) \div scale  BY <2>4 DEF FlipOffset, FlipProduct
      <3> DEFINE a == P + (scale - 1)
      <3>2. a \in Nat /\ F = a \div scale  BY <3>1, <2>1, <2>4
      <3> HIDE DEF a, F, P
      <3>3. a = scale * (a \div scale) + (a % scale) /\ a \div scale \in Nat
            /\ a % scale \in 0..(scale - 1)
        BY <3>2, <2>1
      <3>4. F * scale = scale * F /\ scale * F \in Nat  BY <3>2, <3>3, <2>1
      <3>5. a = P + (scale - 1)  BY DEF a
      <3>6. a = F * scale + (a % scale)  BY <3>2, <3>3, <3>4
      <3>7. PICK m \in 0..(scale - 1) : P + (scale - 1) = F * scale + m
        BY <3>3, <3>5, <3>6
      <3> QED BY <3>2, <3>3, <3>4, <3>7, <2>1, <2>4
    <2> HIDE DEF F, P
    <2>6. Elapsed < F
      <3>1. Elapsed * scale < F * scale  BY <2>1, <2>2, <2>3, <2>4, <2>5
      <3> QED BY <3>1, <2>1, <2>2, <2>5, ProductOrder
    <2>7. ASSUME NEW t \in Elapsed..(F - 1) PROVE FloorAt(t) = prefix
      <3>1. t \in Nat /\ F - 1 \in Nat /\ Elapsed <= t /\ t <= F - 1  BY <2>2, <2>5, <2>6
      <3>2. Elapsed * scale <= t * scale /\ t * scale <= (F - 1) * scale
        BY <3>1, <2>1, <2>2, ProductOrder
      <3>3. (F - 1) * scale = F * scale - scale  BY <2>1, <2>5
      <3>4. t * scale \in Nat /\ F * scale \in Nat /\ Elapsed * scale \in Nat
            /\ prefix * Total \in Nat
        BY <3>1, <2>1, <2>2, <2>4, <2>5
      <3>5. prefix * Total <= t * scale /\ t * scale < P
        BY <3>2, <3>3, <3>4, <2>1, <2>3, <2>4, <2>5
      <3>6. prefix <= (t * scale) \div Total /\ (t * scale) \div Total <= prefix
        BY <3>4, <3>5, <2>2, <2>4, Quotient DEF P
      <3>7. (t * scale) \div Total \in Int  BY <3>4, <2>2
      <3> QED BY <3>6, <3>7, <2>4 DEF FloorAt
    <2>8. FloorAt(F) > prefix
      <3>1. F * scale \in Nat /\ prefix + 1 \in Nat  BY <2>1, <2>4, <2>5
      <3>2. prefix + 1 <= (F * scale) \div Total  BY <3>1, <2>2, <2>5, Quotient DEF P
      <3>3. (F * scale) \div Total \in Int  BY <3>1, <2>2
      <3> QED BY <3>2, <3>3, <2>4 DEF FloorAt
    <2>9. F <= Total
      <3>1. prefix + 1 <= scale /\ prefix + 1 \in Int  BY <2>1, <2>4
      <3>2. P <= scale * Total  BY <3>1, <2>1, <2>2, ProductOrder DEF P
      <3>3. (F - 1) * scale = F * scale - scale /\ F * scale \in Nat
            /\ scale * Total = Total * scale /\ Total * scale \in Nat
        BY <2>1, <2>2, <2>5
      <3>4. (F - 1) * scale < Total * scale  BY <3>2, <3>3, <2>1, <2>4, <2>5
      <3>5. F - 1 < Total  BY <3>4, <2>1, <2>2, <2>5, ProductOrder
      <3> QED BY <3>5, <2>2, <2>5
    <2> QED BY <2>6, <2>7, <2>8, <2>9 DEF FlipIsNext, F
  <1> QED BY <1>1, Invariance, PTL
===============================================================================
