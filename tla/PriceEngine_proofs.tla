-------------------------- MODULE PriceEngine_proofs --------------------------
(***************************************************************************)
(* Proofs about PriceEngine for all prices and any number of days.         *)
(***************************************************************************)
EXTENDS PriceEngine, TLAPS
-------------------------------------------------------------------------------
(***************************************************************************)
(* Arithmetic: the provers know little of products of two variables.       *)
(***************************************************************************)
LEMMA ProductNat ==
    ASSUME NEW a \in Nat, NEW b \in Nat
    PROVE  a * b \in Nat
OBVIOUS

LEMMA ProductMonotone ==
    ASSUME NEW a \in Nat, NEW b \in Nat, NEW p \in Nat, a <= b
    PROVE  a * p <= b * p
<1> DEFINE d == b - a
<1>1. d \in Nat /\ b = a + d
  OBVIOUS
<1> HIDE DEF d
<1>2. b * p = a * p + d * p
  BY <1>1
<1>3. d * p \in Nat /\ a * p \in Nat
  BY <1>1, ProductNat
<1> QED BY <1>2, <1>3

\* The exact split is made of whole days, has less than a block left at each
\* size, and adds up to the days.
LEMMA SplitRight ==
    ASSUME NEW n \in Nat
    PROVE  /\ ExactSplit(n) \in RentalPeriod
           /\ ExactSplit(n).days7 <= 3
           /\ ExactSplit(n).days1 <= 6
           /\ n = 28 * ExactSplit(n).days28 + 7 * ExactSplit(n).days7
                    + ExactSplit(n).days1
BY DEF ExactSplit, RentalPeriod
-------------------------------------------------------------------------------
(***************************************************************************)
(* What the engine takes is one of its options, and none is cheaper.       *)
(***************************************************************************)
Cost(n, p) == CalculateOptimalCost(n, p).costInCents

LEMMA OptionRight ==
    ASSUME NEW n \in Nat, NEW p \in Pricing, NEW s \in Strategy
    PROVE  /\ Option(s, n, p).strategy = s
           /\ Option(s, n, p).rentalPeriod \in RentalPeriod
           /\ Option(s, n, p).costInCents \in Nat
           /\ Option(s, n, p).costInCents =
                 CalculateCost(Option(s, n, p).rentalPeriod, p)
<1> DEFINE e == ExactSplit(n)
           d == Distribution(s, e)
<1>1. e \in RentalPeriod
  BY SplitRight
<1>2. d \in RentalPeriod
  <2>1. e \in RentalPeriod /\ RoundUpTo7(e) \in RentalPeriod
        /\ RoundUpTo28(e) \in RentalPeriod
    BY <1>1 DEF RoundUpTo7, RoundUpTo28, RentalPeriod
  <2>2. d = e \/ d = RoundUpTo7(e) \/ d = RoundUpTo28(e)
    BY DEF Distribution, Strategy
  <2> QED BY <2>1, <2>2
<1>3. p.per28Days \in Nat /\ p.per7Days \in Nat /\ p.per1Day \in Nat
  BY PriceAssumption DEF Pricing
<1>4. d.days28 \in Nat /\ d.days7 \in Nat /\ d.days1 \in Nat
  BY <1>2 DEF RentalPeriod
<1>5. d.days28 * p.per28Days \in Nat /\ d.days7 * p.per7Days \in Nat
      /\ d.days1 * p.per1Day \in Nat
  BY <1>3, <1>4, ProductNat
<1>6. CalculateCost(d, p) \in Nat
  BY <1>5 DEF CalculateCost
<1> QED BY <1>2, <1>6 DEF Option

LEMMA OptimalIsBest ==
    ASSUME NEW n \in Nat, NEW p \in Pricing
    PROVE  /\ \E s \in Strategy : CalculateOptimalCost(n, p) = Option(s, n, p)
           /\ \A s \in Strategy : Cost(n, p) <= Option(s, n, p).costInCents
           /\ Cost(n, p) \in Nat
<1> DEFINE o(s) == Option(s, n, p)
           Best(b) == \A s \in Strategy :
               \/ b.costInCents < o(s).costInCents
               \/ /\ b.costInCents = o(s).costInCents
                  /\ Rank(s) <= Rank(b.strategy)
           S == {o(s) : s \in Strategy}
<1>1. \A s \in Strategy : o(s).costInCents \in Nat /\ o(s).strategy = s
  BY OptionRight
<1>2. Rank("exactSplit") = 1 /\ Rank("roundUpTo7Days") = 2
      /\ Rank("roundUpTo28Days") = 3
  BY DEF Rank
<1>3. \E b \in S : Best(b)
  <2> DEFINE c1 == o("exactSplit").costInCents
             c2 == o("roundUpTo7Days").costInCents
             c3 == o("roundUpTo28Days").costInCents
  <2>1. c1 \in Nat /\ c2 \in Nat /\ c3 \in Nat
    BY <1>1 DEF Strategy
  <2>2. CASE c3 <= c2 /\ c3 <= c1
    <3>1. Best(o("roundUpTo28Days"))
      BY <2>1, <2>2, <1>1, <1>2 DEF Strategy
    <3> QED BY <3>1 DEF Strategy
  <2>3. CASE c2 < c3 /\ c2 <= c1
    <3>1. Best(o("roundUpTo7Days"))
      BY <2>1, <2>3, <1>1, <1>2 DEF Strategy
    <3> QED BY <3>1 DEF Strategy
  <2>4. CASE c1 < c2 /\ c1 < c3
    <3>1. Best(o("exactSplit"))
      BY <2>1, <2>4, <1>1, <1>2 DEF Strategy
    <3> QED BY <3>1 DEF Strategy
  <2> QED BY <2>1, <2>2, <2>3, <2>4
<1>4. CalculateOptimalCost(n, p) = CHOOSE b \in S : Best(b)
  BY DEF CalculateOptimalCost
<1>5. CalculateOptimalCost(n, p) \in S /\ Best(CalculateOptimalCost(n, p))
  BY <1>3, <1>4
<1>6. PICK t \in Strategy : CalculateOptimalCost(n, p) = o(t)
  BY <1>5
<1>7. Cost(n, p) \in Nat
  BY <1>1, <1>6 DEF Cost
<1> QED BY <1>1, <1>5, <1>6, <1>7 DEF Cost

\* The three costs the engine compares, in terms of the exact split.
LEMMA ThreeCosts ==
    ASSUME NEW n \in Nat, NEW p \in Pricing
    PROVE  LET e == ExactSplit(n) IN
           /\ Option("exactSplit", n, p).costInCents =
                 e.days28 * p.per28Days + e.days7 * p.per7Days + e.days1 * p.per1Day
           /\ Option("roundUpTo7Days", n, p).costInCents =
                 e.days28 * p.per28Days + (e.days7 + 1) * p.per7Days
           /\ Option("roundUpTo28Days", n, p).costInCents =
                 (e.days28 + 1) * p.per28Days
<1> DEFINE e == ExactSplit(n)
<1>1. e \in RentalPeriod
  BY SplitRight
<1>2. p.per28Days \in Nat /\ p.per7Days \in Nat /\ p.per1Day \in Nat
  BY PriceAssumption DEF Pricing
<1>3. 0 * p.per7Days = 0 /\ 0 * p.per1Day = 0
  BY <1>2
<1>4. Option("exactSplit", n, p).costInCents = CalculateCost(e, p)
  BY DEF Option, Distribution
<1>5. Option("roundUpTo7Days", n, p).costInCents = CalculateCost(RoundUpTo7(e), p)
  BY DEF Option, Distribution
<1>6. Option("roundUpTo28Days", n, p).costInCents = CalculateCost(RoundUpTo28(e), p)
  BY DEF Option, Distribution
<1>7. /\ RoundUpTo7(e).days28 = e.days28
      /\ RoundUpTo7(e).days7 = e.days7 + 1
      /\ RoundUpTo7(e).days1 = 0
  BY <1>1 DEF RoundUpTo7, RentalPeriod
<1>8. /\ RoundUpTo28(e).days28 = e.days28 + 1
      /\ RoundUpTo28(e).days7 = 0
      /\ RoundUpTo28(e).days1 = 0
  BY <1>1 DEF RoundUpTo28, RentalPeriod
<1>9. /\ e.days28 * p.per28Days \in Nat
      /\ (e.days7 + 1) * p.per7Days \in Nat
      /\ (e.days28 + 1) * p.per28Days \in Nat
  BY <1>1, <1>2, ProductNat DEF RentalPeriod
<1>10. CalculateCost(RoundUpTo7(e), p) =
         e.days28 * p.per28Days + (e.days7 + 1) * p.per7Days
  BY <1>3, <1>7, <1>9 DEF CalculateCost
<1>11. CalculateCost(RoundUpTo28(e), p) = (e.days28 + 1) * p.per28Days
  BY <1>3, <1>8, <1>9 DEF CalculateCost
<1> QED BY <1>4, <1>5, <1>6, <1>10, <1>11 DEF CalculateCost
-------------------------------------------------------------------------------
(***************************************************************************)
(* With degressive prices no choice of 28-day blocks, weeks and days that  *)
(* lasts for the rental is cheaper than calculateOptimalCost.              *)
(***************************************************************************)
THEOREM CheapestCover ==
    ASSUME NEW n \in Nat, NEW p \in Pricing, Degressive(p),
           NEW x \in Nat, NEW y \in Nat, NEW z \in Nat, Covers(x, y, z, n)
    PROVE  Cost(n, p) <= x * p.per28Days + y * p.per7Days + z * p.per1Day
<1> DEFINE P28 == p.per28Days
           P7  == p.per7Days
           P1  == p.per1Day
           a   == ExactSplit(n).days28
           b   == ExactSplit(n).days7
           c   == ExactSplit(n).days1
<1>1. P28 \in Nat /\ P7 \in Nat /\ P1 \in Nat /\ P7 <= 7 * P1 /\ P28 <= 4 * P7
  BY PriceAssumption DEF Pricing, Degressive
<1>2. a \in Nat /\ b \in Nat /\ c \in Nat /\ n = 28 * a + 7 * b + c
  BY SplitRight DEF RentalPeriod
<1>3. 28 * x + 7 * y + z >= 28 * a + 7 * b + c
  BY <1>2 DEF Covers
<1>4. /\ Cost(n, p) \in Nat
      /\ Cost(n, p) <= a * P28 + b * P7 + c * P1
      /\ Cost(n, p) <= a * P28 + (b + 1) * P7
      /\ Cost(n, p) <= (a + 1) * P28
  BY OptimalIsBest, ThreeCosts DEF Strategy
<1> HIDE DEF P28, P7, P1, a, b, c
<1>5. x * P28 \in Nat /\ y * P7 \in Nat /\ z * P1 \in Nat
  BY <1>1, ProductNat
<1> SUFFICES Cost(n, p) <= x * P28 + y * P7 + z * P1
  BY DEF P28, P7, P1
<1>6. CASE x >= a + 1
  <2>1. (a + 1) * P28 <= x * P28
    BY <1>1, <1>2, <1>6, ProductMonotone
  <2>2. (a + 1) * P28 \in Nat
    BY <1>1, <1>2, ProductNat
  <2> QED BY <1>4, <1>5, <2>1, <2>2
<1>7. CASE x <= a
  \* k blocks of 28 days are missing, and are made up for by weeks and days.
  <2> DEFINE k == a - x
  <2>1. k \in Nat /\ a = x + k
    BY <1>2, <1>7
  <2> HIDE DEF k
  <2>2. a * P28 = x * P28 + k * P28
    BY <1>1, <2>1
  <2>3. k * P28 <= 4 * (k * P7)
    <3>1. P28 * k <= (4 * P7) * k
      BY <1>1, <2>1, ProductMonotone
    <3>2. P28 * k = k * P28 /\ (4 * P7) * k = 4 * (k * P7)
      BY <1>1, <2>1
    <3> QED BY <3>1, <3>2
  <2>4. k * P28 \in Nat /\ k * P7 \in Nat /\ b * P7 \in Nat /\ c * P1 \in Nat
    BY <1>1, <1>2, <2>1, ProductNat
  <2>5. CASE y >= 4 * k + b + 1
    <3>1. (4 * k + b + 1) * P7 <= y * P7
      BY <1>1, <1>2, <2>1, <2>5, ProductMonotone
    <3>2. (4 * k + b + 1) * P7 = 4 * (k * P7) + (b + 1) * P7
      BY <1>1, <1>2, <2>1
    <3>3. (b + 1) * P7 \in Nat
      BY <1>1, <1>2, ProductNat
    <3> QED BY <1>4, <1>5, <2>2, <2>3, <2>4, <3>1, <3>2, <3>3
  <2>6. CASE y <= 4 * k + b
    <3> DEFINE m == 4 * k + b - y
    <3>1. m \in Nat /\ 4 * k + b = y + m
      BY <1>2, <2>1, <2>6
    <3>2. z >= 7 * m + c
      BY <1>2, <1>3, <2>1, <3>1
    <3> HIDE DEF m
    <3>3. (7 * m + c) * P1 <= z * P1
      BY <1>1, <1>2, <3>1, <3>2, ProductMonotone
    <3>4. (7 * m + c) * P1 = 7 * (m * P1) + c * P1
      BY <1>1, <1>2, <3>1
    <3>5. m * P7 <= 7 * (m * P1)
      <4>1. P7 * m <= (7 * P1) * m
        BY <1>1, <3>1, ProductMonotone
      <4>2. P7 * m = m * P7 /\ (7 * P1) * m = 7 * (m * P1)
        BY <1>1, <3>1
      <4> QED BY <4>1, <4>2
    <3>6. y * P7 + m * P7 = 4 * (k * P7) + b * P7
      <4>1. (y + m) * P7 = y * P7 + m * P7
        BY <1>1, <3>1
      <4>2. (4 * k + b) * P7 = 4 * (k * P7) + b * P7
        BY <1>1, <1>2, <2>1
      <4> QED BY <3>1, <4>1, <4>2
    <3>7. m * P7 \in Nat /\ m * P1 \in Nat
      BY <1>1, <3>1, ProductNat
    <3> QED BY <1>4, <1>5, <2>2, <2>3, <2>4, <3>3, <3>4, <3>5, <3>6, <3>7
  <2> QED BY <1>2, <2>1, <2>5, <2>6
<1> QED BY <1>2, <1>6, <1>7

(***************************************************************************)
(* A rental of one more day does not cost less, whatever the prices.       *)
(***************************************************************************)
THEOREM OneMoreDay ==
    ASSUME NEW n \in Nat, NEW p \in Pricing
    PROVE  Cost(n, p) <= Cost(n + 1, p)
<1> DEFINE P28 == p.per28Days
           P7  == p.per7Days
           P1  == p.per1Day
           a   == ExactSplit(n).days28
           b   == ExactSplit(n).days7
           c   == ExactSplit(n).days1
           aa  == ExactSplit(n + 1).days28
           bb  == ExactSplit(n + 1).days7
           cc  == ExactSplit(n + 1).days1
<1>1. P28 \in Nat /\ P7 \in Nat /\ P1 \in Nat
  BY PriceAssumption DEF Pricing
<1>2. a \in Nat /\ b \in Nat /\ b <= 3 /\ c \in Nat /\ c <= 6
  BY SplitRight DEF RentalPeriod
<1>3. /\ aa \in Nat /\ bb \in Nat /\ bb <= 3 /\ cc \in Nat /\ cc <= 6
      /\ 28 * aa + 7 * bb + cc = n + 1
  <2>1. n + 1 \in Nat
    OBVIOUS
  <2> QED BY <2>1, SplitRight DEF RentalPeriod
<1>4. 28 * aa + 7 * bb + cc = 28 * a + 7 * b + c + 1
  BY <1>3, SplitRight
<1>5. /\ Cost(n, p) \in Nat
      /\ Cost(n, p) <= a * P28 + b * P7 + c * P1
      /\ Cost(n, p) <= a * P28 + (b + 1) * P7
      /\ Cost(n, p) <= (a + 1) * P28
  BY OptimalIsBest, ThreeCosts DEF Strategy
<1>6. \/ Cost(n + 1, p) = aa * P28 + bb * P7 + cc * P1
      \/ Cost(n + 1, p) = aa * P28 + (bb + 1) * P7
      \/ Cost(n + 1, p) = (aa + 1) * P28
  BY OptimalIsBest, ThreeCosts, n + 1 \in Nat DEF Strategy, Cost
<1> HIDE DEF P28, P7, P1, a, b, c, aa, bb, cc
<1>7. /\ a * P28 \in Nat /\ b * P7 \in Nat /\ c * P1 \in Nat
      /\ bb * P7 \in Nat /\ cc * P1 \in Nat
      /\ (a + 1) * P28 = a * P28 + P28
      /\ (b + 1) * P7 = b * P7 + P7
      /\ (bb + 1) * P7 = bb * P7 + P7
      /\ (c + 1) * P1 = c * P1 + P1
      /\ (aa + 1) * P28 = aa * P28 + P28
      /\ 0 * P7 = 0 /\ 0 * P1 = 0
  BY <1>1, <1>2, <1>3, ProductNat
<1>8. \/ aa = a /\ bb = b /\ cc = c + 1
      \/ aa = a /\ bb = b + 1 /\ cc = 0
      \/ aa = a + 1 /\ bb = 0 /\ cc = 0
  BY <1>2, <1>3, <1>4
<1>9. CASE aa = a /\ bb = b /\ cc = c + 1
  BY <1>1, <1>5, <1>6, <1>7, <1>9
<1>10. CASE aa = a /\ bb = b + 1 /\ cc = 0
  BY <1>1, <1>5, <1>6, <1>7, <1>10
<1>11. CASE aa = a + 1 /\ bb = 0 /\ cc = 0
  BY <1>1, <1>5, <1>6, <1>7, <1>11
<1> QED BY <1>8, <1>9, <1>10, <1>11
-------------------------------------------------------------------------------
(***************************************************************************)
(* The forecast.  IInv: every entry holds the optimal cost of its days, and*)
(* the accumulated cost of a day is that of the days charged so far.       *)
(***************************************************************************)
Priced ==
    \A i \in 1 .. day : days[i].option = CalculateOptimalCost(i, pricing)

Accumulated ==
    /\ accumulativeCost = IF day = 0 THEN 0 ELSE days[day].accumulativeCostInCents
    /\ \A i \in 1 .. day : days[i].accumulativeCostInCents = CostOfTerm(i)

IInv == TypeOK /\ Priced /\ Accumulated

LEMMA OptimalType ==
    ASSUME NEW n \in Nat, NEW p \in Pricing
    PROVE  CalculateOptimalCost(n, p) \in
             [strategy : Strategy, rentalPeriod : RentalPeriod, costInCents : Nat]
<1>1. PICK s \in Strategy : CalculateOptimalCost(n, p) = Option(s, n, p)
  BY OptimalIsBest
<1>2. Option(s, n, p) = [strategy |-> s,
                         rentalPeriod |-> Option(s, n, p).rentalPeriod,
                         costInCents |-> Option(s, n, p).costInCents]
  BY DEF Option
<1> QED BY <1>1, <1>2, OptionRight

LEMMA Invariance == Spec => []IInv
<1>1. Init => IInv
  BY DEF Init, IInv, TypeOK, Priced, Accumulated
<1>2. IInv /\ [Next]_vars => IInv'
  <2> SUFFICES ASSUME IInv, [Next]_vars PROVE IInv'
    OBVIOUS
  <2>1. CASE ForecastDay
    <3> DEFINE option == CalculateOptimalCost(day + 1, pricing)
               entry  == [day |-> day, option |-> option,
                          accumulativeCostInCents |-> accumulativeCost']
    <3>1. day \in Nat /\ pricing \in Pricing /\ days \in Seq(Entry)
          /\ Len(days) = day /\ accumulativeCost \in Nat
      BY DEF IInv, TypeOK
    <3>2. option \in [strategy : Strategy, rentalPeriod : RentalPeriod,
                      costInCents : Nat]
      BY <3>1, OptimalType
    <3>3. option.costInCents \in Nat
      BY <3>2
    <3>4. accumulativeCost' = IF IsPastRentalTerm(day) THEN accumulativeCost
                              ELSE option.costInCents
      BY <2>1 DEF ForecastDay
    <3>5. accumulativeCost' \in Nat
      BY <3>1, <3>3, <3>4
    <3>6. /\ days' = Append(days, entry) /\ day' = day + 1
          /\ pricing' = pricing /\ rentalEnd' = rentalEnd
      BY <2>1 DEF ForecastDay
    <3>7. entry \in Entry
      BY <3>1, <3>2, <3>5 DEF Entry
    <3> HIDE DEF option
    <3>8. /\ days'[day + 1] = entry
          /\ \A i \in 1 .. day : days'[i] = days[i]
      BY <3>1, <3>6, <3>7
    <3>9. entry.option = option /\ entry.accumulativeCostInCents = accumulativeCost'
      OBVIOUS
    <3> HIDE DEF entry
    <3>10. TypeOK'
      BY <3>1, <3>5, <3>6, <3>7 DEF IInv, TypeOK
    <3>11. Priced'
      <4> SUFFICES ASSUME NEW i \in 1 .. day'
                   PROVE  days'[i].option = CalculateOptimalCost(i, pricing')
        BY DEF Priced
      <4>1. CASE i = day + 1
        BY <3>6, <3>8, <3>9, <4>1 DEF option
      <4>2. CASE i # day + 1
        BY <3>1, <3>6, <3>8, <4>2 DEF IInv, Priced
      <4> QED BY <4>1, <4>2
    <3>12. Accumulated'
      <4>1. rentalEnd \in Int \/ rentalEnd = NoEnd
        BY RentalEndAssumption DEF IInv, TypeOK
      <4>2. \A i \in 1 .. day + 1 : LastCharged(i)' = LastCharged(i)
        BY <3>6 DEF LastCharged
      <4>3. accumulativeCost' = days'[day'].accumulativeCostInCents /\ day' # 0
        BY <3>1, <3>6, <3>8, <3>9
      <4>4. ASSUME NEW i \in 1 .. day'
            PROVE  days'[i].accumulativeCostInCents = CostOfTerm(i)'
        <5>1. CASE i \in 1 .. day
          <6>1. days'[i] = days[i] /\ days[i].accumulativeCostInCents = CostOfTerm(i)
            BY <3>8, <5>1 DEF IInv, Accumulated
          <6>2. LastCharged(i) <= day
            BY <3>1, <4>1, <5>1 DEF LastCharged
          <6>3. LastCharged(i) \in Int
            BY <3>1, <4>1, <5>1, RentalEndAssumption DEF LastCharged
          <6>4. LastCharged(i) > 0 => days'[LastCharged(i)] = days[LastCharged(i)]
            BY <3>1, <3>8, <6>2, <6>3
          <6> QED BY <3>1, <4>2, <5>1, <6>1, <6>3, <6>4 DEF CostOfTerm
        <5>2. CASE i = day + 1 /\ ~IsPastRentalTerm(day)
          <6>1. LastCharged(i) = day + 1
            BY <3>1, <4>1, <5>2 DEF LastCharged, IsPastRentalTerm
          <6>2. days'[i].accumulativeCostInCents = option.costInCents
                /\ days'[day + 1].option = option
            BY <3>4, <3>8, <3>9, <5>2
          <6> QED BY <3>1, <3>6, <4>2, <5>2, <6>1, <6>2 DEF CostOfTerm
        <5>3. CASE i = day + 1 /\ IsPastRentalTerm(day)
          <6>1. rentalEnd \in Int /\ rentalEnd # NoEnd /\ rentalEnd < day
            BY <3>1, <4>1, <5>3 DEF IsPastRentalTerm
          <6>2. LastCharged(i)' = rentalEnd + 1
            BY <3>1, <4>2, <5>3, <6>1 DEF LastCharged
          <6>3. days'[i].accumulativeCostInCents = accumulativeCost
            BY <3>4, <3>8, <3>9, <5>3
          <6>4. CASE day = 0
            <7>1. accumulativeCost = 0 /\ rentalEnd + 1 <= 0
              BY <6>1, <6>4 DEF IInv, Accumulated
            <7> QED BY <6>2, <6>3, <7>1 DEF CostOfTerm
          <6>5. CASE day > 0
            <7>1. accumulativeCost = CostOfTerm(day)
              BY <3>1, <6>5 DEF IInv, Accumulated
            <7>2. LastCharged(day) = rentalEnd + 1
              BY <3>1, <6>1, <6>5 DEF LastCharged
            <7>3. rentalEnd + 1 > 0 => days'[rentalEnd + 1] = days[rentalEnd + 1]
              BY <3>1, <3>8, <6>1
            <7> QED BY <6>1, <6>2, <6>3, <7>1, <7>2, <7>3 DEF CostOfTerm
          <6> QED BY <3>1, <6>4, <6>5
        <5> QED BY <3>1, <3>6, <5>1, <5>2, <5>3
      <4> QED BY <4>3, <4>4 DEF Accumulated
    <3> QED BY <3>10, <3>11, <3>12 DEF IInv
  <2>2. CASE UNCHANGED vars
    BY <2>2 DEF IInv, TypeOK, Priced, Accumulated, CostOfTerm, LastCharged, vars
  <2> QED BY <2>1, <2>2 DEF Next
<1> QED BY <1>1, <1>2, PTL DEF Spec

(***************************************************************************)
(* The forecast is well typed.                                             *)
(***************************************************************************)
THEOREM TypeCorrect == Spec => []TypeOK
BY Invariance, PTL DEF IInv

(***************************************************************************)
(* What a rental is charged covers its days, and with degressive prices no *)
(* other blocks that do are cheaper.                                       *)
(***************************************************************************)
THEOREM CostCorrect == Spec => []CheapestCoverCharged
<1>1. IInv => CheapestCoverCharged
  <2> SUFFICES ASSUME IInv, day > 0
               PROVE  CheapestCoverCharged
    BY DEF CheapestCoverCharged
  <2> DEFINE option == days[day].option
             period == option.rentalPeriod
  <2>1. day \in Nat /\ pricing \in Pricing
    BY DEF IInv, TypeOK
  <2>2. option = CalculateOptimalCost(day, pricing)
    BY <2>1 DEF IInv, Priced
  <2>3. PICK s \in Strategy : option = Option(s, day, pricing)
    BY <2>1, <2>2, OptimalIsBest
  <2>4. option.costInCents = CalculateCost(period, pricing)
    BY <2>1, <2>3, OptionRight
  <2>5. Covers(period.days28, period.days7, period.days1, day)
    <3> DEFINE e == ExactSplit(day)
    <3>1. /\ e.days28 \in Nat /\ e.days7 \in Nat /\ e.days1 \in Nat
          /\ e.days7 <= 3 /\ e.days1 <= 6
          /\ day = 28 * e.days28 + 7 * e.days7 + e.days1
      BY <2>1, SplitRight DEF RentalPeriod
    <3>2. period = Distribution(s, e)
      BY <2>3 DEF Option
    <3>3. period = e \/ period = RoundUpTo7(e) \/ period = RoundUpTo28(e)
      BY <3>2 DEF Distribution, Strategy
    <3> HIDE DEF e, period
    <3> QED BY <2>1, <3>1, <3>3 DEF Covers, RoundUpTo7, RoundUpTo28
  <2>6. ASSUME Degressive(pricing), NEW x \in Nat, NEW y \in Nat, NEW z \in Nat,
               Covers(x, y, z, day)
        PROVE  option.costInCents <=
                 x * pricing.per28Days + y * pricing.per7Days + z * pricing.per1Day
    BY <2>1, <2>2, <2>6, CheapestCover DEF Cost
  <2> QED BY <2>4, <2>5, <2>6 DEF CheapestCoverCharged, Latest
<1> QED BY <1>1, Invariance, PTL

(***************************************************************************)
(* The forecast never goes down, whatever the prices and the term.         *)
(***************************************************************************)
THEOREM ForecastMonotone == Spec => []LongerNeverCheaper
<1>1. IInv => LongerNeverCheaper
  <2> SUFFICES ASSUME IInv, day > 1
               PROVE  LongerNeverCheaper
    BY DEF LongerNeverCheaper
  <2>1. day \in Nat /\ pricing \in Pricing /\ (rentalEnd \in Int \/ rentalEnd = NoEnd)
    BY RentalEndAssumption DEF IInv, TypeOK
  <2>2. ASSUME NEW i \in 1 .. day
        PROVE  days[i].option.costInCents = Cost(i, pricing)
               /\ days[i].accumulativeCostInCents = CostOfTerm(i)
    BY DEF IInv, Priced, Accumulated, Cost
  <2>3. day - 1 \in 1 .. day /\ day \in 1 .. day /\ day - 1 \in Nat
    BY <2>1
  <2>4. Cost(day - 1, pricing) <= Cost(day, pricing)
    <3>1. (day - 1) + 1 = day
      BY <2>1
    <3> QED BY <2>1, <2>3, <3>1, OneMoreDay
  <2>5. days[day - 1].option.costInCents <= days[day].option.costInCents
    BY <2>2, <2>3, <2>4
  <2>6. CostOfTerm(day - 1) <= CostOfTerm(day)
    <3>1. CASE LastCharged(day) = day
      <4>1. LastCharged(day - 1) = day - 1
        BY <2>1, <3>1 DEF LastCharged
      <4> QED BY <2>1, <2>5, <3>1, <4>1 DEF CostOfTerm
    <3>2. CASE LastCharged(day) # day
      <4>1. LastCharged(day) = rentalEnd + 1 /\ rentalEnd \in Int /\ rentalEnd # NoEnd
            /\ rentalEnd < day - 1
        BY <2>1, <3>2, RentalEndAssumption DEF LastCharged
      <4>2. LastCharged(day - 1) = rentalEnd + 1
        BY <2>1, <4>1 DEF LastCharged
      <4>3. rentalEnd + 1 > 0 => rentalEnd + 1 \in 1 .. day
        BY <2>1, <4>1
      <4>4. CostOfTerm(day) \in Nat
        <5>1. rentalEnd + 1 > 0 => Cost(rentalEnd + 1, pricing) \in Nat
          BY <2>1, <4>1, OptimalIsBest
        <5> QED BY <2>2, <4>1, <4>3, <5>1 DEF CostOfTerm
      <4> QED BY <4>1, <4>2, <4>4 DEF CostOfTerm
    <3> QED BY <3>1, <3>2
  <2> QED BY <2>2, <2>3, <2>5, <2>6 DEF LongerNeverCheaper, Latest
<1> QED BY <1>1, Invariance, PTL

(***************************************************************************)
(* The forecast stops at the end of the term.                              *)
(***************************************************************************)
THEOREM TermCorrect == Spec => []TermIsCharged
<1>1. IInv => TermIsCharged
  BY DEF IInv, TypeOK, Accumulated, TermIsCharged, Latest
<1> QED BY <1>1, Invariance, PTL
===============================================================================
