------------------------------ MODULE PriceEngine ------------------------------
(***************************************************************************)
(* services/price_engine: what a rental of a number of days costs, and the *)
(* forecast of the cost day by day.                                        *)
(*                                                                         *)
(* A rental is priced in blocks of 28 days, 7 days and 1 day.  The engine  *)
(* compares three ways to cover the days: the exact split into the largest *)
(* blocks, the split with its single days replaced by one more week, and   *)
(* the split with everything beyond its 28-day blocks replaced by one more *)
(* of those.  Amounts are whole cents.  The forecast is a loop over the    *)
(* days from the start; its state is the state of this module.             *)
(***************************************************************************)
EXTENDS Integers, Sequences

CONSTANTS
    Price,       \* prices in cents
    RentalEnd,   \* ends of the term, in days from the start
    MaxDays,     \* bound: numberOfDaysToForcast
    NoEnd        \* the rental has no end date

ASSUME PriceAssumption == Price \subseteq Nat
ASSUME RentalEndAssumption == RentalEnd \subseteq Int /\ NoEnd \notin Int
ASSUME BoundAssumption == MaxDays \in Nat

Pricing == [per28Days : Price, per7Days : Price, per1Day : Price]

RentalPeriod == [days28 : Nat, days7 : Nat, days1 : Nat, totalDays : Nat]

Strategy == {"exactSplit", "roundUpTo7Days", "roundUpTo28Days"}

VARIABLES
    pricing,          \* the three prices of the forecast
    rentalEnd,        \* days from the start to rentalEndDate, or NoEnd
    day,              \* i, the day the loop is at
    days,             \* the entries of the days before it
    accumulativeCost  \* of the last of them

vars == <<pricing, rentalEnd, day, days, accumulativeCost>>
-------------------------------------------------------------------------------
\* Mutant: weeks are rounded up, and the single days are what is left.
WeeksRoundedUp(totalDays) ==
    LET weeks == ((totalDays % 28) + 6) \div 7 IN
    [days28 |-> totalDays \div 28, days7 |-> weeks,
     days1 |-> (totalDays % 28) - 7 * weeks, totalDays |-> totalDays]

\* calculateRentalPeriod
ExactSplit(totalDays) ==
    [days28 |-> totalDays \div 28, days7 |-> (totalDays % 28) \div 7,
     days1 |-> totalDays % 7, totalDays |-> totalDays]

RoundUpTo7(period) ==
    [days28 |-> period.days28, days7 |-> period.days7 + 1, days1 |-> 0,
     totalDays |-> period.totalDays]

RoundUpTo28(period) ==
    [days28 |-> period.days28 + 1, days7 |-> 0, days1 |-> 0,
     totalDays |-> period.totalDays]

\* generateDistributionOptions
Distribution(strategy, period) ==
    CASE strategy = "exactSplit"      -> period
      [] strategy = "roundUpTo7Days"  -> RoundUpTo7(period)
      [] strategy = "roundUpTo28Days" -> RoundUpTo28(period)

CalculateCost(period, p) ==
    period.days28 * p.per28Days + period.days7 * p.per7Days + period.days1 * p.per1Day

\* The order of the options, in which the last of the cheapest is taken.
Rank(strategy) ==
    CASE strategy = "exactSplit"      -> 1
      [] strategy = "roundUpTo7Days"  -> 2
      [] strategy = "roundUpTo28Days" -> 3

Option(strategy, totalDays, p) ==
    LET period == Distribution(strategy, ExactSplit(totalDays)) IN
    [strategy |-> strategy, rentalPeriod |-> period,
     costInCents |-> CalculateCost(period, p)]

\* Mutant: the cheaper of the last two options; the exact split is forgotten.
CheaperRoundUp(totalDays, p) ==
    LET a == Option("roundUpTo7Days", totalDays, p)
        b == Option("roundUpTo28Days", totalDays, p)
    IN IF b.costInCents <= a.costInCents THEN b ELSE a

\* Mutant: the option of one more 28-day block is forgotten.
CheaperWithin28(totalDays, p) ==
    LET a == Option("exactSplit", totalDays, p)
        b == Option("roundUpTo7Days", totalDays, p)
    IN IF b.costInCents <= a.costInCents THEN b ELSE a

CalculateOptimalCost(totalDays, p) ==
    CHOOSE best \in {Option(s, totalDays, p) : s \in Strategy} :
        \A s \in Strategy :
            LET other == Option(s, totalDays, p) IN
            \/ best.costInCents < other.costInCents
            \/ /\ best.costInCents = other.costInCents
               /\ Rank(s) <= Rank(best.strategy)
-------------------------------------------------------------------------------
(***************************************************************************)
(* forecastPricing.  Day i ends i days after the start, and a rental from  *)
(* the start to that day has i + 1 days.                                   *)
(***************************************************************************)
Init ==
    /\ pricing \in Pricing
    /\ rentalEnd \in RentalEnd \cup {NoEnd}
    /\ day = 0
    /\ days = <<>>
    /\ accumulativeCost = 0

\* Mutant: the last day of the term counts as past it.
EndDayIsPast(i) == rentalEnd # NoEnd /\ i >= rentalEnd

IsPastRentalTerm(i) == rentalEnd # NoEnd /\ i > rentalEnd

ForecastDay ==
    /\ day <= MaxDays
    /\ LET option == CalculateOptimalCost(day + 1, pricing) IN
       /\ accumulativeCost' = IF IsPastRentalTerm(day) THEN accumulativeCost
                              ELSE option.costInCents
       /\ days' = Append(days, [day |-> day, option |-> option,
                                accumulativeCostInCents |-> accumulativeCost'])
    /\ day' = day + 1
    /\ UNCHANGED <<pricing, rentalEnd>>

Next == ForecastDay

Spec == Init /\ [][Next]_vars
-------------------------------------------------------------------------------
Entry == [day : Nat, accumulativeCostInCents : Nat,
          option : [strategy : Strategy, rentalPeriod : RentalPeriod,
                    costInCents : Nat]]

(***************************************************************************)
(* Costs are whole cents, counts of blocks are not negative, and there is  *)
(* an entry for each day of the forecast so far.                           *)
(***************************************************************************)
TypeOK ==
    /\ pricing \in Pricing
    /\ rentalEnd \in RentalEnd \cup {NoEnd}
    /\ day \in Nat
    /\ days \in Seq(Entry)
    /\ Len(days) = day
    /\ accumulativeCost \in Nat

(***************************************************************************)
(* A week is not dearer than seven days, nor 28 days than four weeks.      *)
(***************************************************************************)
Degressive(p) == p.per7Days <= 7 * p.per1Day /\ p.per28Days <= 4 * p.per7Days

\* x blocks of 28 days, y weeks and z days last for n days.
Covers(x, y, z, n) == 28 * x + 7 * y + z >= n

\* The entry of the latest day.
Latest == days[day]

(***************************************************************************)
(* The blocks charged for last as long as the rental and add up to the     *)
(* cost; and when prices are degressive no other blocks that last as long  *)
(* are cheaper: the three options of the engine are enough.  (TLC compares *)
(* the covers without a block too many; theorem CheapestCover, all.)       *)
(***************************************************************************)
CheapestCoverCharged ==
    day > 0 =>
        LET option == Latest.option
            period == option.rentalPeriod
        IN /\ Covers(period.days28, period.days7, period.days1, day)
           /\ option.costInCents = CalculateCost(period, pricing)
           /\ Degressive(pricing) =>
                \A x \in 0 .. day \div 28 + 1, y \in 0 .. day \div 7 + 1, z \in 0 .. day :
                    Covers(x, y, z, day) =>
                        option.costInCents <=
                            x * pricing.per28Days + y * pricing.per7Days
                              + z * pricing.per1Day

(***************************************************************************)
(* One more day never makes a rental cheaper, whatever the prices: neither *)
(* the cost of the longer rental nor the accumulated cost goes down where a*)
(* week or a 28-day block takes over.                                      *)
(***************************************************************************)
LongerNeverCheaper ==
    day > 1 =>
        LET before == days[day - 1] IN
        /\ before.option.costInCents <= Latest.option.costInCents
        /\ before.accumulativeCostInCents <= Latest.accumulativeCostInCents

\* Of the first i days the last one in the term, and the cost up to it.
LastCharged(i) ==
    IF rentalEnd = NoEnd \/ i - 1 <= rentalEnd THEN i ELSE rentalEnd + 1

CostOfTerm(i) ==
    IF LastCharged(i) <= 0 THEN 0 ELSE days[LastCharged(i)].option.costInCents

(***************************************************************************)
(* Past the end of its term a rental costs what it costs for the term, the *)
(* day of the end included.                                                *)
(***************************************************************************)
TermIsCharged == day > 0 => Latest.accumulativeCostInCents = CostOfTerm(day)
===============================================================================
