-------------------------- MODULE RentalBilling_proofs --------------------------
(***************************************************************************)
(* Proofs about RentalBilling for any workers, calendar, dates and bounds. *)
(***************************************************************************)
EXTENDS RentalBilling, Induction, TLAPS
-------------------------------------------------------------------------------
(***************************************************************************)
(* Charges and the documents they belong to, committed or about to be.     *)
(***************************************************************************)
Ids(cs) == {c.id : c \in cs}

OneEachId(cs) == \A c, d \in cs : c.id = d.id => c = d

\* A billing period is dated and not turned round.
Dated(c) ==
    c.chargeType = "RENTAL" =>
        /\ c.billingPeriodStart \in Time /\ c.billingPeriodEnd \in Time
        /\ c.billingPeriodStart <= c.billingPeriodEnd

\* The ids up to last have been handed out.
ChargesRight(cs, last) ==
    /\ cs \subseteq Charge
    /\ OneEachId(cs)
    /\ \A c \in cs : c.id <= last /\ Dated(c)

\* What is billed is billed from the start, which is then set.
PositionRight(doc) ==
    doc.lastBillingPeriodEnd # NoDate =>
        /\ doc.rentalStartDate # NoDate
        /\ doc.rentalStartDate <= doc.lastBillingPeriodEnd

DocumentRight(doc) ==
    doc \in Fulfilment /\ PositionRight(doc) /\ DaysCounted(doc)

DbRight ==
    /\ ChargesRight(charges, lastCharge)
    /\ fulfilment # Null => DocumentRight(fulfilment)
    /\ BilledOnce(fulfilment, charges)
    /\ revision = 0 => fulfilment = Null /\ RentalCharges(charges) = {}

(***************************************************************************)
(* A request t and its open transaction v.                                 *)
(***************************************************************************)
RequestRight(t) ==
    /\ t.op = "nightly" => t.step = "run"
    /\ t.op = "create" => revision = 0
    /\ t.op \in {"setStart", "setEnd", "setExpectedEnd"} => t.date \in Time
    /\ t.op = "setEnd" =>
          /\ revision > 0
          /\ fulfilment = Null \/ fulfilment.rentalStartDate # NoDate
    /\ t.step \in {"cancel", "deliver"} =>
          t.op \in {"create", "setStart"} /\ t.date \in Time

\* None of the charges is on an invoice, as far as a page of them can tell.
SeenOpen(cs) == OnOnePage(cs) => \A c \in cs : ~c.invoiced

TxnRight(t, v) ==
    /\ t.step \in {"idle", "run"} => v = NoTxn
    /\ t.step \in {"cancel", "deliver"} => v.writesDoc
    /\ IF v.writesDoc THEN DocumentRight(v.doc) /\ v.allocated = {}
       ELSE v.deleted = {} /\ RentalCharges(v.inserted) = {}
    /\ SeenOpen(v.deleted)
    /\ \A c \in v.allocated : ~c.invoiced
    /\ ChargesRight(v.inserted, lastCharge)
    /\ Ids(v.inserted) \cap Ids(charges) = {}
    /\ v.base <= revision

\* The charges that stay if those of deleted are deleted.
Left(deleted) == {c \in charges : c.id \notin Ids(deleted)}

(***************************************************************************)
(* As long as nobody has written the document since its snapshot, what the *)
(* transaction would leave behind is billed once.                          *)
(***************************************************************************)
SnapshotRight(t, v) ==
    v.writesDoc /\ v.base = revision =>
        /\ BilledOnce(v.doc, Left(v.deleted) \cup v.inserted)
        /\ t.op # "create" => fulfilment # Null
        /\ t.op \notin {"create", "setStart"} =>
              v.doc.rentalStartDate = fulfilment.rentalStartDate
        /\ t.op = "setStart" => /\ v.doc.rentalStartDate # NoDate
                                /\ RentalCharges(Left(v.deleted)) = {}

WorkerRight(t, v) == RequestRight(t) /\ TxnRight(t, v) /\ SnapshotRight(t, v)

\* Charge ids are handed out once, and a rental is created once.
WorkersApart ==
    \A w, u \in Worker : w # u =>
        /\ Ids(txn[w].inserted) \cap Ids(txn[u].inserted) = {}
        /\ ~(task[w].op = "create" /\ task[u].op = "create")

IInv ==
    /\ TypeOK
    /\ DbRight
    /\ \A w \in Worker : WorkerRight(task[w], txn[w])
    /\ WorkersApart
-------------------------------------------------------------------------------
(***************************************************************************)
(* What it means that every instant is billed once.                        *)
(***************************************************************************)
Covers(c, t) ==
    c.chargeType = "RENTAL" /\ c.billingPeriodStart <= t /\ t < c.billingPeriodEnd

Reached(doc, t) ==
    /\ doc.lastBillingPeriodEnd # NoDate
    /\ doc.rentalStartDate <= t
    /\ t < doc.lastBillingPeriodEnd

CoveredRight(doc, cs, t) ==
    /\ Reached(doc, t) => \E c \in cs : Covers(c, t)
    /\ \A c \in cs : Covers(c, t) => Reached(doc, t)
    /\ \A c, d \in cs : Covers(c, t) /\ Covers(d, t) => c = d

LEMMA BilledOnceIs ==
    ASSUME NEW doc, NEW cs
    PROVE  BilledOnce(doc, cs) <=>
              (doc # Null => \A t \in Time : CoveredRight(doc, cs, t))
<1> DEFINE covering(t) == {c \in RentalCharges(cs) :
                             c.billingPeriodStart <= t /\ t < c.billingPeriodEnd}
           once(t) == IF Reached(doc, t) THEN \E c \in covering(t) : covering(t) = {c}
                      ELSE covering(t) = {}
<1>1. BilledOnce(doc, cs) <=> (doc # Null => \A t \in Time : once(t))
  BY DEF BilledOnce, Reached
<1>2. ASSUME NEW t \in Time
      PROVE  once(t) <=> CoveredRight(doc, cs, t)
  <2>1. \A c : c \in covering(t) <=> c \in cs /\ Covers(c, t)
    BY DEF RentalCharges, Covers
  <2> HIDE DEF covering
  <2>2. (\E c \in covering(t) : covering(t) = {c}) <=>
           /\ \E c \in cs : Covers(c, t)
           /\ \A c, d \in cs : Covers(c, t) /\ Covers(d, t) => c = d
    BY <2>1
  <2> QED BY <2>1, <2>2 DEF CoveredRight
<1> QED BY <1>1, <1>2

\* Only the rents, and of these only the periods and ids, tell what is billed.
SameRent(c, d) ==
    /\ c.chargeType = "RENTAL" /\ d.chargeType = "RENTAL" /\ c.id = d.id
    /\ c.billingPeriodStart = d.billingPeriodStart
    /\ c.billingPeriodEnd = d.billingPeriodEnd

SameRents(cs, ds) ==
    /\ \A c \in RentalCharges(cs) : \E d \in ds : SameRent(c, d)
    /\ \A d \in RentalCharges(ds) : \E c \in cs : SameRent(c, d)

LEMMA BilledStays ==
    ASSUME NEW doc, NEW cs, NEW ds, BilledOnce(doc, cs), SameRents(cs, ds), OneEachId(ds)
    PROVE  BilledOnce(doc, ds)
<1> SUFFICES ASSUME doc # Null, NEW t \in Time
             PROVE  CoveredRight(doc, ds, t)
  BY BilledOnceIs
<1>1. CoveredRight(doc, cs, t)
  BY BilledOnceIs
<1>2. \A c \in cs : Covers(c, t) => \E d \in ds : Covers(d, t) /\ SameRent(c, d)
  BY DEF SameRents, SameRent, Covers, RentalCharges
<1>3. \A d \in ds : Covers(d, t) => \E c \in cs : Covers(c, t) /\ SameRent(c, d)
  BY DEF SameRents, SameRent, Covers, RentalCharges
<1>4. ASSUME NEW c \in ds, NEW d \in ds, Covers(c, t), Covers(d, t)
      PROVE  c = d
  <2>1. PICK x \in cs : Covers(x, t) /\ SameRent(x, c)
    BY <1>3, <1>4
  <2>2. PICK y \in cs : Covers(y, t) /\ SameRent(y, d)
    BY <1>3, <1>4
  <2>3. x = y
    BY <1>1, <2>1, <2>2 DEF CoveredRight
  <2> QED BY <2>1, <2>2, <2>3, <1>4 DEF SameRent, OneEachId
<1> QED BY <1>1, <1>2, <1>3, <1>4 DEF CoveredRight

\* The next period, from where the last one ends.
LEMMA BilledMore ==
    ASSUME NEW doc, DocumentRight(doc), NEW cs, BilledOnce(doc, cs),
           NEW from \in Time, from = FirstUnbilled(doc), NEW to \in Time, from < to,
           NEW new, new.rentalStartDate = doc.rentalStartDate,
           new.lastBillingPeriodEnd = to,
           NEW c, c.chargeType = "RENTAL",
           c.billingPeriodStart = from, c.billingPeriodEnd = to
    PROVE  BilledOnce(new, cs \cup {c})
<1> SUFFICES ASSUME NEW t \in Time
             PROVE  CoveredRight(new, cs \cup {c}, t)
  BY BilledOnceIs
<1>1. doc # Null
  BY NullAssumption DEF DocumentRight
<1>2. CoveredRight(doc, cs, t)
  BY <1>1, BilledOnceIs
<1>3. t \in Int /\ from \in Int /\ to \in Int /\ to # NoDate
  BY SentinelAssumption DEF Time
<1>4. Covers(c, t) <=> from <= t /\ t < to
  BY DEF Covers
<1>5. Reached(new, t) <=> Reached(doc, t) \/ (from <= t /\ t < to)
  <2>1. CASE doc.lastBillingPeriodEnd = NoDate
    BY <2>1, <1>3 DEF Reached, FirstUnbilled
  <2>2. CASE doc.lastBillingPeriodEnd # NoDate
    <3>1. from = doc.lastBillingPeriodEnd /\ doc.rentalStartDate <= from
          /\ doc.rentalStartDate \in Int
      BY <2>2 DEF FirstUnbilled, DocumentRight, PositionRight, Fulfilment, Instant, Time
    <3> QED BY <2>2, <3>1, <1>3 DEF Reached
  <2> QED BY <2>1, <2>2
<1>6. Reached(doc, t) => ~(from <= t)
  BY <1>3 DEF Reached, FirstUnbilled
<1> QED BY <1>2, <1>4, <1>5, <1>6 DEF CoveredRight
-------------------------------------------------------------------------------
(***************************************************************************)
(* The billing loop.  cs are the charges that stay.                        *)
(***************************************************************************)
BillRight(bill, cs) ==
    /\ DocumentRight(bill.doc)
    /\ bill.last \in Nat /\ lastCharge <= bill.last
    /\ ChargesRight(bill.inserted, bill.last)
    /\ \A c \in bill.inserted : lastCharge < c.id
    /\ BilledOnce(bill.doc, cs \cup bill.inserted)

\* Only the last, partial, period is not billed when it is too short.
LoopRight(bill, doc, cs, until) ==
    /\ BillRight(bill, cs)
    /\ bill.doc.rentalStartDate = doc.rentalStartDate
    /\ bill.from \in Time
    /\ bill.from = FirstUnbilled(bill.doc) \/ until <= bill.from
    /\ bill = [from |-> bill.from, doc |-> bill.doc,
               inserted |-> bill.inserted, last |-> bill.last]

LEMMA PeriodEndRight ==
    ASSUME NEW from \in Time, NEW until \in Time, from < until
    PROVE  LET to == PeriodEnd(from, until)
           IN  /\ to \in Time /\ from < to
               /\ to = until \/ DaysBetween(from, to) = MinDays
<1>1. MaxTime \in Nat /\ PeriodLength \in Nat \ {0} /\ MinDays \in Nat
  BY BoundsAssumption
<1>2. CASE from + PeriodLength > until
  BY <1>1, <1>2 DEF PeriodEnd
<1>3. CASE ~(from + PeriodLength > until)
  <2>1. from + PeriodLength \in Time /\ PeriodEnd(from, until) = from + PeriodLength
    BY <1>1, <1>3 DEF PeriodEnd, Time
  <2>2. CalendarDay[from + PeriodLength] = CalendarDay[from] + MinDays
    BY <2>1, CalendarAssumption
  <2>3. CalendarDay[from] \in Nat
    BY CalendarAssumption
  <2> QED BY <1>1, <2>1, <2>2, <2>3 DEF DaysBetween, Time
<1> QED BY <1>2, <1>3

LEMMA UpdatedRight ==
    ASSUME now \in Time, NEW doc, DocumentRight(doc), NEW from \in Time,
           from = FirstUnbilled(doc), NEW to \in Time, from < to
    PROVE  LET new == UpdateLastChargedAt(doc, to, DaysBetween(from, to))
           IN  /\ DocumentRight(new)
               /\ new.rentalStartDate = doc.rentalStartDate
               /\ new.lastBillingPeriodEnd = to
<1> DEFINE days == DaysBetween(from, to)
           new  == UpdateLastChargedAt(doc, to, days)
<1>1. doc \in Fulfilment /\ doc # Null /\ PositionRight(doc) /\ DaysCounted(doc)
  BY NullAssumption DEF DocumentRight
<1>2. /\ CalendarDay[from] \in Int /\ CalendarDay[to] \in Int
      /\ days = CalendarDay[to] - CalendarDay[from]
  BY CalendarAssumption DEF DaysBetween
<1>3. to # NoDate /\ from # NoDate /\ to \in Int /\ from \in Int
  BY SentinelAssumption DEF Time
<1>4. doc.totalDaysCharged \in Int
  BY <1>1 DEF Fulfilment
<1>5. /\ new.rentalStartDate = doc.rentalStartDate
      /\ new.lastBillingPeriodEnd = to
      /\ new.totalDaysCharged = doc.totalDaysCharged + days
  BY <1>1 DEF UpdateLastChargedAt, Fulfilment
<1>6. doc.totalDaysCharged + days \in Int
  BY <1>2, <1>4
<1>7. new \in Fulfilment
  BY <1>1, <1>6 DEF UpdateLastChargedAt, Fulfilment, Instant
<1>8. /\ doc.rentalStartDate # NoDate /\ doc.rentalStartDate <= to
      /\ new.totalDaysCharged = DaysBetween(doc.rentalStartDate, to)
  <2>1. CASE doc.lastBillingPeriodEnd = NoDate
    BY <2>1, <1>1, <1>2, <1>3, <1>5 DEF FirstUnbilled, DaysCounted, DaysBetween
  <2>2. CASE doc.lastBillingPeriodEnd # NoDate
    <3>1. /\ from = doc.lastBillingPeriodEnd
          /\ doc.rentalStartDate # NoDate /\ doc.rentalStartDate <= from
      BY <2>2, <1>1 DEF FirstUnbilled, PositionRight
    <3>2. doc.rentalStartDate \in Time
      BY <3>1, <1>1 DEF Fulfilment, Instant
    <3>3. doc.totalDaysCharged = CalendarDay[from] - CalendarDay[doc.rentalStartDate]
      BY <2>2, <3>1, <1>1 DEF DaysCounted, DaysBetween
    <3>4. CalendarDay[doc.rentalStartDate] \in Int
      BY <3>2, CalendarAssumption
    <3> QED BY <1>2, <1>3, <1>5, <3>1, <3>2, <3>3, <3>4 DEF DaysBetween, Time
  <2> QED BY <2>1, <2>2
<1> HIDE DEF new
<1>9. PositionRight(new) /\ DaysCounted(new)
  BY <1>3, <1>5, <1>8 DEF PositionRight, DaysCounted
<1> QED BY <1>5, <1>7, <1>9 DEF new, DocumentRight

LEMMA RentalChargeRight ==
    ASSUME NEW id \in Nat \ {0}, NEW from \in Time, NEW to \in Time, from < to
    PROVE  LET c == RentalCharge(id, from, to)
           IN  /\ c \in Charge /\ Dated(c)
               /\ c.id = id /\ c.chargeType = "RENTAL"
               /\ c.billingPeriodStart = from /\ c.billingPeriodEnd = to
BY DEF RentalCharge, Charge, Dated, Instant, Time

LEMMA BillPeriodRight ==
    ASSUME now \in Time, lastCharge \in Nat, NEW doc, NEW cs, NEW until \in Time,
           NEW minimumDays \in {0, MinDays},
           NEW bill, LoopRight(bill, doc, cs, until), bill.from < until
    PROVE  LoopRight(BillPeriod(bill, until, minimumDays), doc, cs, until)
<1> DEFINE from == bill.from
           to   == PeriodEnd(from, until)
           days == DaysBetween(from, to)
           new  == UpdateLastChargedAt(bill.doc, to, days)
           c    == RentalCharge(bill.last + 1, from, to)
           next == BillPeriod(bill, until, minimumDays)
<1>1. from \in Time /\ from \in Int /\ until \in Int
  BY DEF LoopRight, Time
<1>2. /\ to \in Time /\ from < to
      /\ to = until \/ days = MinDays
  BY <1>1, PeriodEndRight
<1>3. from = FirstUnbilled(bill.doc)
  BY <1>1 DEF LoopRight
<1>4. CASE days < minimumDays
  <2>1. to = until
    BY <1>2, <1>4, BoundsAssumption
  <2>2. next = [from |-> to, doc |-> bill.doc, inserted |-> bill.inserted,
                last |-> bill.last]
    BY <1>4 DEF BillPeriod, LoopRight
  <2>3. until <= to
    BY <1>1, <2>1
  <2> HIDE DEF next, to
  <2>4. /\ next.from = to /\ next.doc = bill.doc
        /\ next.inserted = bill.inserted /\ next.last = bill.last
        /\ next = [from |-> next.from, doc |-> next.doc,
                   inserted |-> next.inserted, last |-> next.last]
    BY <2>2
  <2>5. BillRight(next, cs)
    BY <2>4 DEF LoopRight, BillRight
  <2> QED BY <1>2, <2>3, <2>4, <2>5 DEF LoopRight, next
<1>5. CASE ~(days < minimumDays)
  <2>1. next = [from |-> to, doc |-> new, inserted |-> bill.inserted \cup {c},
                last |-> bill.last + 1]
    BY <1>5 DEF BillPeriod
  <2>2. /\ DocumentRight(new) /\ new.rentalStartDate = bill.doc.rentalStartDate
        /\ new.lastBillingPeriodEnd = to
    BY <1>1, <1>2, <1>3, UpdatedRight DEF LoopRight, BillRight
  <2>3. /\ bill.last \in Nat /\ lastCharge <= bill.last
        /\ bill.last + 1 \in Nat \ {0} /\ bill.last < bill.last + 1
        /\ lastCharge <= bill.last + 1 /\ lastCharge < bill.last + 1
    BY DEF LoopRight, BillRight
  <2>4. FirstUnbilled(new) = to
    BY <1>2, <2>2, SentinelAssumption DEF FirstUnbilled, Time
  <2> HIDE DEF next, new, to, from
  <2>5. /\ c \in Charge /\ Dated(c) /\ c.id = bill.last + 1
        /\ c.chargeType = "RENTAL"
        /\ c.billingPeriodStart = from /\ c.billingPeriodEnd = to
    BY <1>1, <1>2, <2>3, RentalChargeRight
  <2> HIDE DEF c
  <2>6. BilledOnce(new, (cs \cup bill.inserted) \cup {c})
    BY <1>1, <1>2, <1>3, <2>2, <2>5, BilledMore DEF LoopRight, BillRight
  <2>7. (cs \cup bill.inserted) \cup {c} = cs \cup (bill.inserted \cup {c})
    OBVIOUS
  <2>8. ChargesRight(bill.inserted \cup {c}, bill.last + 1)
    <3>1. \A d \in bill.inserted : d \in Charge /\ d.id <= bill.last /\ Dated(d) /\ d.id \in Nat
      BY DEF LoopRight, BillRight, ChargesRight, Charge
    <3>2. \A d \in bill.inserted : d.id # c.id /\ d.id <= bill.last + 1
      BY <2>3, <2>5, <3>1
    <3> QED BY <2>3, <2>5, <3>1, <3>2 DEF LoopRight, BillRight, ChargesRight, OneEachId
  <2>9. \A d \in bill.inserted \cup {c} : lastCharge < d.id
    BY <2>3, <2>5 DEF LoopRight, BillRight
  <2>10. /\ next.from = to /\ next.doc = new
         /\ next.inserted = bill.inserted \cup {c} /\ next.last = bill.last + 1
         /\ next = [from |-> next.from, doc |-> next.doc,
                    inserted |-> next.inserted, last |-> next.last]
    BY <2>1
  <2>11. BillRight(next, cs)
    BY <2>2, <2>3, <2>6, <2>7, <2>8, <2>9, <2>10 DEF BillRight
  <2>12. new.rentalStartDate = doc.rentalStartDate
    BY <2>2 DEF LoopRight
  <2> QED BY <1>2, <2>4, <2>10, <2>11, <2>12 DEF LoopRight, next
<1> QED BY <1>4, <1>5

\* Rounds of the loop: what the recursive definition of bill chooses from.
Round(doc, minimumDays, bill) ==
    IF bill.from < BillUntil(doc) THEN BillPeriod(bill, BillUntil(doc), minimumDays)
    ELSE bill

FirstBill(doc) ==
    [from |-> FirstUnbilled(doc), doc |-> doc, inserted |-> {}, last |-> lastCharge]

IsLoop(f, doc, minimumDays, n) ==
    /\ f = [i \in 0 .. n |-> f[i]]
    /\ f[0] = FirstBill(doc)
    /\ \A i \in 1 .. n : f[i] = Round(doc, minimumDays, f[i - 1])

LEMMA LoopExists ==
    ASSUME NEW doc, NEW minimumDays, NEW n \in Nat
    PROVE  \E f : IsLoop(f, doc, minimumDays, n)
<1> DEFINE S == {m \in 0 .. n : \E f : IsLoop(f, doc, minimumDays, m)}
<1>1. 0 \in S
  <2> DEFINE f == [i \in 0 .. 0 |-> FirstBill(doc)]
  <2>1. IsLoop(f, doc, minimumDays, 0)
    BY DEF IsLoop
  <2> HIDE DEF f
  <2> QED BY <2>1
<1>2. ASSUME NEW m \in Nat, m < n, m \in S
      PROVE  m + 1 \in S
  <2>1. PICK f : IsLoop(f, doc, minimumDays, m)
    BY <1>2
  <2> DEFINE g == [i \in 0 .. m + 1 |->
                     IF i = m + 1 THEN Round(doc, minimumDays, f[m]) ELSE f[i]]
  <2>2. g[0] = FirstBill(doc)
    BY <2>1 DEF IsLoop
  <2>3. ASSUME NEW i \in 1 .. m + 1
        PROVE  g[i] = Round(doc, minimumDays, g[i - 1])
    <3>1. CASE i = m + 1
      BY <3>1
    <3>2. CASE i # m + 1
      <4>1. i \in 1 .. m /\ i \in 0 .. m /\ i - 1 \in 0 .. m
        BY <3>2
      <4>2. f[i] = Round(doc, minimumDays, f[i - 1])
        BY <4>1, <2>1 DEF IsLoop
      <4>3. g[i] = f[i] /\ g[i - 1] = f[i - 1]
        BY <4>1, <3>2
      <4> QED BY <4>2, <4>3
    <3> QED BY <3>1, <3>2
  <2>4. g = [i \in 0 .. m + 1 |-> g[i]]
    OBVIOUS
  <2>5. IsLoop(g, doc, minimumDays, m + 1)
    BY <2>2, <2>3, <2>4 DEF IsLoop
  <2> HIDE DEF g
  <2> QED BY <2>5, <1>2
<1> HIDE DEF S
<1>3. \A m \in 0 .. n : m \in S
  BY <1>1, <1>2, IntervalInduction
<1>4. n \in S
  BY <1>3
<1> QED BY <1>4 DEF S

LEMMA BillIsLoop ==
    ASSUME NEW doc, NEW minimumDays
    PROVE  \E f : /\ IsLoop(f, doc, minimumDays, MaxTime)
                  /\ CreateRentalCharges(doc, minimumDays) = f[MaxTime]
<1> DEFINE Body(f) == [i \in 0 .. MaxTime |->
             IF i = 0 THEN [from |-> FirstUnbilled(doc), doc |-> doc,
                            inserted |-> {}, last |-> lastCharge]
             ELSE IF f[i - 1].from < BillUntil(doc)
                  THEN BillPeriod(f[i - 1], BillUntil(doc), minimumDays)
                  ELSE f[i - 1]]
           loop == CHOOSE f : f = Body(f)
<1>1. MaxTime \in Nat
  BY BoundsAssumption
<1>2. PICK r : IsLoop(r, doc, minimumDays, MaxTime)
  BY <1>1, LoopExists
<1>3. r = Body(r)
  <2>1. ASSUME NEW i \in 0 .. MaxTime
        PROVE  r[i] = Body(r)[i]
    <3>1. CASE i = 0
      BY <3>1, <1>2 DEF IsLoop, FirstBill
    <3>2. CASE i # 0
      <4>1. i \in 1 .. MaxTime
        BY <3>2, <1>1
      <4> QED BY <3>2, <4>1, <1>2 DEF IsLoop, Round
    <3> QED BY <3>1, <3>2
  <2>2. r = [i \in 0 .. MaxTime |-> r[i]]
    BY <1>2 DEF IsLoop
  <2> QED BY <2>1, <2>2
<1>4. CreateRentalCharges(doc, minimumDays) = loop[MaxTime]
  BY DEF CreateRentalCharges
<1>5. loop = Body(loop)
  BY <1>3
<1> HIDE DEF loop
<1>6. loop = [i \in 0 .. MaxTime |-> loop[i]]
  BY <1>5
<1>7. loop[0] = FirstBill(doc)
  BY <1>1, <1>5 DEF FirstBill
<1>8. ASSUME NEW i \in 1 .. MaxTime
      PROVE  loop[i] = Round(doc, minimumDays, loop[i - 1])
  <2>1. i \in 0 .. MaxTime /\ i # 0
    BY <1>1
  <2>2. loop[i] = Body(loop)[i]
    BY <1>5
  <2> QED BY <2>1, <2>2 DEF Round
<1> QED BY <1>4, <1>6, <1>7, <1>8 DEF IsLoop

\* What createRentalCharges makes of a document that is right and dated.
LEMMA BillsRight ==
    ASSUME now \in Time, lastCharge \in Nat, NEW doc, DocumentRight(doc),
           doc.rentalStartDate # NoDate, NEW cs, BilledOnce(doc, cs),
           NEW minimumDays \in {0, MinDays}
    PROVE  LET bill == CreateRentalCharges(doc, minimumDays)
           IN  BillRight(bill, cs) /\ bill.doc.rentalStartDate = doc.rentalStartDate
<1> DEFINE until == BillUntil(doc)
<1>1. until \in Time
  BY DEF BillUntil, DocumentRight, Fulfilment, Instant
<1>2. PICK f : /\ IsLoop(f, doc, minimumDays, MaxTime)
               /\ CreateRentalCharges(doc, minimumDays) = f[MaxTime]
  BY BillIsLoop
<1> DEFINE S == {i \in 0 .. MaxTime : LoopRight(f[i], doc, cs, until)}
<1>3. MaxTime \in Nat
  BY BoundsAssumption
<1>4. 0 \in S
  <2>1. f[0] = FirstBill(doc)
    BY <1>2 DEF IsLoop
  <2>2. FirstUnbilled(doc) \in Time
    BY DEF FirstUnbilled, DocumentRight, Fulfilment, Instant
  <2>3. LoopRight(FirstBill(doc), doc, cs, until)
    <3>1. cs \cup {} = cs
      OBVIOUS
    <3>2. BillRight(FirstBill(doc), cs)
      BY <3>1 DEF FirstBill, BillRight, ChargesRight, OneEachId
    <3> QED BY <2>2, <3>2 DEF LoopRight, FirstBill
  <2> QED BY <1>3, <2>1, <2>3
<1>5. ASSUME NEW i \in Nat, i < MaxTime, i \in S
      PROVE  i + 1 \in S
  <2>1. i + 1 \in 1 .. MaxTime /\ (i + 1) - 1 = i /\ i + 1 \in 0 .. MaxTime
    BY <1>3, <1>5
  <2>2. f[i + 1] = Round(doc, minimumDays, f[i])
    BY <1>2, <2>1 DEF IsLoop
  <2>3. LoopRight(f[i], doc, cs, until)
    BY <1>5
  <2> HIDE DEF until
  <2>4. CASE f[i].from < until
    <3>1. f[i + 1] = BillPeriod(f[i], until, minimumDays)
      BY <2>2, <2>4 DEF Round, until
    <3>2. LoopRight(f[i + 1], doc, cs, until)
      BY <1>1, <2>3, <2>4, <3>1, BillPeriodRight
    <3> QED BY <2>1, <3>2
  <2>5. CASE ~(f[i].from < until)
    <3>1. f[i + 1] = f[i]
      BY <2>2, <2>5 DEF Round, until
    <3> QED BY <2>1, <2>3, <3>1
  <2> QED BY <2>4, <2>5
<1> HIDE DEF S
<1>6. \A i \in 0 .. MaxTime : i \in S
  BY <1>3, <1>4, <1>5, IntervalInduction
<1>7. MaxTime \in S
  BY <1>3, <1>6
<1>8. LoopRight(f[MaxTime], doc, cs, until)
  BY <1>7 DEF S
<1> QED BY <1>2, <1>8 DEF LoopRight
-------------------------------------------------------------------------------
(***************************************************************************)
(* One step of one worker.                                                 *)
(***************************************************************************)
DbOK ==
    /\ now \in Time
    /\ fulfilment \in Fulfilment \cup {Null}
    /\ revision \in Nat
    /\ lastCharge \in Nat
    /\ jobs \subseteq Job
    /\ faults \in 0 .. MaxFaults

\* Worker w with request t and transaction v, beside the others.
Apart(w, t, v) ==
    \A u \in Worker \ {w} :
        /\ Ids(v.inserted) \cap Ids(txn[u].inserted) = {}
        /\ ~(t.op = "create" /\ task[u].op = "create")

LEMMA Typed ==
    ASSUME IInv
    PROVE  /\ DbOK /\ DbRight
           /\ \A w \in Worker : /\ task[w] \in Task /\ txn[w] \in Txn
                                /\ WorkerRight(task[w], txn[w])
                                /\ Apart(w, task[w], txn[w])
<1>1. \A w \in Worker : Apart(w, task[w], txn[w])
  BY DEF IInv, WorkersApart, Apart
<1> QED BY <1>1 DEF IInv, TypeOK, DbOK

LEMMA OneWorker ==
    ASSUME IInv, NEW w \in Worker, NEW t \in Task, NEW v \in Txn,
           task' = [task EXCEPT ![w] = t],
           txn' = [txn EXCEPT ![w] = v],
           DbOK', DbRight', WorkerRight(t, v)',
           \A u \in Worker \ {w} : WorkerRight(task[u], txn[u])',
           Apart(w, t, v)
    PROVE  IInv'
<1>1. task \in [Worker -> Task] /\ txn \in [Worker -> Txn]
  BY DEF IInv, TypeOK
<1>2. /\ task'[w] = t /\ txn'[w] = v
      /\ \A u \in Worker \ {w} : task'[u] = task[u] /\ txn'[u] = txn[u]
      /\ task' \in [Worker -> Task] /\ txn' \in [Worker -> Txn]
  BY <1>1
<1>3. WorkerRight(task[w], txn[w])'
  BY <1>2 DEF WorkerRight, RequestRight, TxnRight, SnapshotRight, Left
<1>4. WorkersApart'
  <2> SUFFICES ASSUME NEW u \in Worker, NEW x \in Worker, u # x
               PROVE  /\ Ids(txn'[u].inserted) \cap Ids(txn'[x].inserted) = {}
                      /\ ~(task'[u].op = "create" /\ task'[x].op = "create")
    BY DEF WorkersApart, Ids
  <2>1. CASE u = w
    BY <2>1, <1>2 DEF Apart
  <2>2. CASE x = w
    BY <2>2, <1>2 DEF Apart
  <2>3. CASE u # w /\ x # w
    BY <2>3, <1>2 DEF IInv, WorkersApart
  <2> QED BY <2>1, <2>2, <2>3
<1>5. TypeOK'
  BY <1>2 DEF TypeOK, DbOK, DbRight, ChargesRight
<1>6. \A u \in Worker : WorkerRight(task[u], txn[u])'
  BY <1>3
<1> QED BY <1>4, <1>5, <1>6 DEF IInv

LEMMA NothingUnseen == SeenOpen({})
BY DEF SeenOpen

\* What is on one page with other charges has been looked at whole.
LEMMA DeletedOnOnePage ==
    ASSUME NEW cs, NEW deleted \in SUBSET cs, OnOnePage(cs), SeenOpen(deleted)
    PROVE  \A c \in deleted : ~c.invoiced
<1>1. OnOnePage(deleted)
  BY DEF OnOnePage, Pages
<1> QED BY <1>1 DEF SeenOpen

\* As long as the document and the charges stay, so does what is right.
LEMMA QuietRight ==
    ASSUME NEW t \in Task, NEW v \in Txn, DbOK, WorkerRight(t, v),
           UNCHANGED db, lastCharge' \in Nat, lastCharge <= lastCharge'
    PROVE  WorkerRight(t, v)'
<1>1. RequestRight(t)' /\ SnapshotRight(t, v)'
  BY DEF db, WorkerRight, RequestRight, SnapshotRight, Left, BilledOnce
<1>2. ChargesRight(v.inserted, lastCharge')
  BY DEF DbOK, WorkerRight, TxnRight, ChargesRight, Charge
<1>3. TxnRight(t, v)'
  BY <1>2 DEF db, WorkerRight, TxnRight, ChargesRight, Dated, OneEachId, DocumentRight,
              PositionRight, DaysCounted, DaysBetween
<1> QED BY <1>1, <1>3 DEF WorkerRight

LEMMA QuietDb ==
    ASSUME DbOK, DbRight, UNCHANGED db, lastCharge' \in Nat, lastCharge <= lastCharge'
    PROVE  DbRight'
<1>1. ChargesRight(charges, lastCharge')
  BY DEF DbOK, DbRight, ChargesRight, Charge
<1>2. (fulfilment # Null => DocumentRight(fulfilment))' /\ BilledOnce(fulfilment, charges)'
  BY DEF db, DbRight, DocumentRight, PositionRight, DaysCounted, DaysBetween, BilledOnce
<1> QED BY <1>1, <1>2 DEF db, DbRight, ChargesRight, Dated, OneEachId

LEMMA QuietStep ==
    ASSUME IInv, NEW w \in Worker, NEW t \in Task, NEW v \in Txn,
           task' = [task EXCEPT ![w] = t],
           txn' = [txn EXCEPT ![w] = v],
           UNCHANGED db, DbOK', lastCharge <= lastCharge',
           WorkerRight(t, v)', Apart(w, t, v)
    PROVE  IInv'
<1>1. lastCharge' \in Nat
  BY DEF DbOK
<1>2. DbRight'
  BY <1>1, Typed, QuietDb
<1>3. ASSUME NEW u \in Worker \ {w}
      PROVE  WorkerRight(task[u], txn[u])'
  <2>1. PICK x, y : x = task[u] /\ y = txn[u]
    OBVIOUS
  <2>2. x \in Task /\ y \in Txn /\ WorkerRight(x, y)
    BY <2>1, Typed
  <2>3. WorkerRight(x, y)'
    BY <1>1, <2>2, Typed, QuietRight
  <2>4. task'[u] = x /\ txn'[u] = y
    BY <2>1 DEF IInv, TypeOK
  <2> QED BY <2>3, <2>4 DEF WorkerRight, RequestRight, TxnRight, SnapshotRight, Left
<1> QED BY <1>2, <1>3, OneWorker

(***************************************************************************)
(* A worker without a transaction, before it starts one or after it ended. *)
(***************************************************************************)
LEMMA NoTxnRight ==
    ASSUME DbOK, NEW t \in Task, RequestRight(t), t.step \in {"idle", "run"}
    PROVE  NoTxn \in Txn /\ WorkerRight(t, NoTxn)
<1>1. NoTxn \in Txn
  BY DEF NoTxn, Txn
<1>2. TxnRight(t, NoTxn)
  BY NothingUnseen DEF DbOK, TxnRight, NoTxn, ChargesRight, OneEachId, Ids, RentalCharges
<1> QED BY <1>1, <1>2 DEF WorkerRight, SnapshotRight, NoTxn

LEMMA ResetStep ==
    ASSUME IInv, NEW w \in Worker, NEW t \in Task,
           task' = [task EXCEPT ![w] = t],
           txn' = [txn EXCEPT ![w] = NoTxn],
           UNCHANGED <<db, lastCharge>>, DbOK',
           RequestRight(t), t.step \in {"idle", "run"},
           t.op = "create" => \A u \in Worker \ {w} : task[u].op # "create"
    PROVE  IInv'
<1>1. NoTxn \in Txn /\ WorkerRight(t, NoTxn)
  BY Typed, NoTxnRight
<1>2. lastCharge' \in Nat /\ lastCharge <= lastCharge'
  BY Typed DEF DbOK
<1>3. WorkerRight(t, NoTxn)'
  BY <1>1, <1>2, Typed, QuietRight
<1>4. Apart(w, t, NoTxn)
  BY DEF Apart, NoTxn, Ids
<1> QED BY <1>1, <1>2, <1>3, <1>4, QuietStep

LEMMA IdleRight ==
    /\ Idle \in Task /\ Idle.op = "idle" /\ Idle.step = "idle"
    /\ RequestRight(Idle)
BY DEF Idle, Task, RequestRight, Instant

LEMMA DoneStep ==
    ASSUME IInv, NEW w \in Worker, Done(w), UNCHANGED <<now, db, lastCharge>>,
           faults' \in 0 .. MaxFaults
    PROVE  IInv'
<1>1. DbOK'
  BY Typed DEF DbOK, Done, db
<1> QED BY <1>1, IdleRight, ResetStep DEF Done

LEMMA CrashStep ==
    ASSUME IInv, NEW w \in Worker, task' = [task EXCEPT ![w] = Idle],
           txn' = [txn EXCEPT ![w] = NoTxn],
           UNCHANGED <<now, db, lastCharge, jobs>>, faults' \in 0 .. MaxFaults
    PROVE  IInv'
<1>1. DbOK'
  BY Typed DEF DbOK, db
<1> QED BY <1>1, IdleRight, ResetStep

LEMMA RetryStep ==
    ASSUME IInv, NEW w \in Worker, Retry(w), faults' \in 0 .. MaxFaults
    PROVE  IInv'
<1>1. CASE Done(w) /\ UNCHANGED <<now, db, lastCharge>>
  BY <1>1, DoneStep
<1>2. CASE /\ task' = [task EXCEPT ![w].step = "run"]
           /\ txn' = [txn EXCEPT ![w] = NoTxn]
           /\ UNCHANGED <<now, db, lastCharge, jobs>>
  <2> DEFINE t == [task[w] EXCEPT !.step = "run"]
  <2>1. task[w] \in Task /\ RequestRight(task[w]) /\ Apart(w, task[w], txn[w])
    BY Typed DEF WorkerRight
  <2>2. t \in Task /\ t.op = task[w].op /\ t.date = task[w].date /\ t.step = "run"
    BY <2>1 DEF Task
  <2>3. task' = [task EXCEPT ![w] = t]
    BY <1>2
  <2> HIDE DEF t
  <2>4. RequestRight(t)
    BY <2>1, <2>2 DEF RequestRight
  <2>5. DbOK'
    BY <1>2, Typed DEF DbOK, db
  <2> QED BY <1>2, <2>1, <2>2, <2>3, <2>4, <2>5, ResetStep DEF Apart
<1> QED BY <1>1, <1>2 DEF Retry

\* A worker that had no transaction does not get one.
LEMMA StartStep ==
    ASSUME IInv, NEW w \in Worker, task[w].step \in {"idle", "run"}, NEW t \in Task,
           Start(w, t), UNCHANGED <<now, db, lastCharge, txn, faults>>, jobs' \subseteq Job,
           RequestRight(t), t.step \in {"idle", "run"},
           t.op = "create" => \A u \in Worker \ {w} : task[u].op # "create"
    PROVE  IInv'
<1>1. txn \in [Worker -> Txn] /\ TxnRight(task[w], txn[w])
  BY DEF IInv, TypeOK, WorkerRight
<1>2. txn[w] = NoTxn
  BY <1>1 DEF TxnRight
<1>3. txn' = [txn EXCEPT ![w] = NoTxn]
  BY <1>1, <1>2
<1>4. DbOK'
  BY Typed DEF DbOK, db
<1> QED BY <1>3, <1>4, ResetStep DEF Start

LEMMA RequestTyped ==
    ASSUME NEW op \in {"create", "setStart", "setEnd", "setExpectedEnd", "nightly",
                       "calculateCharges", "createDeliveryCharge", "invoice"},
           NEW date \in Instant
    PROVE  LET t == Request(op, date)
           IN  t \in Task /\ t.op = op /\ t.step = "run" /\ t.date = date
BY DEF Request, Idle, Task

LEMMA NoDateRight == NoDate \in Instant /\ Time \subseteq Instant /\ Time \subseteq Int
BY DEF Instant, Time

\* A request that comes with a date, or an idle worker that starts a job.
LEMMA RequestStep ==
    ASSUME IInv, NEW w \in Worker, task[w] = Idle,
           NEW op \in {"create", "setStart", "setEnd", "setExpectedEnd", "nightly",
                       "calculateCharges", "createDeliveryCharge", "invoice"},
           NEW date \in Instant, Start(w, Request(op, date)),
           UNCHANGED <<now, db, lastCharge, jobs, txn, faults>>,
           op = "create" => /\ revision = 0
                            /\ \A u \in Worker \ {w} : task[u].op # "create",
           op \in {"setStart", "setEnd", "setExpectedEnd"} => date \in Time,
           op = "setEnd" => fulfilment # Null /\ fulfilment.rentalStartDate # NoDate
    PROVE  IInv'
<1> DEFINE t == Request(op, date)
<1>1. t \in Task /\ t.op = op /\ t.step = "run" /\ t.date = date
  BY RequestTyped
<1> HIDE DEF t
<1>2. revision \in Nat /\ (revision = 0 => fulfilment = Null)
  BY Typed DEF DbOK, DbRight
<1>3. RequestRight(t)
  BY <1>1, <1>2 DEF RequestRight
<1>4. jobs' \subseteq Job
  BY Typed DEF DbOK
<1> QED BY <1>1, <1>3, <1>4, IdleRight, StartStep DEF t

LEMMA CallStep ==
    ASSUME IInv, NEW w \in Worker, Call(w)
    PROVE  IInv'
<1>1. StartDate \subseteq Time /\ EndDate \subseteq Time
  BY BoundsAssumption
<1>2. CASE CreateFulfilment(w)
  BY <1>1, <1>2, NoDateRight, RequestStep DEF CreateFulfilment, Idling
<1>3. CASE SetRentalStartDate(w)
  BY <1>1, <1>3, NoDateRight, RequestStep DEF SetRentalStartDate, Idling
<1>4. CASE SetRentalEndDate(w)
  BY <1>1, <1>4, NoDateRight, RequestStep DEF SetRentalEndDate, Idling
<1>5. CASE SetExpectedRentalEndDate(w)
  BY <1>1, <1>5, NoDateRight, RequestStep DEF SetExpectedRentalEndDate, Idling
<1>6. CASE AddChargeToInvoice(w)
  <2>1. PICK c \in charges :
          Start(w, [Request("invoice", NoDate) EXCEPT !.charge = c.id])
    BY <1>6 DEF AddChargeToInvoice
  <2>2. c.id \in Nat
    BY <2>1, Typed DEF DbRight, ChargesRight, Charge
  <2> DEFINE t == [Request("invoice", NoDate) EXCEPT !.charge = c.id]
  <2>3. t \in Task /\ t.op = "invoice" /\ t.step = "run"
    BY <2>2, NoDateRight DEF Request, Idle, Task
  <2> HIDE DEF t
  <2>4. RequestRight(t)
    BY <2>3 DEF RequestRight
  <2>5. jobs' \subseteq Job
    BY <1>6, Typed DEF DbOK, AddChargeToInvoice
  <2> QED BY <1>6, <2>1, <2>3, <2>4, <2>5, IdleRight, StartStep
          DEF AddChargeToInvoice, Idling, t
<1> QED BY <1>2, <1>3, <1>4, <1>5, <1>6 DEF Call

LEMMA NightlyStep ==
    ASSUME IInv, NEW w \in Worker, NightlyRentalChargesJob(w)
    PROVE  IInv'
BY NoDateRight, RequestStep DEF NightlyRentalChargesJob

LEMMA TakeJobStep ==
    ASSUME IInv, NEW w \in Worker, TakeJob(w)
    PROVE  IInv'
<1>1. PICK j \in jobs : Start(w, [Request(j.name, NoDate) EXCEPT !.job = j.id])
  BY DEF TakeJob
<1>2. j.id \in JobId /\ j.name \in {"calculateCharges", "createDeliveryCharge"}
  BY <1>1, Typed DEF DbOK, Job
<1> DEFINE t == [Request(j.name, NoDate) EXCEPT !.job = j.id]
<1>3. t \in Task /\ t.op = j.name /\ t.step = "run"
  BY <1>2, NoDateRight DEF Request, Idle, Task
<1> HIDE DEF t
<1>4. RequestRight(t)
  BY <1>2, <1>3 DEF RequestRight
<1>5. jobs' \subseteq Job
  BY Typed DEF DbOK, TakeJob
<1> QED BY <1>1, <1>2, <1>3, <1>4, <1>5, IdleRight, StartStep DEF TakeJob, t

LEMMA PutJobTyped ==
    ASSUME DbOK, NEW name \in {"calculateCharges", "createDeliveryCharge"},
           NEW at \in Time, PutJob(name, at)
    PROVE  jobs' \subseteq Job
BY DEF DbOK, PutJob, FreeJobIds, Job

LEMMA StartChargesJobStep ==
    ASSUME IInv, NEW w \in Worker, StartChargesJob(w)
    PROVE  IInv'
<1>1. jobs' \subseteq Job
  BY Typed, PutJobTyped DEF DbOK, StartChargesJob
<1>2. task[w].step = "run"
  BY Typed DEF StartChargesJob, WorkerRight, RequestRight
<1> QED BY <1>1, <1>2, IdleRight, StartStep DEF StartChargesJob
-------------------------------------------------------------------------------
(***************************************************************************)
(* The callbacks: what they compute from the snapshot is right.            *)
(***************************************************************************)
LEMMA OpensRight ==
    ASSUME DbOK, UNCHANGED db, NEW t \in Task, NEW v \in Txn, RequestRight(t),
           t.step \in {"cancel", "deliver", "commit"},
           v.writesDoc, v.allocated = {}, v.base = revision,
           lastCharge' \in Nat, ChargesRight(charges, lastCharge),
           DocumentRight(v.doc), ChargesRight(v.inserted, lastCharge'),
           \A c \in v.inserted : lastCharge < c.id,
           SeenOpen(v.deleted),
           BilledOnce(v.doc, Left(v.deleted) \cup v.inserted),
           t.op # "create" => fulfilment # Null,
           t.op \notin {"create", "setStart"} =>
              v.doc.rentalStartDate = fulfilment.rentalStartDate,
           t.op = "setStart" => /\ v.doc.rentalStartDate # NoDate
                                /\ RentalCharges(Left(v.deleted)) = {}
    PROVE  WorkerRight(t, v)'
<1>1. Ids(v.inserted) \cap Ids(charges) = {}
  BY DEF DbOK, Ids, ChargesRight, Charge
<1>2. RequestRight(t)' /\ SnapshotRight(t, v)'
  BY DEF db, RequestRight, SnapshotRight, Left, BilledOnce
<1>3. TxnRight(t, v)'
  BY <1>1 DEF db, DbOK, TxnRight, ChargesRight, Dated, OneEachId, DocumentRight,
              PositionRight, DaysCounted, DaysBetween
<1> QED BY <1>2, <1>3 DEF WorkerRight

\* Ids that have not been handed out are nobody's.
LEMMA NewIdsApart ==
    ASSUME IInv, NEW w \in Worker, NEW cs, \A c \in cs : c.id \in Nat /\ lastCharge < c.id
    PROVE  \A u \in Worker \ {w} : Ids(cs) \cap Ids(txn[u].inserted) = {}
<1>1. \A u \in Worker : \A c \in txn[u].inserted : c.id \in Nat /\ c.id <= lastCharge
  BY Typed DEF WorkerRight, TxnRight, ChargesRight, Charge
<1>2. lastCharge \in Nat
  BY Typed DEF DbOK
<1> QED BY <1>1, <1>2 DEF Ids

\* The request once its callback has run.
Ran(x, step) == [x EXCEPT !.step = step, !.tries = @ + 1]

LEMMA RanTyped ==
    ASSUME NEW x \in Task, NEW step \in {"run", "cancel", "deliver", "commit"}
    PROVE  LET t == Ran(x, step)
           IN  t \in Task /\ t.op = x.op /\ t.date = x.date /\ t.step = step
<1>1. x.tries + 1 \in Nat
  BY DEF Task
<1> QED BY <1>1 DEF Task, Ran

LEMMA WriteBillStep ==
    ASSUME IInv, NEW w \in Worker, NEW bill, NEW deleted \in SUBSET charges,
           WriteBill(w, bill, deleted), NEW step \in {"cancel", "deliver", "commit"},
           Goto(w, step), BillRight(bill, Left(deleted)),
           SeenOpen(deleted), task[w].op # "nightly",
           step # "commit" => task[w].op \in {"create", "setStart"} /\ task[w].date \in Time,
           task[w].op # "create" => fulfilment # Null,
           task[w].op \notin {"create", "setStart"} =>
              bill.doc.rentalStartDate = fulfilment.rentalStartDate,
           task[w].op = "setStart" => /\ bill.doc.rentalStartDate # NoDate
                                      /\ RentalCharges(Left(deleted)) = {}
    PROVE  IInv'
<1>1. /\ DbOK /\ DbRight /\ task[w] \in Task
      /\ RequestRight(task[w]) /\ Apart(w, task[w], txn[w])
  BY Typed DEF WorkerRight
<1>2. PICK t : t = Ran(task[w], step)
  OBVIOUS
<1>3. t \in Task /\ t.op = task[w].op /\ t.date = task[w].date /\ t.step = step
  BY <1>1, <1>2, RanTyped
<1>4. task' = [task EXCEPT ![w] = t]
  BY <1>2 DEF Goto, Ran
<1>5. PICK v : v = [base |-> revision, seen |-> charges, doc |-> bill.doc,
                    writesDoc |-> TRUE, inserted |-> bill.inserted,
                    deleted |-> deleted, allocated |-> {}]
  OBVIOUS
<1>6. /\ v.base = revision /\ v.doc = bill.doc /\ v.writesDoc
      /\ v.inserted = bill.inserted /\ v.deleted = deleted /\ v.allocated = {}
  BY <1>5
<1>7. txn' = [txn EXCEPT ![w] = v]
  BY <1>5 DEF WriteBill
<1>8. v \in Txn
  <2>1. revision \in Nat /\ charges \subseteq Charge /\ deleted \subseteq Charge
        /\ bill.doc \in Fulfilment /\ bill.inserted \subseteq Charge
    BY <1>1 DEF DbOK, DbRight, ChargesRight, BillRight, DocumentRight
  <2> QED BY <1>5, <2>1 DEF Txn
<1>9. UNCHANGED <<now, db, jobs, faults>> /\ lastCharge' = bill.last
      /\ lastCharge' \in Nat /\ lastCharge <= lastCharge'
  BY DEF WriteBill, BillRight
<1>10. DbOK'
  BY <1>1, <1>9 DEF DbOK, db
<1>11. RequestRight(t)
  BY <1>1, <1>3 DEF RequestRight
<1>12. ChargesRight(charges, lastCharge)
  BY <1>1 DEF DbRight
<1>13. WorkerRight(t, v)'
  BY <1>1, <1>3, <1>6, <1>8, <1>9, <1>11, <1>12, OpensRight DEF BillRight
<1>14. Apart(w, t, v)
  <2>1. \A c \in bill.inserted : c.id \in Nat /\ lastCharge < c.id
    BY DEF BillRight, ChargesRight, Charge
  <2> QED BY <1>1, <1>3, <1>6, <2>1, NewIdsApart DEF Apart
<1> QED BY <1>3, <1>4, <1>7, <1>8, <1>9, <1>10, <1>13, <1>14, QuietStep

LEMMA NothingBilled ==
    ASSUME NEW doc, doc.lastBillingPeriodEnd = NoDate, NEW cs, RentalCharges(cs) = {}
    PROVE  BilledOnce(doc, cs)
BY DEF BilledOnce

LEMMA SameBilled ==
    ASSUME NEW doc, doc # Null, NEW new, NEW cs, BilledOnce(doc, cs),
           new.rentalStartDate = doc.rentalStartDate,
           new.lastBillingPeriodEnd = doc.lastBillingPeriodEnd
    PROVE  BilledOnce(new, cs)
BY DEF BilledOnce

\* A document written without new charges.
LEMMA NoBillRight ==
    ASSUME NEW doc, DocumentRight(doc), NEW cs, BilledOnce(doc, cs), lastCharge \in Nat
    PROVE  BillRight([doc |-> doc, inserted |-> {}, last |-> lastCharge], cs)
<1>1. cs \cup {} = cs
  OBVIOUS
<1> QED BY <1>1 DEF BillRight, ChargesRight, OneEachId

LEMMA LeftAll ==
    /\ Left({}) = charges
    /\ Left(charges) = {}
BY DEF Left, Ids

LEMMA NewFulfilmentRight ==
    ASSUME NEW start \in Instant
    PROVE  LET doc == NewFulfilment(start)
           IN  /\ DocumentRight(doc) /\ doc.rentalStartDate = start
               /\ doc.lastBillingPeriodEnd = NoDate
<1> DEFINE doc == NewFulfilment(start)
<1>1. /\ doc.rentalStartDate = start /\ doc.lastBillingPeriodEnd = NoDate
      /\ doc.totalDaysCharged = 0 /\ doc \in Fulfilment
  BY DEF NewFulfilment, Fulfilment, Instant
<1> HIDE DEF doc
<1>2. DocumentRight(doc)
  BY <1>1 DEF DocumentRight, PositionRight, DaysCounted
<1> QED BY <1>1, <1>2 DEF doc

LEMMA RunCreateStep ==
    ASSUME IInv, NEW w \in Worker, RunCreateFulfilment(w)
    PROVE  IInv'
<1>1. /\ DbOK /\ DbRight /\ task[w] \in Task /\ RequestRight(task[w])
      /\ task[w].op = "create" /\ task[w].date \in Instant
  BY Typed DEF WorkerRight, Task, RunCreateFulfilment, Running
<1>2. PICK doc : doc = NewFulfilment(task[w].date)
  OBVIOUS
<1>3. /\ DocumentRight(doc) /\ doc.rentalStartDate = task[w].date
      /\ doc.lastBillingPeriodEnd = NoDate
  BY <1>1, <1>2, NewFulfilmentRight
<1>4. BilledOnce(doc, charges)
  BY <1>1, <1>3, NothingBilled DEF RequestRight, DbRight
<1>5. PICK bill : /\ WriteBill(w, bill, {})
                  /\ \/ bill = [doc |-> doc, inserted |-> {}, last |-> lastCharge]
                     \/ task[w].date # NoDate /\ bill = CreateRentalCharges(doc, MinDays)
  BY <1>2 DEF RunCreateFulfilment
<1>6. BillRight(bill, Left({}))
  BY <1>1, <1>3, <1>4, <1>5, BillsRight, NoBillRight, LeftAll DEF DbOK
<1>7. PICK step \in {"deliver", "commit"} :
        Goto(w, step) /\ (step = "deliver" => task[w].date # NoDate)
  BY DEF RunCreateFulfilment
<1>8. task[w].date # NoDate => task[w].date \in Time
  BY <1>1 DEF Instant
<1> QED BY <1>1, <1>5, <1>6, <1>7, <1>8, NothingUnseen, WriteBillStep

LEMMA PositionTyped ==
    ASSUME NEW doc \in Fulfilment, NEW a \in Instant, NEW b \in Instant, NEW n \in Int,
           NEW new, new = [doc EXCEPT !.lastChargedAt = a, !.lastBillingPeriodEnd = b,
                                      !.totalDaysCharged = n]
    PROVE  new \in Fulfilment
BY DEF Fulfilment

LEMMA ResetRight ==
    ASSUME NEW doc \in Fulfilment, NEW start \in Time
    PROVE  LET new == ResetLastChargedAt([doc EXCEPT !.rentalStartDate = start])
           IN  /\ DocumentRight(new) /\ new.rentalStartDate = start
               /\ new.lastBillingPeriodEnd = NoDate
<1> DEFINE mid == [doc EXCEPT !.rentalStartDate = start]
           new == ResetLastChargedAt(mid)
<1>1. mid \in Fulfilment /\ mid.rentalStartDate = start
  BY DEF Fulfilment, Instant
<1> HIDE DEF mid
<1>2. /\ new.rentalStartDate = start /\ new.lastBillingPeriodEnd = NoDate
      /\ new.totalDaysCharged = 0
  BY <1>1 DEF ResetLastChargedAt, Fulfilment
<1>3. NoDate \in Instant /\ 0 \in Int
  BY DEF Instant
<1>4. new \in Fulfilment
  BY <1>1, <1>3, PositionTyped DEF ResetLastChargedAt
<1> HIDE DEF new
<1>5. DocumentRight(new)
  BY <1>2, <1>4 DEF DocumentRight, PositionRight, DaysCounted
<1> QED BY <1>2, <1>5 DEF new, mid

LEMMA ThrowStep ==
    ASSUME IInv, NEW w \in Worker, Throw(w)
    PROVE  IInv'
BY DoneStep, Typed DEF Throw, DbOK

LEMMA RunSetStartStep ==
    ASSUME IInv, NEW w \in Worker, RunSetRentalStartDate(w)
    PROVE  IInv'
<1>1. CASE Throw(w)
  BY <1>1, ThrowStep
<1>2. CASE ~Throw(w)
  <2>1. /\ DbOK /\ DbRight /\ task[w] \in Task /\ RequestRight(task[w])
        /\ task[w].op = "setStart" /\ fulfilment # Null
        /\ \E page \in Pages(charges) : ~AnyInvoiced(page)
    BY <1>2, Typed DEF WorkerRight, RunSetRentalStartDate, Running
  <2>2. task[w].date \in Time /\ task[w].date # NoDate /\ fulfilment \in Fulfilment
    BY <2>1, SentinelAssumption DEF RequestRight, DbOK, Time
  <2>3. PICK doc : doc = ResetLastChargedAt(
                            [fulfilment EXCEPT !.rentalStartDate = task[w].date])
    OBVIOUS
  <2>4. /\ DocumentRight(doc) /\ doc.rentalStartDate = task[w].date
        /\ doc.lastBillingPeriodEnd = NoDate
    BY <2>2, <2>3, ResetRight
  <2>5. RentalCharges({}) = {}
    BY DEF RentalCharges
  <2>6. BilledOnce(doc, Left(charges)) /\ RentalCharges(Left(charges)) = {}
    BY <2>4, <2>5, NothingBilled, LeftAll
  <2>7. PICK bill : WriteBill(w, bill, charges) /\ bill = CreateRentalCharges(doc, MinDays)
    BY <1>2, <2>3 DEF RunSetRentalStartDate
  <2>8. BillRight(bill, Left(charges)) /\ bill.doc.rentalStartDate = doc.rentalStartDate
    BY <2>1, <2>2, <2>4, <2>6, <2>7, BillsRight DEF DbOK
  <2>9. PICK step \in {"cancel", "commit"} : Goto(w, step)
    BY <1>2 DEF RunSetRentalStartDate
  <2>10. SeenOpen(charges)
    BY <2>1 DEF AnyInvoiced, SeenOpen, OnOnePage
  <2> QED BY <2>1, <2>2, <2>4, <2>6, <2>7, <2>8, <2>9, <2>10, WriteBillStep
<1> QED BY <1>1, <1>2

\* Only dates that billing does not depend on are changed.
LEMMA DateSet ==
    ASSUME NEW doc, DocumentRight(doc), NEW cs, BilledOnce(doc, cs), NEW date \in Instant,
           NEW new, \/ new = [doc EXCEPT !.rentalEndDate = date]
                    \/ new = [doc EXCEPT !.expectedRentalEndDate = date]
    PROVE  /\ DocumentRight(new) /\ BilledOnce(new, cs)
           /\ new.rentalStartDate = doc.rentalStartDate
<1>1. doc \in Fulfilment /\ doc # Null
  BY NullAssumption DEF DocumentRight
<1>2. /\ new \in Fulfilment /\ new.rentalStartDate = doc.rentalStartDate
      /\ new.lastBillingPeriodEnd = doc.lastBillingPeriodEnd
      /\ new.totalDaysCharged = doc.totalDaysCharged
  BY <1>1 DEF Fulfilment
<1>3. new # Null
  BY <1>2, NullAssumption
<1>4. DocumentRight(new)
  BY <1>1, <1>2, <1>3 DEF DocumentRight, PositionRight, DaysCounted
<1> QED BY <1>1, <1>2, <1>4, SameBilled

LEMMA RunSetEndStep ==
    ASSUME IInv, NEW w \in Worker, RunSetRentalEndDate(w)
    PROVE  IInv'
<1>1. CASE Throw(w)
  BY <1>1, ThrowStep
<1>2. CASE ~Throw(w)
  <2>1. /\ DbOK /\ DbRight /\ task[w] \in Task /\ RequestRight(task[w])
        /\ task[w].op = "setEnd" /\ fulfilment # Null
    BY <1>2, Typed DEF WorkerRight, RunSetRentalEndDate, Running
  <2>2. task[w].date \in Instant /\ fulfilment.rentalStartDate # NoDate
    BY <2>1, NoDateRight DEF RequestRight
  <2>3. DocumentRight(fulfilment) /\ BilledOnce(fulfilment, charges)
    BY <2>1 DEF DbRight
  <2>4. PICK doc : doc = [fulfilment EXCEPT !.rentalEndDate = task[w].date]
    OBVIOUS
  <2>5. /\ DocumentRight(doc) /\ BilledOnce(doc, charges)
        /\ doc.rentalStartDate = fulfilment.rentalStartDate
    BY <2>2, <2>3, <2>4, DateSet
  <2>6. PICK bill : WriteBill(w, bill, {}) /\ bill = CreateRentalCharges(doc, 0)
    BY <1>2, <2>4 DEF RunSetRentalEndDate
  <2>7. BillRight(bill, Left({})) /\ bill.doc.rentalStartDate = doc.rentalStartDate
    BY <2>1, <2>2, <2>5, <2>6, BillsRight, LeftAll DEF DbOK
  <2>8. Goto(w, "commit")
    BY <1>2 DEF RunSetRentalEndDate
  <2> QED BY <2>1, <2>5, <2>6, <2>7, <2>8, NothingUnseen, WriteBillStep
<1> QED BY <1>1, <1>2

LEMMA RunSetExpectedEndStep ==
    ASSUME IInv, NEW w \in Worker, RunSetExpectedRentalEndDate(w)
    PROVE  IInv'
<1>1. CASE Throw(w)
  BY <1>1, ThrowStep
<1>2. CASE ~Throw(w)
  <2>1. /\ DbOK /\ DbRight /\ task[w] \in Task /\ RequestRight(task[w])
        /\ task[w].op = "setExpectedEnd" /\ fulfilment # Null
    BY <1>2, Typed DEF WorkerRight, RunSetExpectedRentalEndDate, Running
  <2>2. task[w].date \in Instant
    BY <2>1, NoDateRight DEF RequestRight
  <2>3. DocumentRight(fulfilment) /\ BilledOnce(fulfilment, charges)
    BY <2>1 DEF DbRight
  <2>4. PICK doc : doc = [fulfilment EXCEPT !.expectedRentalEndDate = task[w].date]
    OBVIOUS
  <2>5. /\ DocumentRight(doc) /\ BilledOnce(doc, charges)
        /\ doc.rentalStartDate = fulfilment.rentalStartDate
    BY <2>2, <2>3, <2>4, DateSet
  <2>6. PICK bill : /\ WriteBill(w, bill, {})
                    /\ bill = [doc |-> doc, inserted |-> {}, last |-> lastCharge]
    BY <1>2, <2>4 DEF RunSetExpectedRentalEndDate
  <2>7. BillRight(bill, Left({})) /\ bill.doc = doc
    BY <2>1, <2>5, <2>6, NoBillRight, LeftAll DEF DbOK
  <2>8. Goto(w, "commit")
    BY <1>2 DEF RunSetExpectedRentalEndDate
  <2> QED BY <2>1, <2>5, <2>6, <2>7, <2>8, NothingUnseen, WriteBillStep
<1> QED BY <1>1, <1>2

LEMMA RunCalculateChargesStep ==
    ASSUME IInv, NEW w \in Worker, RunCalculateCharges(w)
    PROVE  IInv'
<1>1. CASE Throw(w)
  BY <1>1, ThrowStep
<1>2. CASE ~Throw(w)
  <2>1. /\ DbOK /\ DbRight /\ task[w].op = "calculateCharges"
        /\ fulfilment # Null /\ fulfilment.rentalStartDate # NoDate
    BY <1>2, Typed DEF RunCalculateCharges, Running, Chargeable
  <2>2. DocumentRight(fulfilment) /\ BilledOnce(fulfilment, charges)
    BY <2>1 DEF DbRight
  <2>3. PICK bill : WriteBill(w, bill, {}) /\ bill = CreateRentalCharges(fulfilment, 0)
    BY <1>2 DEF RunCalculateCharges
  <2>4. /\ BillRight(bill, Left({}))
        /\ bill.doc.rentalStartDate = fulfilment.rentalStartDate
    BY <2>1, <2>2, <2>3, BillsRight, LeftAll DEF DbOK
  <2>5. Goto(w, "commit")
    BY <1>2 DEF RunCalculateCharges
  <2> QED BY <2>1, <2>3, <2>4, <2>5, NothingUnseen, WriteBillStep
<1> QED BY <1>1, <1>2

LEMMA ReadOnlyRight ==
    ASSUME DbOK, UNCHANGED db, NEW t \in Task, NEW v \in Txn, RequestRight(t),
           t.step = "commit", ~v.writesDoc, v.base = revision, v.deleted = {},
           \A c \in v.allocated : ~c.invoiced,
           RentalCharges(v.inserted) = {}, ChargesRight(v.inserted, lastCharge'),
           Ids(v.inserted) \cap Ids(charges) = {}
    PROVE  WorkerRight(t, v)'
<1>1. RequestRight(t)' /\ SnapshotRight(t, v)'
  BY DEF db, RequestRight, SnapshotRight
<1>2. TxnRight(t, v)'
  BY NothingUnseen DEF db, DbOK, TxnRight, ChargesRight, Dated, OneEachId, RentalCharges
<1> QED BY <1>1, <1>2 DEF WorkerRight

LEMMA DeliveryChargeRight ==
    ASSUME NEW id \in Nat \ {0}, NEW doc \in Fulfilment
    PROVE  LET c == DeliveryCharge(id, doc)
           IN  c \in Charge /\ Dated(c) /\ c.id = id /\ c.chargeType = "SERVICE"
BY DEF DeliveryCharge, Charge, Dated, Fulfilment

\* What a transaction that only reads the document has read.
LEMMA ReadOnlyTyped ==
    ASSUME DbOK, charges \subseteq Charge, NEW cs \in SUBSET Charge,
           NEW v, v = [ReadOnly EXCEPT !.inserted = cs] \/ v = [ReadOnly EXCEPT !.allocated = cs]
    PROVE  /\ v \in Txn /\ v.base = revision /\ ~v.writesDoc /\ v.deleted = {}
           /\ v = [ReadOnly EXCEPT !.inserted = cs] => v.inserted = cs /\ v.allocated = {}
           /\ v = [ReadOnly EXCEPT !.allocated = cs] => v.inserted = {} /\ v.allocated = cs
<1> DEFINE x == ReadOnly
<1>1. NoTxn \in Txn /\ ~NoTxn.writesDoc /\ NoTxn.deleted = {}
      /\ NoTxn.inserted = {} /\ NoTxn.allocated = {}
  BY DEF NoTxn, Txn
<1>2. x = [NoTxn EXCEPT !.base = revision, !.seen = charges]
  BY DEF ReadOnly
<1>3. /\ x \in Txn /\ x.base = revision /\ ~x.writesDoc /\ x.deleted = {}
      /\ x.inserted = {} /\ x.allocated = {}
  BY <1>1, <1>2 DEF DbOK, Txn
<1> HIDE DEF x
<1>4. CASE v = [x EXCEPT !.inserted = cs]
  BY <1>3, <1>4 DEF Txn
<1>5. CASE v = [x EXCEPT !.allocated = cs]
  BY <1>3, <1>5 DEF Txn
<1>6. /\ v = [x EXCEPT !.inserted = cs] => v.inserted = cs /\ v.allocated = {}
      /\ v = [x EXCEPT !.allocated = cs] => v.inserted = {} /\ v.allocated = cs
  BY <1>3 DEF Txn
<1> QED BY <1>4, <1>5, <1>6 DEF x

LEMMA ReadingStep ==
    ASSUME IInv, NEW w \in Worker, Goto(w, "commit"), task[w].op # "nightly",
           NEW v \in Txn, txn' = [txn EXCEPT ![w] = v],
           UNCHANGED <<now, db, jobs, faults>>,
           lastCharge' \in Nat, lastCharge <= lastCharge',
           v.base = revision, ~v.writesDoc, v.deleted = {},
           \A c \in v.allocated : ~c.invoiced, RentalCharges(v.inserted) = {},
           ChargesRight(v.inserted, lastCharge'), \A c \in v.inserted : lastCharge < c.id
    PROVE  IInv'
<1>1. /\ DbOK /\ DbRight /\ task[w] \in Task
      /\ RequestRight(task[w]) /\ Apart(w, task[w], txn[w])
  BY Typed DEF WorkerRight
<1>2. PICK t : t = Ran(task[w], "commit")
  OBVIOUS
<1>3. t \in Task /\ t.op = task[w].op /\ t.date = task[w].date /\ t.step = "commit"
  BY <1>1, <1>2, RanTyped
<1>4. task' = [task EXCEPT ![w] = t]
  BY <1>2 DEF Goto, Ran
<1>5. DbOK'
  BY <1>1 DEF DbOK, db
<1>6. RequestRight(t)
  BY <1>1, <1>3 DEF RequestRight
<1>7. Ids(v.inserted) \cap Ids(charges) = {}
  BY <1>1 DEF DbOK, DbRight, Ids, ChargesRight, Charge
<1>8. UNCHANGED db
  OBVIOUS
<1>9. WorkerRight(t, v)'
  BY <1>1, <1>3, <1>6, <1>7, <1>8, ReadOnlyRight
<1>10. Apart(w, t, v)
  <2>1. \A c \in v.inserted : c.id \in Nat
    BY DEF Txn, Charge
  <2> QED BY <1>1, <1>3, <2>1, NewIdsApart DEF Apart
<1> QED BY <1>3, <1>4, <1>5, <1>8, <1>9, <1>10, QuietStep

LEMMA RunCreateDeliveryStep ==
    ASSUME IInv, NEW w \in Worker, RunCreateDeliveryCharge(w)
    PROVE  IInv'
<1>1. CASE Throw(w)
  BY <1>1, ThrowStep
<1>2. CASE ~Throw(w)
  <2>1. /\ DbOK /\ task[w].op = "createDeliveryCharge"
        /\ fulfilment \in Fulfilment /\ lastCharge \in Nat
    BY <1>2, Typed DEF DbOK, RunCreateDeliveryCharge, Running
  <2>2. PICK c : c = DeliveryCharge(lastCharge + 1, fulfilment)
    OBVIOUS
  <2>3. /\ c \in Charge /\ Dated(c) /\ c.id = lastCharge + 1 /\ c.chargeType = "SERVICE"
        /\ lastCharge < lastCharge + 1 /\ lastCharge + 1 \in Nat
    BY <2>1, <2>2, DeliveryChargeRight
  <2>4. PICK v : v = [ReadOnly EXCEPT !.inserted = {c}]
    OBVIOUS
  <2>5. /\ Goto(w, "commit") /\ UNCHANGED <<now, db, jobs, faults>>
        /\ lastCharge' = lastCharge + 1 /\ txn' = [txn EXCEPT ![w] = v]
    BY <1>2, <2>2, <2>4 DEF RunCreateDeliveryCharge
  <2>6. charges \subseteq Charge /\ {c} \in SUBSET Charge
    BY <2>3, Typed DEF DbRight, ChargesRight
  <2>7. /\ v \in Txn /\ v.base = revision /\ ~v.writesDoc /\ v.deleted = {}
        /\ v.inserted = {c} /\ v.allocated = {}
    BY <2>1, <2>3, <2>4, <2>6, ReadOnlyTyped
  <2>8. /\ ChargesRight(v.inserted, lastCharge') /\ RentalCharges(v.inserted) = {}
        /\ \A d \in v.inserted : lastCharge < d.id
    BY <2>3, <2>5, <2>7 DEF ChargesRight, OneEachId, RentalCharges
  <2>9. /\ lastCharge' \in Nat /\ lastCharge <= lastCharge' /\ task[w].op # "nightly"
        /\ \A d \in v.allocated : ~d.invoiced
    BY <2>1, <2>3, <2>5, <2>7
  <2> QED BY <2>5, <2>7, <2>8, <2>9, ReadingStep
<1> QED BY <1>1, <1>2

LEMMA RunAddChargeStep ==
    ASSUME IInv, NEW w \in Worker, RunAddChargeToInvoice(w)
    PROVE  IInv'
<1>1. CASE Throw(w)
  BY <1>1, ThrowStep
<1>2. CASE ~Throw(w)
  <2>1. DbOK /\ task[w].op = "invoice" /\ lastCharge \in Nat
    BY <1>2, Typed DEF DbOK, RunAddChargeToInvoice, Running
  <2>2. PICK found : found = {c \in charges : c.id = task[w].charge /\ ~c.invoiced}
    OBVIOUS
  <2>3. found \subseteq charges /\ \A c \in found : ~c.invoiced
    BY <2>2
  <2>4. PICK v : v = [ReadOnly EXCEPT !.allocated = found]
    OBVIOUS
  <2>5. /\ Goto(w, "commit") /\ UNCHANGED <<now, db, lastCharge, jobs, faults>>
        /\ txn' = [txn EXCEPT ![w] = v]
    BY <1>2, <2>2, <2>4 DEF RunAddChargeToInvoice
  <2>6. charges \subseteq Charge
    BY Typed DEF DbRight, ChargesRight
  <2>7. /\ v \in Txn /\ v.base = revision /\ ~v.writesDoc /\ v.deleted = {}
        /\ v.inserted = {} /\ v.allocated = found
    BY <2>1, <2>3, <2>4, <2>6, ReadOnlyTyped
  <2>8. /\ ChargesRight(v.inserted, lastCharge') /\ RentalCharges(v.inserted) = {}
        /\ \A d \in v.inserted : lastCharge < d.id
    BY <2>7 DEF ChargesRight, OneEachId, RentalCharges
  <2>9. /\ lastCharge' \in Nat /\ lastCharge <= lastCharge' /\ task[w].op # "nightly"
        /\ \A d \in v.allocated : ~d.invoiced
    BY <2>1, <2>3, <2>5, <2>7
  <2> QED BY <2>5, <2>7, <2>8, <2>9, ReadingStep
<1> QED BY <1>1, <1>2

LEMMA RunStep ==
    ASSUME IInv, NEW w \in Worker, Run(w)
    PROVE  IInv'
BY RunCreateStep, RunSetStartStep, RunSetEndStep, RunSetExpectedEndStep,
   RunCalculateChargesStep, RunCreateDeliveryStep, RunAddChargeStep DEF Run
-------------------------------------------------------------------------------
(***************************************************************************)
(* The steps outside the session, and the delivery charge.                 *)
(***************************************************************************)
Moved(x, step) == [x EXCEPT !.step = step]

LEMMA MovedRight ==
    ASSUME NEW x \in Task, NEW v, WorkerRight(x, v), x.step \in {"cancel", "deliver"},
           NEW step \in {"deliver", "commit"}
    PROVE  LET t == Moved(x, step)
           IN  /\ t \in Task /\ t.op = x.op /\ t.step = step
               /\ WorkerRight(t, v)
<1> DEFINE t == Moved(x, step)
<1>1. t \in Task /\ t.op = x.op /\ t.date = x.date /\ t.step = step
  BY DEF Moved, Task
<1> HIDE DEF t
<1>2. WorkerRight(t, v)
  BY <1>1 DEF WorkerRight, RequestRight, TxnRight, SnapshotRight
<1> QED BY <1>1, <1>2 DEF t

\* The transaction stays as it is.
LEMMA MoveStep ==
    ASSUME IInv, NEW w \in Worker, task[w].step \in {"cancel", "deliver"},
           NEW step \in {"deliver", "commit"},
           task' = [task EXCEPT ![w].step = step], jobs' \subseteq Job,
           UNCHANGED <<now, db, lastCharge, txn, faults>>
    PROVE  IInv'
<1>1. /\ DbOK /\ task[w] \in Task /\ WorkerRight(task[w], txn[w])
      /\ Apart(w, task[w], txn[w]) /\ txn[w] \in Txn
  BY Typed
<1>2. PICK t : t = Moved(task[w], step)
  OBVIOUS
<1>3. t \in Task /\ t.op = task[w].op /\ WorkerRight(t, txn[w])
  BY <1>1, <1>2, MovedRight
<1>4. task' = [task EXCEPT ![w] = t]
  BY <1>2 DEF Moved
<1>5. PICK v : v = txn[w]
  OBVIOUS
<1>6. txn' = [txn EXCEPT ![w] = v]
  BY <1>5 DEF IInv, TypeOK
<1>7. DbOK' /\ lastCharge' \in Nat /\ lastCharge <= lastCharge' /\ UNCHANGED db
  BY <1>1 DEF DbOK, db
<1>8. v \in Txn /\ WorkerRight(t, v)
  BY <1>1, <1>3, <1>5
<1>9. WorkerRight(t, v)'
  BY <1>1, <1>3, <1>7, <1>8, QuietRight
<1>10. Apart(w, t, v)
  BY <1>1, <1>3, <1>5 DEF Apart
<1> QED BY <1>3, <1>4, <1>6, <1>7, <1>8, <1>9, <1>10, QuietStep

LEMMA CancelStep ==
    ASSUME IInv, NEW w \in Worker, CancelDeliveryJobs(w)
    PROVE  IInv'
<1>1. jobs' \subseteq Job
  BY Typed DEF DbOK, CancelDeliveryJobs
<1> QED BY <1>1, MoveStep DEF CancelDeliveryJobs

LEMMA DeliverLaterStep ==
    ASSUME IInv, NEW w \in Worker, DeliverLater(w)
    PROVE  IInv'
<1>1. task[w].date \in Time
  BY Typed DEF DeliverLater, WorkerRight, RequestRight
<1>2. jobs' \subseteq Job
  BY <1>1, Typed, PutJobTyped DEF DeliverLater
<1> QED BY <1>2, MoveStep DEF DeliverLater

Delivering(v, c) == [v EXCEPT !.inserted = @ \cup {c}]

LEMMA DeliveringTyped ==
    ASSUME NEW v \in Txn, NEW c \in Charge
    PROVE  LET new == Delivering(v, c)
           IN  /\ new \in Txn /\ new.inserted = v.inserted \cup {c}
               /\ new.base = v.base /\ new.doc = v.doc /\ new.writesDoc = v.writesDoc
               /\ new.deleted = v.deleted /\ new.allocated = v.allocated
<1>1. v.inserted \cup {c} \in SUBSET Charge
  BY DEF Txn
<1> QED BY <1>1 DEF Delivering, Txn

LEMMA DeliveryAdded ==
    ASSUME NEW t \in Task, NEW v \in Txn, WorkerRight(t, v), DbOK, v.writesDoc,
           ChargesRight(charges, lastCharge),
           UNCHANGED db, lastCharge' = lastCharge + 1,
           NEW c \in Charge, Dated(c), c.id = lastCharge + 1, c.chargeType = "SERVICE",
           NEW new \in Txn, new.inserted = v.inserted \cup {c},
           new.base = v.base, new.doc = v.doc, new.writesDoc = v.writesDoc,
           new.deleted = v.deleted, new.allocated = v.allocated,
           t.step = "commit"
    PROVE  WorkerRight(t, new)'
<1>1. /\ lastCharge \in Nat /\ lastCharge' \in Nat
      /\ lastCharge <= lastCharge' /\ lastCharge < lastCharge'
  BY DEF DbOK
<1>2. WorkerRight(t, v)'
  BY <1>1, QuietRight
<1>3. ChargesRight(new.inserted, lastCharge')
  <2>1. \A d \in v.inserted : d \in Charge /\ d.id <= lastCharge /\ d.id \in Nat /\ Dated(d)
    BY DEF WorkerRight, TxnRight, ChargesRight, Charge
  <2>2. \A d \in v.inserted : d.id # c.id /\ d.id <= lastCharge'
    BY <1>1, <2>1
  <2> QED BY <1>1, <2>1, <2>2 DEF WorkerRight, TxnRight, ChargesRight, OneEachId
<1>4. Ids(new.inserted) \cap Ids(charges) = {}
  <2>1. \A d \in charges : d.id # c.id
    BY <1>1 DEF DbOK, ChargesRight, Charge
  <2> QED BY <2>1 DEF WorkerRight, TxnRight, Ids
<1>5. TxnRight(t, new)'
  <2>1. TxnRight(t, v)'
    BY <1>2 DEF WorkerRight
  <2> QED BY <1>3, <1>4, <2>1 DEF db, TxnRight, ChargesRight, Dated, OneEachId, DocumentRight,
                               PositionRight, DaysCounted, DaysBetween
<1>6. RentalCharges(Left(new.deleted)' \cup new.inserted)
        = RentalCharges(Left(v.deleted)' \cup v.inserted)
  BY DEF RentalCharges
<1>7. SnapshotRight(t, new)'
  BY <1>2, <1>6 DEF WorkerRight, SnapshotRight, BilledOnce
<1> QED BY <1>2, <1>5, <1>7 DEF WorkerRight

LEMMA DeliverNowStep ==
    ASSUME IInv, NEW w \in Worker, DeliverNow(w)
    PROVE  IInv'
<1>1. CASE UNCHANGED <<txn, lastCharge>>
  <2>1. jobs' \subseteq Job
    BY Typed DEF DbOK, DeliverNow
  <2> QED BY <1>1, <2>1, MoveStep DEF DeliverNow
<1>2. CASE ~UNCHANGED <<txn, lastCharge>>
  <2>1. /\ DbOK /\ DbRight /\ task[w] \in Task /\ WorkerRight(task[w], txn[w])
        /\ Apart(w, task[w], txn[w]) /\ txn[w] \in Txn /\ task[w].step = "deliver"
    BY Typed DEF DeliverNow
  <2>2. PICK v : v = txn[w]
    OBVIOUS
  <2>3. v \in Txn /\ v.writesDoc /\ v.doc \in Fulfilment
    BY <2>1, <2>2 DEF WorkerRight, TxnRight, DocumentRight
  <2>4. PICK t : t = Moved(task[w], "commit")
    OBVIOUS
  <2>5. /\ t \in Task /\ t.op = task[w].op /\ t.step = "commit" /\ WorkerRight(t, v)
    BY <2>1, <2>2, <2>4, MovedRight
  <2>6. PICK c : c = DeliveryCharge(lastCharge + 1, v.doc)
    OBVIOUS
  <2>7. /\ c \in Charge /\ Dated(c) /\ c.id = lastCharge + 1 /\ c.chargeType = "SERVICE"
        /\ lastCharge \in Nat /\ lastCharge + 1 \in Nat /\ lastCharge <= lastCharge + 1
    BY <2>1, <2>3, <2>6, DeliveryChargeRight DEF DbOK
  <2>8. PICK new : new = Delivering(v, c)
    OBVIOUS
  <2>9. /\ new \in Txn /\ new.inserted = v.inserted \cup {c}
        /\ new.base = v.base /\ new.doc = v.doc /\ new.writesDoc = v.writesDoc
        /\ new.deleted = v.deleted /\ new.allocated = v.allocated
    BY <2>3, <2>7, <2>8, DeliveringTyped
  <2>10. task' = [task EXCEPT ![w] = t]
    BY <2>4 DEF DeliverNow, Moved
  <2>11. txn' = [txn EXCEPT ![w] = new] /\ lastCharge' = lastCharge + 1
    BY <1>2, <2>2, <2>6, <2>8 DEF DeliverNow, Delivering
  <2>12. UNCHANGED <<now, db, jobs, faults>>
    BY DEF DeliverNow
  <2>13. WorkerRight(t, new)'
    BY <2>1, <2>3, <2>5, <2>7, <2>9, <2>11, <2>12, DeliveryAdded DEF DbRight
  <2>14. Apart(w, t, new)
    <3>1. \A d \in {c} : d.id \in Nat /\ lastCharge < d.id
      BY <2>7
    <3>2. \A u \in Worker \ {w} : Ids({c}) \cap Ids(txn[u].inserted) = {}
      BY <3>1, NewIdsApart
    <3> QED BY <2>1, <2>2, <2>5, <2>9, <3>2 DEF Apart, Ids
  <2>15. DbOK'
    BY <2>1, <2>7, <2>11, <2>12 DEF DbOK, db
  <2> QED BY <2>5, <2>7, <2>9, <2>10, <2>11, <2>12, <2>13, <2>14, <2>15, QuietStep
<1> QED BY <1>1, <1>2
-------------------------------------------------------------------------------
(***************************************************************************)
(* The commit.  What it deletes or puts on an invoice is still there.      *)
(***************************************************************************)
InvoicedOf(cs) == {Invoiced(c) : c \in cs}

LEMMA InvoicedRight ==
    ASSUME NEW c \in Charge
    PROVE  /\ Invoiced(c) \in Charge /\ Invoiced(c).id = c.id /\ Invoiced(c).invoiced
           /\ Invoiced(c).chargeType = c.chargeType
           /\ Invoiced(c).billingPeriodStart = c.billingPeriodStart
           /\ Invoiced(c).billingPeriodEnd = c.billingPeriodEnd
BY DEF Invoiced, Charge

LEMMA TouchedIs ==
    ASSUME NEW w, OneEachId(charges), txn[w].deleted \cup txn[w].allocated \subseteq charges
    PROVE  Touched(w) = txn[w].deleted \cup txn[w].allocated
BY DEF OneEachId, Touched

\* Charges cs, of which del are deleted, ins are added and inv are invoiced.
Changed(cs, del, ins, inv) == (cs \ (del \cup inv)) \cup ins \cup InvoicedOf(inv)

LEMMA ChargesChange ==
    ASSUME NEW last \in Nat, NEW cs, ChargesRight(cs, last),
           NEW del \in SUBSET cs, NEW inv \in SUBSET cs, NEW ins, ChargesRight(ins, last),
           Ids(ins) \cap Ids(cs) = {}
    PROVE  LET new == Changed(cs, del, ins, inv)
           IN  /\ ChargesRight(new, last)
               /\ Ids(new) \subseteq Ids(cs) \cup Ids(ins)
<1> DEFINE new == Changed(cs, del, ins, inv)
<1> USE DEF Changed
<1>1. cs \subseteq Charge /\ ins \subseteq Charge
  BY DEF ChargesRight
<1>2. \A c \in InvoicedOf(inv) : \E d \in inv :
         /\ c = Invoiced(d) /\ c \in Charge /\ c.id = d.id
         /\ c.chargeType = d.chargeType
         /\ c.billingPeriodStart = d.billingPeriodStart
         /\ c.billingPeriodEnd = d.billingPeriodEnd
  BY <1>1, InvoicedRight DEF InvoicedOf
<1>3. \A c \in InvoicedOf(inv) : c.id <= last /\ Dated(c)
  BY <1>2 DEF ChargesRight, Dated
<1>4. \A c \in ins, d \in cs : c.id # d.id
  BY DEF Ids
<1>5. OneEachId(new)
  <2> SUFFICES ASSUME NEW c \in new, NEW d \in new, c.id = d.id
               PROVE  c = d
    BY DEF OneEachId
  <2>1. ASSUME NEW x \in new
        PROVE  \/ x \in ins
               \/ x \in cs /\ x \notin inv
               \/ \E y \in cs : y.id = x.id /\ x = Invoiced(y) /\ y \in inv
    <3>1. CASE x \in cs \ (del \cup inv)
      BY <3>1
    <3>2. CASE x \in InvoicedOf(inv)
      BY <3>2, <1>2
    <3> QED BY <3>1, <3>2, <2>1
  <2>2. \A x, y \in cs : x.id = y.id => x = y
    BY DEF ChargesRight, OneEachId
  <2>3. \A x, y \in ins : x.id = y.id => x = y
    BY DEF ChargesRight, OneEachId
  <2> QED BY <1>4, <2>1, <2>2, <2>3
<1>6. Ids(new) \subseteq Ids(cs) \cup Ids(ins)
  BY <1>2 DEF Ids
<1> QED BY <1>1, <1>2, <1>3, <1>5, <1>6 DEF ChargesRight

LEMMA CommitCharges ==
    ASSUME IInv, NEW w \in Worker, Commit(w), NEW v, v = txn[w]
    PROVE  /\ v.deleted \subseteq charges /\ v.allocated \subseteq charges
           /\ charges' = Changed(charges, v.deleted, v.inserted, v.allocated)
           /\ ChargesRight(charges', lastCharge)
           /\ Ids(charges') \subseteq Ids(charges) \cup Ids(v.inserted)
           /\ \A c \in v.inserted, d \in charges : c.id # d.id
<1>1. v.deleted \subseteq charges /\ v.allocated \subseteq charges
  BY DEF Commit, Conflict
<1>2. /\ DbOK /\ ChargesRight(charges, lastCharge)
      /\ ChargesRight(v.inserted, lastCharge) /\ Ids(v.inserted) \cap Ids(charges) = {}
  BY Typed DEF DbRight, WorkerRight, TxnRight
<1>3. Touched(w) = v.deleted \cup v.allocated
  BY <1>1, <1>2, TouchedIs DEF ChargesRight
<1>4. charges' = Changed(charges, v.deleted, v.inserted, v.allocated)
  BY <1>3 DEF Commit, Changed, InvoicedOf
<1>5. ChargesRight(charges', lastCharge)
      /\ Ids(charges') \subseteq Ids(charges) \cup Ids(v.inserted)
  <2>1. v.deleted \in SUBSET charges /\ v.allocated \in SUBSET charges /\ lastCharge \in Nat
    BY <1>1, <1>2 DEF DbOK
  <2> QED BY <1>2, <1>4, <2>1, ChargesChange
<1> QED BY <1>1, <1>2, <1>4, <1>5 DEF Ids

\* Other workers when the document has been written.
LEMMA OutdatedRight ==
    ASSUME NEW t \in Task, NEW v \in Txn, DbOK, WorkerRight(t, v),
           revision' = revision + 1, UNCHANGED lastCharge,
           Ids(v.inserted) \cap Ids(charges') = {},
           t.op # "create",
           t.op = "setEnd" => fulfilment' = Null \/ fulfilment'.rentalStartDate # NoDate
    PROVE  WorkerRight(t, v)'
<1>1. revision \in Nat /\ v.base \in Nat /\ v.base <= revision
  BY DEF DbOK, WorkerRight, TxnRight, Txn
<1>2. RequestRight(t)' /\ SnapshotRight(t, v)'
  BY <1>1 DEF WorkerRight, RequestRight, SnapshotRight
<1>3. TxnRight(t, v)'
  BY <1>1 DEF WorkerRight, TxnRight, ChargesRight, Dated, OneEachId, DocumentRight,
              PositionRight, DaysCounted, DaysBetween
<1> QED BY <1>2, <1>3 DEF WorkerRight

\* Once the commit is done, the others being right.
LEMMA CommitDone ==
    ASSUME IInv, NEW w \in Worker, Done(w), UNCHANGED <<now, lastCharge, faults>>,
           fulfilment' \in Fulfilment \cup {Null}, revision' \in Nat, DbRight',
           \A u \in Worker \ {w} : WorkerRight(task[u], txn[u])'
    PROVE  IInv'
<1>1. DbOK'
  BY Typed DEF DbOK, Done
<1>2. NoTxn \in Txn /\ Idle \in Task /\ Idle.op = "idle" /\ Idle.step = "idle"
  BY Typed, IdleRight, NoTxnRight
<1>3. WorkerRight(Idle, NoTxn)'
  BY <1>1, <1>2, NothingUnseen
     DEF WorkerRight, RequestRight, SnapshotRight, TxnRight, NoTxn, DbOK,
         ChargesRight, OneEachId, Ids, RentalCharges
<1>4. Apart(w, Idle, NoTxn)
  BY <1>2 DEF Apart, NoTxn, Ids
<1> QED BY <1>1, <1>2, <1>3, <1>4, OneWorker DEF Done

LEMMA CommitDocument ==
    ASSUME IInv, NEW w \in Worker, Commit(w), txn[w].writesDoc
    PROVE  IInv'
<1>1. PICK v : v = txn[w]
  OBVIOUS
<1>2. PICK t : t = task[w]
  OBVIOUS
<1>3. /\ DbOK /\ DbRight /\ t \in Task /\ v \in Txn /\ WorkerRight(t, v) /\ Apart(w, t, v)
  BY <1>1, <1>2, Typed
<1>4. /\ fulfilment' = v.doc /\ revision' = revision + 1
      /\ v.base = revision /\ v.writesDoc /\ v.allocated = {}
      /\ DocumentRight(v.doc) /\ revision \in Nat
  BY <1>1, <1>3 DEF Commit, Conflict, WorkerRight, TxnRight, DbOK
<1>5. /\ v.deleted \subseteq charges
      /\ charges' = (charges \ v.deleted) \cup v.inserted
      /\ ChargesRight(charges', lastCharge)
      /\ Ids(charges') \subseteq Ids(charges) \cup Ids(v.inserted)
  BY <1>1, <1>4, CommitCharges DEF Changed, InvoicedOf
<1>6. Left(v.deleted) = charges \ v.deleted
  BY <1>3, <1>5 DEF Left, Ids, DbRight, ChargesRight, OneEachId
<1>7. BilledOnce(v.doc, charges')
  BY <1>3, <1>4, <1>5, <1>6 DEF WorkerRight, SnapshotRight
<1>8. UNCHANGED <<now, lastCharge, faults>> /\ Done(w)
  BY DEF Commit
<1>9. v.doc \in Fulfilment /\ v.doc # Null
  BY <1>4, NullAssumption DEF DocumentRight
<1>10. DbRight'
  <2>1. (fulfilment # Null => DocumentRight(fulfilment))'
    BY <1>4, <1>8 DEF DocumentRight, PositionRight, DaysCounted, DaysBetween
  <2>2. BilledOnce(fulfilment, charges)'
    BY <1>4, <1>7 DEF BilledOnce
  <2>3. ChargesRight(charges, lastCharge)'
    BY <1>5, <1>8 DEF ChargesRight, Dated, OneEachId
  <2> QED BY <1>4, <2>1, <2>2, <2>3 DEF DbRight
<1>11. ASSUME NEW u \in Worker \ {w}
       PROVE  WorkerRight(task[u], txn[u])'
  <2>1. PICK x, y : x = task[u] /\ y = txn[u]
    OBVIOUS
  <2>2. x \in Task /\ y \in Txn /\ WorkerRight(x, y)
    BY <2>1, Typed
  <2>3. /\ Ids(v.inserted) \cap Ids(y.inserted) = {}
        /\ ~(t.op = "create" /\ x.op = "create")
    BY <1>3, <2>1 DEF Apart
  <2>4. Ids(y.inserted) \cap Ids(charges') = {}
    BY <1>5, <2>2, <2>3 DEF WorkerRight, TxnRight
  <2>5. x.op # "create"
    BY <1>3, <1>4, <2>2, <2>3 DEF WorkerRight, RequestRight, SnapshotRight, DbRight
  <2>6. x.op = "setEnd" => fulfilment'.rentalStartDate # NoDate
    BY <1>3, <1>4, <2>2 DEF WorkerRight, RequestRight, SnapshotRight, DbRight
  <2>7. WorkerRight(x, y)'
    BY <1>3, <1>4, <1>8, <2>2, <2>4, <2>5, <2>6, OutdatedRight
  <2>8. task'[u] = x /\ txn'[u] = y
    BY <1>8, <2>1 DEF Done, IInv, TypeOK
  <2> QED BY <2>7, <2>8 DEF WorkerRight, RequestRight, TxnRight, SnapshotRight, Left
<1> QED BY <1>4, <1>8, <1>9, <1>10, <1>11, CommitDone

\* No rent is added, deleted or moved by a commit that writes no document.
LEMMA ReadOnlyRents ==
    ASSUME NEW cs \in SUBSET Charge, NEW inv \in SUBSET cs, NEW ins, RentalCharges(ins) = {},
           NEW new, new = Changed(cs, {}, ins, inv)
    PROVE  /\ \A c \in RentalCharges(cs) : \E d \in RentalCharges(new) : SameRent(c, d)
           /\ \A d \in RentalCharges(new) : \E c \in RentalCharges(cs) : SameRent(c, d)
<1>1. \A c \in inv : c \in Charge /\ Invoiced(c) \in InvoicedOf(inv)
  BY DEF InvoicedOf
<1>2. \A c \in inv : c.chargeType = "RENTAL" => SameRent(c, Invoiced(c))
  BY <1>1, InvoicedRight DEF SameRent
<1>3. \A c \in InvoicedOf(inv) : \E d \in inv : c = Invoiced(d) /\ c.chargeType = d.chargeType
  BY <1>1, InvoicedRight DEF InvoicedOf
<1>4. new = (cs \ inv) \cup ins \cup InvoicedOf(inv)
  BY DEF Changed
<1>5. ASSUME NEW c \in RentalCharges(cs)
      PROVE  \E d \in RentalCharges(new) : SameRent(c, d)
  <2>1. c \in cs /\ c.chargeType = "RENTAL"
    BY DEF RentalCharges
  <2>2. CASE c \in inv
    <3>1. Invoiced(c) \in new /\ SameRent(c, Invoiced(c))
      BY <1>1, <1>2, <1>4, <2>1, <2>2
    <3> QED BY <3>1 DEF RentalCharges, SameRent
  <2>3. CASE c \notin inv
    <3>1. c \in new /\ SameRent(c, c)
      BY <1>4, <2>1, <2>3 DEF SameRent
    <3> QED BY <3>1 DEF RentalCharges, SameRent
  <2> QED BY <2>2, <2>3
<1>6. ASSUME NEW d \in RentalCharges(new)
      PROVE  \E c \in RentalCharges(cs) : SameRent(c, d)
  <2>1. d \in new /\ d.chargeType = "RENTAL"
    BY DEF RentalCharges
  <2>2. d \notin ins
    BY <2>1 DEF RentalCharges
  <2>3. CASE d \in InvoicedOf(inv)
    <3>1. PICK c \in inv : d = Invoiced(c) /\ d.chargeType = c.chargeType
      BY <1>3, <2>3
    <3>2. SameRent(c, d)
      BY <1>2, <2>1, <3>1
    <3> QED BY <3>1, <3>2 DEF RentalCharges, SameRent
  <2>4. CASE d \in cs \ inv
    <3>1. SameRent(d, d)
      BY <2>1 DEF SameRent
    <3> QED BY <2>4, <3>1 DEF RentalCharges, SameRent
  <2> QED BY <1>4, <2>1, <2>2, <2>3, <2>4
<1> QED BY <1>5, <1>6

\* Other workers when only such charges have changed.
LEMMA SameRentsRight ==
    ASSUME NEW t \in Task, NEW v \in Txn, WorkerRight(t, v),
           UNCHANGED <<fulfilment, revision, lastCharge>>,
           \A c \in RentalCharges(charges) : \E d \in RentalCharges(charges') : SameRent(c, d),
           \A d \in RentalCharges(charges') : \E c \in RentalCharges(charges) : SameRent(c, d),
           ChargesRight(charges', lastCharge),
           Ids(v.inserted) \cap Ids(charges') = {}
    PROVE  WorkerRight(t, v)'
<1>1. RequestRight(t)'
  BY DEF WorkerRight, RequestRight
<1>2. TxnRight(t, v)'
  BY DEF WorkerRight, TxnRight, ChargesRight, Dated, OneEachId, DocumentRight,
         PositionRight, DaysCounted, DaysBetween
<1>3. SnapshotRight(t, v)'
  <2> SUFFICES ASSUME v.writesDoc, v.base = revision
               PROVE  /\ BilledOnce(v.doc, Left(v.deleted)' \cup v.inserted)
                      /\ RentalCharges(Left(v.deleted)) = {} =>
                            RentalCharges(Left(v.deleted)') = {}
    BY DEF WorkerRight, SnapshotRight, BilledOnce, RentalCharges
  <2> DEFINE old == Left(v.deleted)
             new == Left(v.deleted)'
  <2>1. /\ \A c : c \in old <=> c \in charges /\ c.id \notin Ids(v.deleted)
        /\ \A c : c \in new <=> c \in charges' /\ c.id \notin Ids(v.deleted)
    BY DEF Left, Ids
  <2> HIDE DEF old, new
  <2>2. \A c \in RentalCharges(old) : \E d \in RentalCharges(new) : SameRent(c, d)
    BY <2>1 DEF RentalCharges, SameRent
  <2>3. \A d \in RentalCharges(new) : \E c \in RentalCharges(old) : SameRent(c, d)
    BY <2>1 DEF RentalCharges, SameRent
  <2>4. SameRents(old \cup v.inserted, new \cup v.inserted)
    BY <2>2, <2>3 DEF SameRents, RentalCharges, SameRent
  <2>5. OneEachId(new \cup v.inserted)
    <3>1. OneEachId(charges') /\ OneEachId(v.inserted)
      BY DEF ChargesRight, WorkerRight, TxnRight
    <3>2. \A c \in charges', d \in v.inserted : c.id # d.id
      BY DEF Ids
    <3> QED BY <2>1, <3>1, <3>2 DEF OneEachId
  <2>6. BilledOnce(v.doc, old \cup v.inserted)
    BY DEF WorkerRight, SnapshotRight, old
  <2>7. BilledOnce(v.doc, new \cup v.inserted)
    BY <2>4, <2>5, <2>6, BilledStays
  <2> QED BY <2>3, <2>7 DEF old, new
<1> QED BY <1>1, <1>2, <1>3 DEF WorkerRight

LEMMA CommitReadOnly ==
    ASSUME IInv, NEW w \in Worker, Commit(w), ~txn[w].writesDoc
    PROVE  IInv'
<1>1. PICK v : v = txn[w]
  OBVIOUS
<1>2. /\ DbOK /\ DbRight /\ v \in Txn /\ TxnRight(task[w], v) /\ Apart(w, task[w], v)
  BY <1>1, Typed DEF WorkerRight
<1>3. v.deleted = {} /\ RentalCharges(v.inserted) = {}
  BY <1>1, <1>2 DEF TxnRight
<1>4. /\ UNCHANGED <<fulfilment, revision>>
      /\ UNCHANGED <<now, lastCharge, faults>> /\ Done(w)
  BY DEF Commit
<1>5. /\ v.allocated \subseteq charges /\ charges \subseteq Charge
      /\ charges' = Changed(charges, {}, v.inserted, v.allocated)
      /\ ChargesRight(charges', lastCharge)
      /\ Ids(charges') \subseteq Ids(charges) \cup Ids(v.inserted)
  BY <1>1, <1>2, <1>3, CommitCharges DEF DbRight, ChargesRight
<1>6. PICK new : new = charges'
  OBVIOUS
<1>7. /\ \A c \in RentalCharges(charges) : \E d \in RentalCharges(new) : SameRent(c, d)
      /\ \A d \in RentalCharges(new) : \E c \in RentalCharges(charges) : SameRent(c, d)
  <2>1. /\ charges \in SUBSET Charge /\ v.allocated \in SUBSET charges
        /\ new = Changed(charges, {}, v.inserted, v.allocated)
    BY <1>5, <1>6
  <2> QED BY <1>3, <2>1, ReadOnlyRents
<1>8. DbRight'
  <2>1. SameRents(charges, new)
    BY <1>7 DEF SameRents, RentalCharges, SameRent
  <2>2. OneEachId(new)
    BY <1>5, <1>6 DEF ChargesRight
  <2>3. BilledOnce(fulfilment, new)
    BY <1>2, <2>1, <2>2, BilledStays DEF DbRight
  <2>4. BilledOnce(fulfilment, charges)'
    BY <1>4, <1>6, <2>3 DEF BilledOnce
  <2>5. (fulfilment # Null => DocumentRight(fulfilment))'
    BY <1>2, <1>4 DEF DbRight, DocumentRight, PositionRight, DaysCounted, DaysBetween
  <2>6. (revision = 0 => fulfilment = Null /\ RentalCharges(charges) = {})'
    BY <1>2, <1>4, <1>6, <1>7 DEF DbRight, RentalCharges
  <2>7. ChargesRight(charges, lastCharge)'
    BY <1>4, <1>5 DEF ChargesRight, Dated, OneEachId
  <2> QED BY <2>4, <2>5, <2>6, <2>7 DEF DbRight
<1>9. ASSUME NEW u \in Worker \ {w}
      PROVE  WorkerRight(task[u], txn[u])'
  <2>1. PICK x, y : x = task[u] /\ y = txn[u]
    OBVIOUS
  <2>2. x \in Task /\ y \in Txn /\ WorkerRight(x, y)
    BY <2>1, Typed
  <2>3. Ids(v.inserted) \cap Ids(y.inserted) = {}
    BY <1>2, <2>1 DEF Apart
  <2>4. Ids(y.inserted) \cap Ids(charges') = {}
    BY <1>5, <2>2, <2>3 DEF WorkerRight, TxnRight
  <2>5. WorkerRight(x, y)'
    BY <1>4, <1>5, <1>6, <1>7, <2>2, <2>4, SameRentsRight
  <2>6. task'[u] = x /\ txn'[u] = y
    BY <1>4, <2>1 DEF Done, IInv, TypeOK
  <2> QED BY <2>5, <2>6 DEF WorkerRight, RequestRight, TxnRight, SnapshotRight, Left
<1> QED BY <1>2, <1>4, <1>8, <1>9, CommitDone DEF DbOK

LEMMA FaultStep ==
    ASSUME IInv, NEW w \in Worker, Failure(w) \/ WriteConflict(w)
    PROVE  IInv'
<1>1. faults' \in 0 .. MaxFaults
  BY BoundsAssumption, Typed
     DEF DbOK, Failure, WriteConflict, TransientFault, CallFails, Crash, Fault
<1>2. CASE Retry(w)
  BY <1>1, <1>2, RetryStep
<1>3. CASE CallFails(w)
  BY <1>1, <1>3, DoneStep DEF CallFails
<1>4. CASE Crash(w)
  BY <1>1, <1>4, CrashStep DEF Crash
<1> QED BY <1>2, <1>3, <1>4 DEF Failure, WriteConflict, TransientFault

LEMMA TickStep ==
    ASSUME IInv, Tick
    PROVE  IInv'
<1>1. now' \in Time
  BY BoundsAssumption DEF IInv, TypeOK, Tick, Time
<1>2. UNCHANGED <<db, lastCharge, jobs, task, txn, faults>>
  BY DEF Tick
<1>3. TypeOK'
  BY <1>1, <1>2 DEF IInv, TypeOK, db
<1>4. lastCharge' \in Nat /\ lastCharge <= lastCharge'
  BY <1>2, Typed DEF DbOK
<1>5. DbRight'
  BY <1>2, <1>4, Typed, QuietDb
<1>6. ASSUME NEW u \in Worker
      PROVE  WorkerRight(task[u], txn[u])'
  <2>1. PICK x, y : x = task[u] /\ y = txn[u]
    OBVIOUS
  <2>2. WorkerRight(x, y)'
    BY <1>2, <1>4, <2>1, Typed, QuietRight
  <2> QED BY <1>2, <2>1, <2>2 DEF WorkerRight, RequestRight, TxnRight, SnapshotRight, Left
<1>7. WorkersApart'
  BY <1>2 DEF IInv, WorkersApart, Ids
<1> QED BY <1>3, <1>5, <1>6, <1>7 DEF IInv

LEMMA DeleteStep ==
    ASSUME IInv, DeleteFulfilment
    PROVE  IInv'
<1>1. /\ fulfilment # Null /\ fulfilment' = Null /\ revision' = revision + 1
      /\ UNCHANGED <<now, charges, lastCharge, jobs, task, txn, faults>>
  BY DEF DeleteFulfilment
<1>2. DbOK /\ DbRight /\ revision \in Nat /\ revision # 0
  BY <1>1, Typed DEF DbOK, DbRight
<1>3. TypeOK'
  BY <1>1, <1>2 DEF IInv, TypeOK
<1>4. DbRight'
  BY <1>1, <1>2 DEF DbRight, ChargesRight, Dated, OneEachId, BilledOnce
<1>5. ASSUME NEW u \in Worker
      PROVE  WorkerRight(task[u], txn[u])'
  <2>1. PICK x, y : x = task[u] /\ y = txn[u]
    OBVIOUS
  <2>2. x \in Task /\ y \in Txn /\ WorkerRight(x, y)
    BY <2>1, Typed
  <2>3. x.op # "create" /\ Ids(y.inserted) \cap Ids(charges') = {}
    BY <1>1, <1>2, <2>2 DEF WorkerRight, RequestRight, TxnRight
  <2>4. WorkerRight(x, y)'
    BY <1>1, <1>2, <2>2, <2>3, OutdatedRight
  <2> QED BY <1>1, <2>1, <2>4 DEF WorkerRight, RequestRight, TxnRight, SnapshotRight, Left
<1>6. WorkersApart'
  BY <1>1 DEF IInv, WorkersApart, Ids
<1> QED BY <1>3, <1>4, <1>5, <1>6 DEF IInv

LEMMA StutterStep ==
    ASSUME IInv, UNCHANGED vars
    PROVE  IInv'
<1>1. TypeOK' /\ DbRight' /\ WorkersApart'
  BY DEF vars, IInv, TypeOK, DbRight, WorkersApart, Ids, ChargesRight, Dated, OneEachId,
         DocumentRight, PositionRight, DaysCounted, DaysBetween, BilledOnce
<1>2. \A u \in Worker : WorkerRight(task[u], txn[u])'
  BY DEF vars, IInv, WorkerRight, RequestRight, TxnRight, SnapshotRight, Left, Ids,
         ChargesRight, Dated, OneEachId, DocumentRight, PositionRight, DaysCounted,
         DaysBetween, BilledOnce
<1> QED BY <1>1, <1>2 DEF IInv

LEMMA InitRight == Init => IInv
<1> SUFFICES ASSUME Init PROVE IInv
  OBVIOUS
<1>1. DbOK
  BY BoundsAssumption DEF Init, DbOK, Time
<1>2. NoTxn \in Txn /\ Idle \in Task /\ WorkerRight(Idle, NoTxn)
  BY <1>1, IdleRight, NoTxnRight
<1>3. TypeOK
  BY <1>1, <1>2 DEF Init, TypeOK, DbOK
<1>4. DbRight
  BY DEF Init, DbRight, ChargesRight, OneEachId, BilledOnce, RentalCharges
<1>5. \A w \in Worker : WorkerRight(task[w], txn[w])
  BY <1>2 DEF Init
<1>6. WorkersApart
  BY IdleRight DEF Init, WorkersApart, NoTxn, Ids
<1> QED BY <1>3, <1>4, <1>5, <1>6 DEF IInv

LEMMA InvarianceStep ==
    ASSUME IInv, [Next]_vars
    PROVE  IInv'
<1>1. CASE UNCHANGED vars
  BY <1>1, StutterStep
<1>2. CASE Tick
  BY <1>2, TickStep
<1>3. CASE DeleteFulfilment
  BY <1>3, DeleteStep
<1>4. ASSUME NEW w \in Worker, Call(w)
      PROVE  IInv'
  BY <1>4, CallStep
<1>5. ASSUME NEW w \in Worker, Progress(w)
      PROVE  IInv'
  BY <1>5, StartChargesJobStep, RunStep, CancelStep, DeliverNowStep, DeliverLaterStep,
     CommitDocument, CommitReadOnly, FaultStep DEF Progress
<1>6. ASSUME NEW w \in Worker, Failure(w)
      PROVE  IInv'
  BY <1>6, FaultStep
<1>7. ASSUME NEW w \in Worker, NightlyRentalChargesJob(w) \/ TakeJob(w)
      PROVE  IInv'
  BY <1>7, NightlyStep, TakeJobStep
<1> QED BY <1>1, <1>2, <1>3, <1>4, <1>5, <1>6, <1>7 DEF Next

LEMMA Invariance == Spec => []IInv
<1>1. IInv /\ [Next]_vars => IInv'
  BY InvarianceStep
<1> QED BY <1>1, InitRight, PTL DEF Spec
-------------------------------------------------------------------------------
(***************************************************************************)
(* What follows for every behaviour.                                       *)
(***************************************************************************)

(***************************************************************************)
(* The clock, the document, its charges and jobs, requests and transactions*)
(* are well typed, for any workers, calendar, dates and bounds.            *)
(***************************************************************************)
THEOREM TypeCorrect == Spec => []TypeOK
<1>1. IInv => TypeOK
  BY DEF IInv
<1> QED BY <1>1, Invariance, PTL

(***************************************************************************)
(* Every instant from the start to the end of the last billing period is   *)
(* on exactly one RENTAL charge and no other instant is, whatever jobs,    *)
(* requests, retries, faults and crashes meet.                             *)
(***************************************************************************)
THEOREM BilledExactlyOnce == Spec => []EveryDayBilledOnce
<1>1. IInv => EveryDayBilledOnce
  BY DEF IInv, DbRight, EveryDayBilledOnce
<1> QED BY <1>1, Invariance, PTL

(***************************************************************************)
(* The days that UPDATE_LAST_CHARGED_AT adds up are those from the start to*)
(* the end of the last billing period.                                     *)
(***************************************************************************)
THEOREM DaysAddUp == Spec => []TotalDaysCharged
<1>1. IInv => TotalDaysCharged
  BY DEF IInv, DbRight, DocumentRight, TotalDaysCharged, DaysCounted
<1> QED BY <1>1, Invariance, PTL

\* Only a commit changes charges.
LEMMA ChargesChangeInCommit ==
    ASSUME [Next]_vars, charges' # charges
    PROVE  \E w \in Worker : Commit(w)
BY DEF Next, vars, db, Tick, DeleteFulfilment, Call, CreateFulfilment, SetRentalStartDate,
       SetRentalEndDate, SetExpectedRentalEndDate, AddChargeToInvoice, Progress,
       StartChargesJob, Run, RunCreateFulfilment, RunSetRentalStartDate,
       RunSetRentalEndDate, RunSetExpectedRentalEndDate, RunCalculateCharges,
       RunCreateDeliveryCharge, RunAddChargeToInvoice, WriteBill, Throw,
       CancelDeliveryJobs, DeliverNow, DeliverLater, WriteConflict, Failure,
       TransientFault, CallFails, Crash, Retry, NightlyRentalChargesJob, TakeJob

\* Only a commit, or the deletion, changes the document.
LEMMA DocumentChangesInCommit ==
    ASSUME [Next]_vars, fulfilment' # fulfilment
    PROVE  DeleteFulfilment \/ \E w \in Worker : Commit(w) /\ txn[w].writesDoc
BY DEF Next, vars, db, Tick, Call, CreateFulfilment, SetRentalStartDate,
       SetRentalEndDate, SetExpectedRentalEndDate, AddChargeToInvoice, Progress,
       StartChargesJob, Run, RunCreateFulfilment, RunSetRentalStartDate,
       RunSetRentalEndDate, RunSetExpectedRentalEndDate, RunCalculateCharges,
       RunCreateDeliveryCharge, RunAddChargeToInvoice, WriteBill, Throw,
       CancelDeliveryJobs, DeliverNow, DeliverLater, Commit, WriteConflict, Failure,
       TransientFault, CallFails, Crash, Retry, NightlyRentalChargesJob, TakeJob

(***************************************************************************)
(* A charge on an invoice is neither deleted nor taken off, as long as the *)
(* charges fit on a page: then a commit deletes only charges that were not *)
(* on an invoice in its snapshot, and fails when one has changed since.    *)
(***************************************************************************)
THEOREM InvoicedKept == Spec => InvoicedChargesKept
<1>1. ASSUME IInv, [Next]_vars, OnOnePage(charges)
      PROVE  \A c \in charges : c.invoiced => c \in charges'
  <2>1. CASE charges' = charges
    BY <2>1
  <2>2. CASE charges' # charges
    <3>1. PICK w \in Worker : Commit(w)
      BY <1>1, <2>2, ChargesChangeInCommit
    <3>2. PICK v : v = txn[w]
      OBVIOUS
    <3>3. /\ charges' = Changed(charges, v.deleted, v.inserted, v.allocated)
          /\ v.deleted \subseteq charges
      BY <1>1, <3>1, <3>2, CommitCharges
    <3>4. SeenOpen(v.deleted) /\ \A c \in v.allocated : ~c.invoiced
      BY <1>1, <3>2, Typed DEF WorkerRight, TxnRight
    <3>5. \A c \in v.deleted : ~c.invoiced
      BY <1>1, <3>3, <3>4, DeletedOnOnePage
    <3> QED BY <3>3, <3>4, <3>5 DEF Changed
  <2> QED BY <2>1, <2>2
<1>2. IInv /\ [Next]_vars => [OnOnePage(charges) => \A c \in charges : c.invoiced => c \in charges']_vars
  BY <1>1
<1> QED BY <1>2, Invariance, PTL DEF Spec, InvoicedChargesKept

(***************************************************************************)
(* Once rent is on an invoice the start of the rental stays: only          *)
(* setRentalStartDate writes another, and it has then deleted every RENTAL *)
(* charge, of which, if they fit on a page, none was on an invoice.        *)
(***************************************************************************)
THEOREM StartFixed == Spec => StartFixedOnceInvoiced
<1>1. ASSUME IInv, [Next]_vars, OnOnePage(charges),
             NEW c \in RentalCharges(charges), c.invoiced, fulfilment' # Null
      PROVE  fulfilment'.rentalStartDate = fulfilment.rentalStartDate
  <2>1. CASE fulfilment' = fulfilment
    BY <2>1
  <2>2. CASE fulfilment' # fulfilment
    <3>1. PICK w \in Worker : Commit(w) /\ txn[w].writesDoc
      BY <1>1, <2>2, DocumentChangesInCommit DEF DeleteFulfilment
    <3>2. PICK v : v = txn[w]
      OBVIOUS
    <3>3. PICK t : t = task[w]
      OBVIOUS
    <3>4. DbRight /\ WorkerRight(t, v)
      BY <1>1, <3>2, <3>3, Typed
    <3>5. fulfilment' = v.doc /\ v.base = revision /\ v.writesDoc
      BY <3>1, <3>2 DEF Commit, Conflict
    <3>6. revision # 0
      BY <1>1, <3>4 DEF DbRight
    <3>7. t.op # "create"
      BY <3>4, <3>6 DEF WorkerRight, RequestRight
    <3>8. CASE t.op = "setStart"
      <4>1. RentalCharges(Left(v.deleted)) = {}
        BY <3>4, <3>5, <3>8 DEF WorkerRight, SnapshotRight
      <4>2. c \notin Left(v.deleted)
        BY <4>1 DEF RentalCharges
      <4>3. PICK d \in v.deleted : d.id = c.id
        BY <4>2 DEF Left, Ids, RentalCharges
      <4>4. v.deleted \subseteq charges /\ c \in charges
        BY <1>1, <3>1, <3>2, CommitCharges DEF RentalCharges
      <4>5. d = c
        BY <3>4, <4>3, <4>4 DEF DbRight, ChargesRight, OneEachId
      <4>6. SeenOpen(v.deleted)
        BY <3>4 DEF WorkerRight, TxnRight
      <4> QED BY <1>1, <4>3, <4>4, <4>5, <4>6, DeletedOnOnePage
    <3>9. CASE t.op # "setStart"
      BY <3>4, <3>5, <3>7, <3>9 DEF WorkerRight, SnapshotRight
    <3> QED BY <3>8, <3>9
  <2> QED BY <2>1, <2>2
<1>2. IInv /\ [Next]_vars =>
        [OnOnePage(charges) /\ (\E c \in RentalCharges(charges) : c.invoiced) =>
            fulfilment' = Null
            \/ fulfilment'.rentalStartDate = fulfilment.rentalStartDate]_vars
  BY <1>1
<1> QED BY <1>2, Invariance, PTL DEF Spec, StartFixedOnceInvoiced

(***************************************************************************)
(* A deleted fulfilment gets no rent from a job or request that was under  *)
(* way: it writes the document, which has been written since its snapshot. *)
(***************************************************************************)
THEOREM DeletedNotCharged == Spec => NoRentAfterDelete
<1>1. ASSUME IInv, [Next]_vars, fulfilment = Null, revision > 0
      PROVE  \/ RentalCharges(charges') \subseteq charges
             \/ \E c \in charges : c \notin charges' /\ Invoiced(c) \in charges'
  <2>1. CASE charges' = charges
    BY <2>1 DEF RentalCharges
  <2>2. CASE charges' # charges
    <3>1. PICK w \in Worker : Commit(w)
      BY <1>1, <2>2, ChargesChangeInCommit
    <3>2. PICK v : v = txn[w]
      OBVIOUS
    <3>3. PICK t : t = task[w]
      OBVIOUS
    <3>4. DbOK /\ DbRight /\ WorkerRight(t, v)
      BY <1>1, <3>2, <3>3, Typed
    <3>5. ~v.writesDoc
      <4> SUFFICES ASSUME v.writesDoc PROVE FALSE
        OBVIOUS
      <4>1. v.base = revision
        BY <3>1, <3>2 DEF Commit, Conflict
      <4>2. t.op = "create"
        BY <1>1, <3>4, <4>1 DEF WorkerRight, SnapshotRight
      <4>3. revision = 0
        BY <3>4, <4>2 DEF WorkerRight, RequestRight
      <4> QED BY <1>1, <4>3
    <3>6. v.deleted = {} /\ RentalCharges(v.inserted) = {}
      BY <3>4, <3>5 DEF WorkerRight, TxnRight
    <3>7. /\ v.allocated \subseteq charges
          /\ charges' = Changed(charges, {}, v.inserted, v.allocated)
          /\ \A c \in v.inserted, d \in charges : c.id # d.id
      BY <1>1, <3>1, <3>2, <3>6, CommitCharges
    <3>8. CASE v.allocated = {}
      BY <3>6, <3>7, <3>8 DEF Changed, InvoicedOf, RentalCharges
    <3>9. CASE v.allocated # {}
      <4>1. PICK c \in v.allocated : TRUE
        BY <3>9
      <4>2. c \in charges /\ ~c.invoiced
        BY <3>4, <3>7, <4>1 DEF WorkerRight, TxnRight
      <4>3. Invoiced(c) \in charges'
        BY <3>7, <4>1 DEF Changed, InvoicedOf
      <4>4. \A d \in v.allocated : d \in Charge /\ Invoiced(d).invoiced
        BY <3>4, <3>7, InvoicedRight DEF DbRight, ChargesRight
      <4>5. c \notin InvoicedOf(v.allocated)
        BY <4>2, <4>4 DEF InvoicedOf
      <4>6. c \notin charges'
        BY <3>7, <4>1, <4>2, <4>5 DEF Changed
      <4> QED BY <4>2, <4>3, <4>6
    <3> QED BY <3>8, <3>9
  <2> QED BY <2>1, <2>2
<1>2. IInv /\ [Next]_vars =>
        [fulfilment = Null /\ revision > 0 =>
          RentalCharges(charges') \subseteq charges
          \/ \E c \in charges : c \notin charges' /\ Invoiced(c) \in charges']_vars
  BY <1>1
<1> QED BY <1>2, Invariance, PTL DEF Spec, NoRentAfterDelete
===============================================================================
