----------------------------- MODULE RentalBilling -----------------------------
(***************************************************************************)
(* The billing of one rental fulfilment: services/fulfilment with the      *)
(* charges it creates in services/charges and its Pulse jobs.              *)
(*                                                                         *)
(* A rental is charged in billing periods of at most 28 days, each a RENTAL*)
(* charge, by a nightly job, by setRentalEndDate and, for the past, by     *)
(* setRentalStartDate, which first deletes every charge of the fulfilment  *)
(* unless one, on the page of them it looks at, has been put on an invoice.*)
(* A delivery fee is one SERVICE charge, created when the rental starts, by*)
(* the request or by a job scheduled for that date.                        *)
(*                                                                         *)
(* Each of these runs in a MongoDB transaction of its own and awaits many  *)
(* times, so requests, jobs and invoicing interleave.  A transaction is    *)
(* modelled by its snapshot (Run: everything the callback computes from the*)
(* snapshot) and its commit; what the callback does outside the session    *)
(* (cancelling and scheduling jobs, reading the clock) are steps between,  *)
(* not undone by an abort and repeated by a retry.  Fulfilments do not     *)
(* share documents, so one is enough.                                      *)
(***************************************************************************)
EXTENDS Integers, FiniteSets

CONSTANTS
    Worker,          \* requests and job executions that run at the same time
    MaxTime,         \* bound: the clock stops here
    MinDays,         \* MIN_DAYS_FOR_AUTOMATED_CHARGING, a billing period
    PeriodLength,    \* the same in clock units
    CalendarDay,     \* [Time -> Nat], the calendar day of an instant
    StartDate,       \* the rental start dates that users ask for
    EndDate,         \* the end dates and expected end dates they ask for
    DeliveryFee,     \* whether the sales order line has a delivery charge
    JobConcurrency,  \* executions of a kind of job at a time: 1 per process
    PageSize,        \* charges looked at for one on an invoice: 100
    NoDate, NoJob, NoCharge, Null,
    MaxRevisions,    \* bound: requests start while the document has fewer writes
    MaxJobs,         \* bound: jobs in Pulse at a time
    MaxTries,        \* bound: withTransaction's 120 s of retries, in tries
    MaxFaults        \* bound: network errors, thrown errors and crashes

Time == 0 .. MaxTime
Instant == Time \cup {NoDate}
JobId == 1 .. MaxJobs

ASSUME BoundsAssumption ==
    /\ MaxTime \in Nat /\ MaxRevisions \in Nat /\ MaxJobs \in Nat
    /\ MaxTries \in Nat /\ MaxFaults \in Nat /\ JobConcurrency \in Nat
    /\ PageSize \in Nat
    /\ MinDays \in Nat \ {0} /\ PeriodLength \in Nat \ {0}
    /\ StartDate \subseteq Time /\ EndDate \subseteq Time
    /\ DeliveryFee \in BOOLEAN
ASSUME SentinelAssumption ==
    NoDate \notin Int /\ NoJob \notin Int /\ NoCharge \notin Int

\* date-fns: addDays keeps the time of day, differenceInCalendarDays ignores it.
ASSUME CalendarAssumption ==
    /\ CalendarDay \in [Time -> Nat]
    /\ \A t \in Time : t + PeriodLength \in Time =>
          CalendarDay[t + PeriodLength] = CalendarDay[t] + MinDays

VARIABLES
    now,         \* the clock
    fulfilment,  \* the committed fulfilment document, or Null
    revision,    \* committed writes of that document, 0 before it exists
    charges,     \* the committed charges of the fulfilment
    lastCharge,  \* charge ids handed out
    jobs,        \* the documents of Pulse's job collection
    task,        \* [Worker -> what it is doing]
    txn,         \* [Worker -> the snapshot and the writes of its transaction]
    faults       \* faults so far

vars == <<now, fulfilment, revision, charges, lastCharge, jobs, task, txn, faults>>

Fulfilment == [rentalStartDate : Instant, rentalEndDate : Instant,
               expectedRentalEndDate : Instant, lastChargedAt : Instant,
               lastBillingPeriodEnd : Instant, totalDaysCharged : Int]

ASSUME NullAssumption == Null \notin Fulfilment

Charge == [id : Nat \ {0}, chargeType : {"RENTAL", "SERVICE"},
           billingPeriodStart : Instant, billingPeriodEnd : Instant,
           invoiced : BOOLEAN]

Job == [id : JobId, name : {"calculateCharges", "createDeliveryCharge"},
        at : Time]

Task == [op : {"idle", "create", "setStart", "setEnd", "setExpectedEnd",
               "nightly", "calculateCharges", "createDeliveryCharge", "invoice"},
         step : {"idle", "run", "cancel", "deliver", "commit"},
         date : Instant,                  \* the argument of a request
         job : JobId \cup {NoJob},        \* the job being executed
         charge : Nat \cup {NoCharge},    \* the charge to be invoiced
         tries : Nat]                     \* runs of the callback so far

Txn == [base : Nat,                    \* revision of the document it read
        seen : SUBSET Charge,          \* the charges it read
        doc : Fulfilment \cup {Null},  \* the document as the callback leaves it
        writesDoc : BOOLEAN,
        inserted : SUBSET Charge, deleted : SUBSET Charge,
        allocated : SUBSET Charge]     \* charges it puts on an invoice

Idle == [op |-> "idle", step |-> "idle", date |-> NoDate, job |-> NoJob,
         charge |-> NoCharge, tries |-> 0]

NoTxn == [base |-> 0, seen |-> {}, doc |-> Null, writesDoc |-> FALSE,
          inserted |-> {}, deleted |-> {}, allocated |-> {}]

\* Mutant: the total of days is not initialised.
NewFulfilmentNoTotal(start) ==
    [rentalStartDate |-> start, rentalEndDate |-> NoDate,
     expectedRentalEndDate |-> NoDate, lastChargedAt |-> NoDate,
     lastBillingPeriodEnd |-> NoDate, totalDaysCharged |-> NoDate]

NewFulfilment(start) ==
    [rentalStartDate |-> start, rentalEndDate |-> NoDate,
     expectedRentalEndDate |-> NoDate, lastChargedAt |-> NoDate,
     lastBillingPeriodEnd |-> NoDate, totalDaysCharged |-> 0]

DaysBetween(from, to) == CalendarDay[to] - CalendarDay[from]

\* Mutant: the days charged since the old start are kept.
ResetDatesOnly(doc) ==
    [doc EXCEPT !.lastChargedAt = NoDate, !.lastBillingPeriodEnd = NoDate]

\* The reducer on RESET_LAST_CHARGED_AT.
ResetLastChargedAt(doc) ==
    [doc EXCEPT !.lastChargedAt = NoDate, !.lastBillingPeriodEnd = NoDate,
                !.totalDaysCharged = 0]

\* Mutant: the time of the charge is not recorded.
UpdateWithoutTime(doc, periodEnd, days) ==
    [doc EXCEPT !.lastBillingPeriodEnd = periodEnd, !.totalDaysCharged = @ + days]

\* The reducer on UPDATE_LAST_CHARGED_AT.
UpdateLastChargedAt(doc, periodEnd, days) ==
    [doc EXCEPT !.lastChargedAt = now, !.lastBillingPeriodEnd = periodEnd,
                !.totalDaysCharged = @ + days]
-------------------------------------------------------------------------------
(***************************************************************************)
(* createRentalCharges over calculateRentalBillingPeriods.  A bill is where*)
(* the loop stands: the start of the next period, the document and the     *)
(* charges so far, and the last charge id.                                 *)
(***************************************************************************)
\* Mutant: always bills from the rental start.
FromRentalStart(doc) == doc.rentalStartDate

FirstUnbilled(doc) ==
    IF doc.lastBillingPeriodEnd # NoDate THEN doc.lastBillingPeriodEnd
    ELSE doc.rentalStartDate

BillUntil(doc) == IF doc.rentalEndDate # NoDate THEN doc.rentalEndDate ELSE now

PeriodEnd(from, until) ==
    IF from + PeriodLength > until THEN until ELSE from + PeriodLength

RentalCharge(id, from, to) ==
    [id |-> id, chargeType |-> "RENTAL", billingPeriodStart |-> from,
     billingPeriodEnd |-> to, invoiced |-> FALSE]

BillPeriod(bill, until, minimumDays) ==
    LET to   == PeriodEnd(bill.from, until)
        days == DaysBetween(bill.from, to)
    IN IF days < minimumDays THEN [bill EXCEPT !.from = to]
       ELSE [from     |-> to,
             doc      |-> UpdateLastChargedAt(bill.doc, to, days),
             inserted |-> bill.inserted
                            \cup {RentalCharge(bill.last + 1, bill.from, to)},
             last     |-> bill.last + 1]

\* Each round bills at least one clock unit, so MaxTime rounds are enough.
CreateRentalCharges(doc, minimumDays) ==
    LET until == BillUntil(doc)
        bill[i \in 0 .. MaxTime] ==
          IF i = 0 THEN [from |-> FirstUnbilled(doc), doc |-> doc,
                         inserted |-> {}, last |-> lastCharge]
          ELSE IF bill[i - 1].from < until
               THEN BillPeriod(bill[i - 1], until, minimumDays)
               ELSE bill[i - 1]
    IN bill[MaxTime]

\* The sales order line may have its own delivery date, which is left out.
DeliveryCharge(id, doc) ==
    [id |-> id, chargeType |-> "SERVICE",
     billingPeriodStart |-> doc.rentalStartDate,
     billingPeriodEnd |-> doc.rentalStartDate, invoiced |-> FALSE]

\* Other SERVICE charges, which users may create, are left out; so the default
\* page of ten SERVICE charges has one if and only if there is one.
DeliveryCharges(cs) == {c \in cs : c.chargeType = "SERVICE"}
RentalCharges(cs) == {c \in cs : c.chargeType = "RENTAL"}

\* The calendar starts at a midnight.
OnOrBeforeMidnight(t, day) ==
    /\ t # NoDate
    /\ CalendarDay[t] <= day
    /\ \A u \in Time : CalendarDay[u] = day => t <= u

(***************************************************************************)
(* getRentalFulfilmentsDueForCharge: started 28 days ago, without an end   *)
(* date, and not charged for 28 days.                                      *)
(***************************************************************************)
Due ==
    /\ fulfilment # Null
    /\ LET day == CalendarDay[now] - MinDays IN
       /\ OnOrBeforeMidnight(fulfilment.rentalStartDate, day)
       /\ fulfilment.rentalEndDate = NoDate
       /\ \/ fulfilment.lastChargedAt = NoDate
          \/ OnOrBeforeMidnight(fulfilment.lastChargedAt, day)
-------------------------------------------------------------------------------
Init ==
    /\ now = 0
    /\ fulfilment = Null
    /\ revision = 0
    /\ charges = {}
    /\ lastCharge = 0
    /\ jobs = {}
    /\ task = [w \in Worker |-> Idle]
    /\ txn = [w \in Worker |-> NoTxn]
    /\ faults = 0

db == <<fulfilment, revision, charges>>

Start(w, t) == task' = [task EXCEPT ![w] = t]

Request(op, date) == [Idle EXCEPT !.op = op, !.step = "run", !.date = date]

Tick ==
    /\ now < MaxTime
    /\ now' = now + 1
    /\ UNCHANGED <<db, lastCharge, jobs, task, txn, faults>>

(***************************************************************************)
(* Requests, up to the start of their transaction: what they check first   *)
(* they check outside of it, on the committed document.                    *)
(***************************************************************************)
Idling(w) == task[w] = Idle /\ revision < MaxRevisions

\* createFulfilmentFromSalesOrderItem, or createFulfilment without a date.
CreateFulfilment(w) ==
    /\ Idling(w)
    /\ revision = 0
    /\ \A v \in Worker : task[v].op # "create"
    /\ \E d \in StartDate \cup {NoDate} : Start(w, Request("create", d))
    /\ UNCHANGED <<now, db, lastCharge, jobs, txn, faults>>

SetRentalStartDate(w) ==
    /\ Idling(w)
    /\ fulfilment # Null
    /\ \E d \in StartDate :
          /\ fulfilment.expectedRentalEndDate # NoDate =>
                d < fulfilment.expectedRentalEndDate
          /\ Start(w, Request("setStart", d))
    /\ UNCHANGED <<now, db, lastCharge, jobs, txn, faults>>

SetRentalEndDate(w) ==
    /\ Idling(w)
    /\ fulfilment # Null
    /\ fulfilment.rentalStartDate # NoDate
    /\ \E d \in EndDate :
          /\ d > fulfilment.rentalStartDate
          /\ Start(w, Request("setEnd", d))
    /\ UNCHANGED <<now, db, lastCharge, jobs, txn, faults>>

SetExpectedRentalEndDate(w) ==
    /\ Idling(w)
    /\ fulfilment # Null
    /\ \E d \in EndDate :
          /\ fulfilment.rentalStartDate # NoDate =>
                d > fulfilment.rentalStartDate
          /\ Start(w, Request("setExpectedEnd", d))
    /\ UNCHANGED <<now, db, lastCharge, jobs, txn, faults>>

\* One event in a transaction of its own.
DeleteFulfilment ==
    /\ fulfilment # Null
    /\ revision < MaxRevisions
    /\ fulfilment' = Null
    /\ revision' = revision + 1
    /\ UNCHANGED <<now, charges, lastCharge, jobs, task, txn, faults>>

\* addChargesToInvoice, by a user who sees the charge.
AddChargeToInvoice(w) ==
    /\ Idling(w)
    /\ \E c \in charges :
          Start(w, [Request("invoice", NoDate) EXCEPT !.charge = c.id])
    /\ UNCHANGED <<now, db, lastCharge, jobs, txn, faults>>

FreeJobIds ==
    {i \in JobId : (\A j \in jobs : j.id # i) /\ \A w \in Worker : task[w].job # i}

\* The nightly job, also started by hand, finds the rental due ...
NightlyRentalChargesJob(w) ==
    /\ task[w] = Idle
    /\ Due
    /\ Cardinality({v \in Worker : task[v].op = "nightly"}) < Cardinality(FreeJobIds)
    /\ Start(w, Request("nightly", NoDate))
    /\ UNCHANGED <<now, db, lastCharge, jobs, txn, faults>>

\* pulse.now and pulse.schedule insert a job document, at once.
PutJob(name, at) ==
    \E i \in FreeJobIds :
        /\ \A k \in FreeJobIds : i <= k
        /\ jobs' = jobs \cup {[id |-> i, name |-> name, at |-> at]}

\* ... and, later in its loop over the fulfilments, starts a job for it.
StartChargesJob(w) ==
    /\ task[w].op = "nightly"
    /\ PutJob("calculateCharges", now)
    /\ Start(w, Idle)
    /\ UNCHANGED <<now, db, lastCharge, txn, faults>>

\* Pulse locks a job that is due; resumeOnRestart takes up one left locked.
TakeJob(w) ==
    /\ task[w] = Idle
    /\ \E j \in jobs :
          /\ j.at <= now
          /\ \A v \in Worker : task[v].job # j.id
          /\ Cardinality({v \in Worker : task[v].op = j.name}) < JobConcurrency
          /\ Start(w, [Request(j.name, NoDate) EXCEPT !.job = j.id])
    /\ UNCHANGED <<now, db, lastCharge, jobs, txn, faults>>

(***************************************************************************)
(* The request or job is over, whether or not it had an effect: a failed   *)
(* job is not tried again.                                                 *)
(***************************************************************************)
Done(w) ==
    /\ task' = [task EXCEPT ![w] = Idle]
    /\ txn' = [txn EXCEPT ![w] = NoTxn]
    /\ jobs' = {j \in jobs : j.id # task[w].job}

Throw(w) == Done(w) /\ UNCHANGED <<now, db, lastCharge, faults>>
-------------------------------------------------------------------------------
(***************************************************************************)
(* The callbacks, as far as they depend on the snapshot.                   *)
(***************************************************************************)
Running(w, op) == task[w].op = op /\ task[w].step = "run"

Goto(w, step) == task' = [task EXCEPT ![w].step = step, ![w].tries = @ + 1]

\* The callback leaves the document and charges of a bill, having deleted some.
WriteBill(w, bill, deleted) ==
    /\ txn' = [txn EXCEPT ![w] =
          [base |-> revision, seen |-> charges, doc |-> bill.doc,
           writesDoc |-> TRUE, inserted |-> bill.inserted,
           deleted |-> deleted, allocated |-> {}]]
    /\ lastCharge' = bill.last
    /\ UNCHANGED <<now, db, jobs, faults>>

RunCreateFulfilment(w) ==
    /\ Running(w, "create")
    /\ LET doc  == NewFulfilment(task[w].date)
           long == /\ task[w].date # NoDate
                   /\ DaysBetween(task[w].date, now) >= MinDays
       IN WriteBill(w, IF long THEN CreateRentalCharges(doc, MinDays)
                       ELSE [doc |-> doc, inserted |-> {}, last |-> lastCharge], {})
    /\ Goto(w, IF DeliveryFee /\ task[w].date # NoDate THEN "deliver" ELSE "commit")

\* The first page of charges listed without an order: any of them.
Pages(cs) ==
    {page \in SUBSET cs : \/ page = cs /\ Cardinality(cs) <= PageSize
                         \/ Cardinality(page) = PageSize}

\* Mutant: only the delivery charge is looked at.
AnyServiceInvoiced(page) == \E c \in DeliveryCharges(page) : c.invoiced

\* hasAnyChargesBeenInvoicedForFulfillment
AnyInvoiced(page) == \E c \in page : c.invoiced

RunSetRentalStartDate(w) ==
    /\ Running(w, "setStart")
    /\ \/ /\ fulfilment = Null \/ \E page \in Pages(charges) : AnyInvoiced(page)
          /\ Throw(w)
       \/ /\ fulfilment # Null
          /\ \E page \in Pages(charges) : ~AnyInvoiced(page)
          /\ LET doc == ResetLastChargedAt(
                   [fulfilment EXCEPT !.rentalStartDate = task[w].date])
             IN WriteBill(w, CreateRentalCharges(doc, MinDays), charges)
          /\ Goto(w, IF DeliveryFee THEN "cancel" ELSE "commit")

RunSetRentalEndDate(w) ==
    /\ Running(w, "setEnd")
    /\ \/ fulfilment = Null /\ Throw(w)
       \/ /\ fulfilment # Null
          /\ LET doc == [fulfilment EXCEPT !.rentalEndDate = task[w].date]
             IN WriteBill(w, CreateRentalCharges(doc, 0), {})
          /\ Goto(w, "commit")

RunSetExpectedRentalEndDate(w) ==
    /\ Running(w, "setExpectedEnd")
    /\ \/ fulfilment = Null /\ Throw(w)
       \/ /\ fulfilment # Null
          /\ WriteBill(w, [doc |-> [fulfilment EXCEPT
                                      !.expectedRentalEndDate = task[w].date],
                           inserted |-> {}, last |-> lastCharge], {})
          /\ Goto(w, "commit")

Chargeable(doc) == doc # Null /\ doc.rentalStartDate # NoDate

RunCalculateCharges(w) ==
    /\ Running(w, "calculateCharges")
    /\ \/ ~Chargeable(fulfilment) /\ Throw(w)
       \/ /\ Chargeable(fulfilment)
          /\ LET bill == CreateRentalCharges(fulfilment, 0) IN
             IF bill.inserted = {} THEN Throw(w)
             ELSE WriteBill(w, bill, {}) /\ Goto(w, "commit")

ReadOnly == [NoTxn EXCEPT !.base = revision, !.seen = charges]

\* createDeliveryCharge, of the job: the check and the insert.
RunCreateDeliveryCharge(w) ==
    /\ Running(w, "createDeliveryCharge")
    /\ \/ /\ fulfilment = Null \/ DeliveryCharges(charges) # {}
          /\ Throw(w)
       \/ /\ fulfilment # Null
          /\ DeliveryCharges(charges) = {}
          /\ txn' = [txn EXCEPT ![w] = [ReadOnly EXCEPT
                        !.inserted = {DeliveryCharge(lastCharge + 1, fulfilment)}]]
          /\ lastCharge' = lastCharge + 1
          /\ Goto(w, "commit")
          /\ UNCHANGED <<now, db, jobs, faults>>

RunAddChargeToInvoice(w) ==
    /\ Running(w, "invoice")
    /\ LET found == {c \in charges : c.id = task[w].charge /\ ~c.invoiced} IN
       \/ found = {} /\ Throw(w)
       \/ /\ found # {}
          /\ txn' = [txn EXCEPT ![w] = [ReadOnly EXCEPT !.allocated = found]]
          /\ Goto(w, "commit")
          /\ UNCHANGED <<now, db, lastCharge, jobs, faults>>

Run(w) ==
    \/ RunCreateFulfilment(w) \/ RunSetRentalStartDate(w)
    \/ RunSetRentalEndDate(w) \/ RunSetExpectedRentalEndDate(w)
    \/ RunCalculateCharges(w) \/ RunCreateDeliveryCharge(w)
    \/ RunAddChargeToInvoice(w)
-------------------------------------------------------------------------------
(***************************************************************************)
(* What the callbacks do outside the session, and the delivery charge.     *)
(***************************************************************************)
CancelDeliveryJobs(w) ==
    /\ task[w].step = "cancel"
    /\ jobs' = {j \in jobs : j.name # "createDeliveryCharge"}
    /\ task' = [task EXCEPT ![w].step = "deliver"]
    /\ UNCHANGED <<now, db, lastCharge, txn, faults>>

\* The rental has started: charge the delivery in this transaction.
DeliverNow(w) ==
    /\ task[w].step = "deliver"
    /\ task[w].date <= now
    /\ IF DeliveryCharges(txn[w].seen \ txn[w].deleted) # {}
       THEN UNCHANGED <<txn, lastCharge>>
       ELSE /\ txn' = [txn EXCEPT ![w].inserted =
                          @ \cup {DeliveryCharge(lastCharge + 1, txn[w].doc)}]
            /\ lastCharge' = lastCharge + 1
    /\ task' = [task EXCEPT ![w].step = "commit"]
    /\ UNCHANGED <<now, db, jobs, faults>>

DeliverLater(w) ==
    /\ task[w].step = "deliver"
    /\ task[w].date > now
    /\ PutJob("createDeliveryCharge", task[w].date)
    /\ task' = [task EXCEPT ![w].step = "commit"]
    /\ UNCHANGED <<now, db, lastCharge, txn, faults>>

\* Mutant: deleteMany outside the transaction would not conflict.
ConflictOnDocument(w) == txn[w].writesDoc /\ txn[w].base # revision

\* Mutant: the charges are written, the document is not.
ConflictOnCharges(w) == ~(txn[w].deleted \cup txn[w].allocated \subseteq charges)

(***************************************************************************)
(* MongoDB: a transaction that writes a document written since its snapshot*)
(* fails.  A charge changes only by being invoiced or deleted.             *)
(***************************************************************************)
Conflict(w) ==
    \/ txn[w].writesDoc /\ txn[w].base # revision
    \/ ~(txn[w].deleted \cup txn[w].allocated \subseteq charges)

Invoiced(c) == [c EXCEPT !.invoiced = TRUE]

\* Committed charges whose documents the transaction deletes or replaces.
Touched(w) ==
    {c \in charges : \E d \in txn[w].deleted \cup txn[w].allocated : d.id = c.id}

Commit(w) ==
    /\ task[w].step = "commit"
    /\ ~Conflict(w)
    /\ IF txn[w].writesDoc
       THEN fulfilment' = txn[w].doc /\ revision' = revision + 1
       ELSE UNCHANGED <<fulfilment, revision>>
    /\ charges' = (charges \ Touched(w)) \cup txn[w].inserted
                    \cup {Invoiced(c) : c \in txn[w].allocated}
    /\ Done(w)
    /\ UNCHANGED <<now, lastCharge, faults>>

\* withTransaction runs the callback again, or gives up.
Retry(w) ==
    \/ /\ task[w].tries < MaxTries
       /\ task' = [task EXCEPT ![w].step = "run"]
       /\ txn' = [txn EXCEPT ![w] = NoTxn]
       /\ UNCHANGED <<now, db, lastCharge, jobs>>
    \/ /\ task[w].tries >= MaxTries
       /\ Done(w)
       /\ UNCHANGED <<now, db, lastCharge>>

WriteConflict(w) ==
    /\ task[w].step = "commit"
    /\ Conflict(w)
    /\ Retry(w)
    /\ UNCHANGED faults

InTransaction(w) == task[w].step \in {"cancel", "deliver", "commit"}

Fault == faults < MaxFaults /\ faults' = faults + 1

\* A transient network error or an election, anywhere in the transaction.
TransientFault(w) == InTransaction(w) /\ Fault /\ Retry(w)

\* An awaited call throws: authorization, SpiceDB, Pulse, the sales order.
CallFails(w) ==
    /\ InTransaction(w)
    /\ Fault
    /\ Done(w)
    /\ UNCHANGED <<now, db, lastCharge>>

\* The process dies; its job stays in the collection.
Crash(w) ==
    /\ task[w] # Idle
    /\ Fault
    /\ task' = [task EXCEPT ![w] = Idle]
    /\ txn' = [txn EXCEPT ![w] = NoTxn]
    /\ UNCHANGED <<now, db, lastCharge, jobs>>
-------------------------------------------------------------------------------
Call(w) ==
    \/ CreateFulfilment(w) \/ SetRentalStartDate(w) \/ SetRentalEndDate(w)
    \/ SetExpectedRentalEndDate(w) \/ AddChargeToInvoice(w)

Progress(w) ==
    \/ StartChargesJob(w) \/ Run(w) \/ CancelDeliveryJobs(w)
    \/ DeliverNow(w) \/ DeliverLater(w) \/ Commit(w) \/ WriteConflict(w)

Failure(w) == TransientFault(w) \/ CallFails(w) \/ Crash(w)

Next ==
    \/ Tick
    \/ DeleteFulfilment
    \/ \E w \in Worker : \/ Call(w) \/ Progress(w) \/ Failure(w)
                         \/ NightlyRentalChargesJob(w) \/ TakeJob(w)

Spec == Init /\ [][Next]_vars

(***************************************************************************)
(* What is awaited settles, Pulse takes up due jobs, and the nightly job   *)
(* runs every night.  Requests do not compete with jobs for a place to run,*)
(* as they do here for a Worker, hence strong fairness.                    *)
(***************************************************************************)
FairSpec ==
    /\ Spec
    /\ \A w \in Worker : WF_vars(Progress(w))
    /\ SF_vars(\E w \in Worker : TakeJob(w))
    /\ SF_vars(\E w \in Worker : NightlyRentalChargesJob(w))
-------------------------------------------------------------------------------
(***************************************************************************)
(* Documents, jobs and transactions have their types: the clock and every  *)
(* date computed by the billing loop stay within the calendar, and a job is*)
(* never scheduled without a date.                                         *)
(***************************************************************************)
TypeOK ==
    /\ now \in Time
    /\ fulfilment \in Fulfilment \cup {Null}
    /\ revision \in Nat
    /\ charges \subseteq Charge
    /\ lastCharge \in Nat
    /\ jobs \subseteq Job
    /\ task \in [Worker -> Task]
    /\ txn \in [Worker -> Txn]
    /\ faults \in 0 .. MaxFaults

(***************************************************************************)
(* Every instant from the rental start to the end of the last billing      *)
(* period is billed by exactly one RENTAL charge, and no other instant is: *)
(* whatever nightly jobs, changes of the start and the end, retries and    *)
(* crashes meet, no day is billed twice, skipped, or left from an earlier  *)
(* start date.                                                             *)
(***************************************************************************)
BilledOnce(doc, cs) ==
    doc # Null => \A t \in Time :
        LET covering == {c \in RentalCharges(cs) :
                           c.billingPeriodStart <= t /\ t < c.billingPeriodEnd}
        IN IF /\ doc.lastBillingPeriodEnd # NoDate
              /\ doc.rentalStartDate <= t
              /\ t < doc.lastBillingPeriodEnd
           THEN \E c \in covering : covering = {c}
           ELSE covering = {}

EveryDayBilledOnce == BilledOnce(fulfilment, charges)

(***************************************************************************)
(* totalDaysCharged is the number of calendar days between the rental start*)
(* and the end of the last billing period, summed up as it is over charges.*)
(***************************************************************************)
DaysCounted(doc) ==
    doc # Null =>
        doc.totalDaysCharged =
            IF doc.lastBillingPeriodEnd = NoDate THEN 0
            ELSE DaysBetween(doc.rentalStartDate, doc.lastBillingPeriodEnd)

TotalDaysCharged == DaysCounted(fulfilment)

(***************************************************************************)
(* A charge on an invoice is never deleted or taken off: setRentalStartDate*)
(* deletes all charges, and checks in its snapshot only that none of them  *)
(* is on an invoice.  This holds as long as the fulfilment has at most one *)
(* page of charges: of more the check may miss the one that is invoiced.   *)
(***************************************************************************)
OnOnePage(cs) == \A page \in Pages(cs) : page = cs

InvoicedChargesKept ==
    [][OnOnePage(charges) => \A c \in charges : c.invoiced => c \in charges']_vars

(***************************************************************************)
(* Once a RENTAL charge is on an invoice the start of the rental stays as  *)
(* it was when it was billed, again for charges that fit on one page.      *)
(***************************************************************************)
StartFixedOnceInvoiced ==
    [][OnOnePage(charges) /\ (\E c \in RentalCharges(charges) : c.invoiced) =>
          fulfilment' = Null
          \/ fulfilment'.rentalStartDate = fulfilment.rentalStartDate]_vars

\* A deleted fulfilment is not charged rent by a job that was under way.
NoRentAfterDelete ==
    [][fulfilment = Null /\ revision > 0 =>
          RentalCharges(charges') \subseteq charges
          \/ \E c \in charges : c \notin charges' /\ Invoiced(c) \in charges']_vars

\* A rental that is due is charged, or stops being due, however jobs fail.
DueRentalIsCharged == Due ~> ~Due

(***************************************************************************)
(* fulfilment/index.ts:243, "Check if delivery charge already exists to    *)
(* prevent duplicates": a fulfilment has at most one delivery charge.      *)
(***************************************************************************)
OneDeliveryCharge == \A c, d \in DeliveryCharges(charges) : c = d
===============================================================================
