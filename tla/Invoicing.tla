------------------------------- MODULE Invoicing -------------------------------
(***************************************************************************)
(* services/invoices with the charges it allocates in services/charges and *)
(* its relations in SpiceDB.                                               *)
(*                                                                         *)
(* An invoice is an event-sourced aggregate; a charge says on which invoice*)
(* it is.  addChargesToInvoice and deleteInvoice change both in one MongoDB*)
(* transaction, but look at the invoice outside of it: model.getInvoiceById*)
(* takes no session and reads what is committed.  Permission to change an  *)
(* invoice hangs on a relation that SpiceDB keeps, written after the       *)
(* invoice is created and removed before its deletion is committed.        *)
(*                                                                         *)
(* Every database or SpiceDB round trip is a step; between the steps other *)
(* requests run.  EventStore shows that applyEvent behaves in a transaction*)
(* like a write of the invoice document, which is how it appears here.     *)
(* Money is in cents; a tax value is kept in hundredths, so that 1 is a    *)
(* percentage of 0.01 or a hundredth of a cent.                            *)
(***************************************************************************)
EXTENDS Integers, Sequences, FiniteSets, Functions

CONSTANTS
    Worker,      \* concurrent requests
    Invoice,     \* invoice ids
    Charge,      \* charge ids
    Amount,      \* what each charge is over, in cents
    Tax,         \* bound: ids of the tax line items of an invoice
    Value,       \* values that requests give to a tax, in hundredths
    Same,        \* not given
    NoInvoice,   \* not allocated
    MaxCalls,    \* bound: requests
    MaxTries     \* bound: withTransaction's 120 s of retries, in tries

ASSUME BoundsAssumption == MaxCalls \in Nat /\ MaxTries \in Nat
\* Invoices and charges are documents of two collections.
ASSUME IdAssumption == NoInvoice \notin Invoice /\ Invoice \cap Charge = {}
ASSUME TaxAssumption == Amount \in Nat /\ Value \subseteq Nat /\ Same \notin Nat

Status == {"absent", "DRAFT", "SENT", "PAID", "CANCELLED", "deleted"}

\* Type NONE: not added yet.
TaxLineItem == [type : {"NONE", "PERCENTAGE", "FIXED_AMOUNT", "REMOVED"}, value : Nat]

VARIABLES
    invoices,    \* [Invoice -> its document], committed
    allocation,  \* [Charge -> Invoice or NoInvoice], committed
    version,     \* [Invoice and Charge -> committed writes of the document]
    related,     \* invoices with a relation to their workspace in SpiceDB
    task,        \* [Worker -> what it is doing]
    view,        \* [Worker -> its transaction's snapshot plus own writes]
    written,     \* [Worker -> documents its transaction has written]
    calls        \* requests so far

db == <<invoices, allocation, version>>
txn == <<view, written>>
vars == <<invoices, allocation, version, related, task, view, written, calls>>

Document == Invoice \cup Charge

\* No transaction is open.
None == [open |-> FALSE]

\* An event on one invoice in a transaction of its own.
Event == [type : {"NONE", "MARK", "ADD_TAX_LINE_ITEM", "UPDATE_TAX_LINE_ITEM",
                  "REMOVE_TAX_LINE_ITEM", "CLEAR_TAXES"},
          status : Status,  \* that MARK sets
          tax : Tax \cup {Same},
          taxType : {"PERCENTAGE", "FIXED_AMOUNT", Same},
          value : Value \cup {Same}]

NoEvent == [type |-> "NONE", status |-> "absent", tax |-> Same, taxType |-> Same,
            value |-> Same]

Task == [op : {"idle", "create", "delete", "add", "mark"},
         step : {"idle", "authorize", "check", "read", "unallocate", "readAgain",
                 "deleteEvent", "unrelate", "getCharge", "addEvent", "allocate",
                 "relate", "write", "commit"},
         invoice : Invoice \cup {NoInvoice},
         charges : Seq(Charge),  \* to be added
         next : Nat,             \* the charge the loop is at
         event : Event,          \* to be applied
         tries : Nat]            \* runs of the callback so far

Idle == [op |-> "idle", step |-> "idle", invoice |-> NoInvoice,
         charges |-> <<>>, next |-> 1, event |-> NoEvent, tries |-> 0]

Exists(doc) == doc.status \notin {"absent", "deleted"}

NoTaxes == [t \in Tax |-> [type |-> "NONE", value |-> 0]]

NoLines(status) == [status |-> status, lineItems |-> <<>>, taxLineItems |-> NoTaxes,
                    total |-> 0]

Init ==
    /\ invoices = [i \in Invoice |-> NoLines("absent")]
    /\ allocation = [c \in Charge |-> NoInvoice]
    /\ version = [d \in Document |-> 0]
    /\ related = {}
    /\ task = [w \in Worker |-> Idle]
    /\ view = [w \in Worker |-> None]
    /\ written = [w \in Worker |-> {}]
    /\ calls = 0

At(w, op, step) == task[w].op = op /\ task[w].step = step
Goto(w, step) == task' = [task EXCEPT ![w].step = step]

\* The transaction, if one is open, is over, and so is the request.
Done(w) ==
    /\ task' = [task EXCEPT ![w] = Idle]
    /\ view' = [view EXCEPT ![w] = None]
    /\ written' = [written EXCEPT ![w] = {}]

Throw(w) == Done(w) /\ UNCHANGED <<db, related, calls>>

\* Where the callback of withTransaction begins.
FirstStep(op) == CASE op = "add" -> "getCharge"
                   [] op = "delete" -> "read"
                   [] op = "mark" -> "write"

\* Mutant of Retry: the callback starts again without an abort.
RetryKeepingWrites(w) ==
    /\ task[w].tries < MaxTries
    /\ task' = [task EXCEPT ![w].tries = @ + 1, ![w].step = FirstStep(task[w].op)]
    /\ view' = [view EXCEPT ![w] = None]
    /\ UNCHANGED <<db, related, written, calls>>

\* withTransaction starts the callback again, or gives up.
Retry(w) ==
    \/ /\ task[w].tries < MaxTries
       /\ task' = [task EXCEPT ![w].tries = @ + 1, ![w].next = 1,
                      ![w].step = FirstStep(task[w].op)]
       /\ view' = [view EXCEPT ![w] = None]
       /\ written' = [written EXCEPT ![w] = {}]
       /\ UNCHANGED <<db, related, calls>>
    \/ task[w].tries >= MaxTries /\ Throw(w)
-------------------------------------------------------------------------------
(***************************************************************************)
(* The two reducers of an invoice.                                         *)
(***************************************************************************)
\* Math.round of a number given in hundredths
Round(n) == (n + 50) \div 100

\* What a tax adds to a subtotal, in hundredths of a cent.
CalculatedAmount(tax, subtotal) ==
    CASE tax.type = "PERCENTAGE" -> 100 * Round(subtotal * tax.value)
      [] tax.type = "FIXED_AMOUNT" -> tax.value
      [] OTHER -> 0

TotalTaxes(taxes, subtotal) ==
    SumFunction([t \in Tax |-> CalculatedAmount(taxes[t], subtotal)])

FinalSum(subtotal, taxes) == Round(100 * subtotal + TotalTaxes(taxes, subtotal))

\* invoiceCalculatedTotalsReducer does nothing before the first line item.
CalculatedTotals(doc) ==
    IF doc.lineItems = <<>> THEN doc
    ELSE [doc EXCEPT !.total = FinalSum(Amount * Len(doc.lineItems), doc.taxLineItems)]

\* ADD_CHARGE, in both reducers.
WithCharge(doc, c) == CalculatedTotals([doc EXCEPT !.lineItems = Append(@, c)])

\* A tax that is there with what an update gives of type and value.
UpdatedTax(tax, e) ==
    IF tax.type \in {"NONE", "REMOVED"} THEN tax
    ELSE [type |-> IF e.taxType = Same THEN tax.type ELSE e.taxType,
          value |-> IF e.value = Same THEN tax.value ELSE e.value]

Removed(tax) == [tax EXCEPT !.type = IF @ = "NONE" THEN @ ELSE "REMOVED"]

BaseInvoice(doc, e) ==
    CASE e.type = "MARK" -> [doc EXCEPT !.status = e.status]
      [] e.type = "ADD_TAX_LINE_ITEM" ->
            [doc EXCEPT !.taxLineItems[e.tax] = [type |-> e.taxType, value |-> e.value]]
      [] e.type = "UPDATE_TAX_LINE_ITEM" ->
            [doc EXCEPT !.taxLineItems[e.tax] = UpdatedTax(@, e)]
      [] e.type = "REMOVE_TAX_LINE_ITEM" -> [doc EXCEPT !.taxLineItems[e.tax] = Removed(@)]
      [] e.type = "CLEAR_TAXES" ->
            [doc EXCEPT !.taxLineItems = [t \in Tax |-> Removed(doc.taxLineItems[t])]]

\* Mutant of Applied: only a new charge changes the totals.
AppliedToBase(doc, e) == BaseInvoice(doc, e)

Applied(doc, e) == CalculatedTotals(BaseInvoice(doc, e))
-------------------------------------------------------------------------------
(***************************************************************************)
(* MongoDB.  The snapshot is taken by the first operation with the session;*)
(* a document written since then, or by an open transaction, cannot be     *)
(* written.                                                                *)
(***************************************************************************)
Snapshot == [invoices |-> invoices, allocation |-> allocation, version |-> version]

ViewOf(w) == IF view[w] = None THEN Snapshot ELSE view[w]

CanWrite(w, docs) == \A d \in docs :
    /\ ViewOf(w).version[d] = version[d]
    /\ \A v \in Worker \ {w} : d \notin written[v]

\* Writes docs, so that the transaction of w sees next, and goes on.
Write(w, docs, next, task2) ==
    /\ view' = [view EXCEPT ![w] = next]
    /\ written' = [written EXCEPT ![w] = @ \cup docs]
    /\ task' = [task EXCEPT ![w] = task2]
    /\ UNCHANGED <<db, related, calls>>

Commit(w) ==
    /\ task[w].step = "commit"
    /\ invoices' = [i \in Invoice |-> IF i \in written[w] THEN view[w].invoices[i]
                                      ELSE invoices[i]]
    /\ allocation' = [c \in Charge |-> IF c \in written[w] THEN view[w].allocation[c]
                                       ELSE allocation[c]]
    /\ version' = [d \in Document |-> IF d \in written[w] THEN version[d] + 1
                                      ELSE version[d]]
    /\ Done(w)
    /\ UNCHANGED <<related, calls>>
-------------------------------------------------------------------------------
Request(w, t) ==
    /\ task[w] = Idle
    /\ calls < MaxCalls
    /\ calls' = calls + 1
    /\ task' = [task EXCEPT ![w] = t]
    /\ UNCHANGED txn

Call(op, i) == [Idle EXCEPT !.op = op, !.step = "authorize", !.invoice = i]

\* createInvoice: the event, in a transaction of its own, and then the relation.
CreateInvoice(w) ==
    \E i \in Invoice :
        /\ invoices[i].status = "absent"
        /\ Request(w, [Call("create", i) EXCEPT !.step = "relate"])
        /\ invoices' = [invoices EXCEPT ![i].status = "DRAFT"]
        /\ version' = [version EXCEPT ![i] = @ + 1]
        /\ UNCHANGED <<allocation, related>>

\* SpiceDB may fail, which is logged.
Relate(w) ==
    /\ At(w, "create", "relate")
    /\ related' \in {related, related \cup {task[w].invoice}}
    /\ Done(w)
    /\ UNCHANGED <<db, calls>>

DeleteInvoice(w) ==
    /\ \E i \in Invoice : Request(w, Call("delete", i))
    /\ UNCHANGED <<db, related>>

AddChargesToInvoice(w) ==
    /\ \E i \in Invoice, cs \in Charge \X Charge, n \in 1 .. 2 :
          Request(w, [Call("add", i) EXCEPT !.charges = SubSeq(cs, 1, n)])
    /\ UNCHANGED <<db, related>>

\* markInvoiceAsSent, markInvoiceAsPaid and cancelInvoice.
MarkInvoice(w) ==
    /\ \E i \in Invoice, s \in {"SENT", "PAID", "CANCELLED"} :
          Request(w, [Call("mark", i) EXCEPT !.event =
                         [NoEvent EXCEPT !.type = "MARK", !.status = s]])
    /\ UNCHANGED <<db, related>>

\* "Tax percentage must be between 0 and 1"
ValidTax(type, value) == type = "PERCENTAGE" => value \in 0 .. 100

\* The id is a new one.
FreshTax(i, t) ==
    /\ invoices[i].taxLineItems[t].type = "NONE"
    /\ \A w \in Worker : task[w].invoice = i => task[w].event.tax # t

AddTaxLineItem(w) ==
    /\ \E i \in Invoice, t \in Tax, type \in {"PERCENTAGE", "FIXED_AMOUNT"}, v \in Value :
          /\ FreshTax(i, t)
          /\ ValidTax(type, v)
          /\ Request(w, [Call("mark", i) EXCEPT !.event =
                 [NoEvent EXCEPT !.type = "ADD_TAX_LINE_ITEM", !.tax = t,
                     !.taxType = type, !.value = v]])
    /\ UNCHANGED <<db, related>>

UpdateTaxLineItem(w) ==
    /\ \E i \in Invoice, t \in Tax, type \in {"PERCENTAGE", "FIXED_AMOUNT", Same},
          v \in Value \cup {Same} :
          /\ invoices[i].taxLineItems[t].type # "NONE"
          /\ Request(w, [Call("mark", i) EXCEPT !.event =
                 [NoEvent EXCEPT !.type = "UPDATE_TAX_LINE_ITEM", !.tax = t,
                     !.taxType = type, !.value = v]])
    /\ UNCHANGED <<db, related>>

\* removeTaxLineItem, or clearInvoiceTaxes
RemoveTaxLineItems(w) ==
    /\ \E i \in Invoice, t \in Tax, type \in {"REMOVE_TAX_LINE_ITEM", "CLEAR_TAXES"} :
          /\ invoices[i].taxLineItems[t].type # "NONE"
          /\ Request(w, [Call("mark", i) EXCEPT !.event =
                 [NoEvent EXCEPT !.type = type, !.tax = t]])
    /\ UNCHANGED <<db, related>>

\* authZ.invoice.hasPermission
Authorize(w) ==
    /\ task[w].step = "authorize"
    /\ IF task[w].invoice \in related
       THEN /\ Goto(w, CASE task[w].op = "add" -> "getCharge"
                          [] task[w].event.value \in Value
                                /\ task[w].event.type = "UPDATE_TAX_LINE_ITEM" -> "check"
                          [] OTHER -> "read")
            /\ UNCHANGED <<db, related, txn, calls>>
       ELSE Throw(w)
-------------------------------------------------------------------------------
(***************************************************************************)
(* deleteInvoice                                                           *)
(***************************************************************************)
ReadForDelete(w) ==
    /\ At(w, "delete", "read")
    /\ IF invoices[task[w].invoice].status = "DRAFT"
       THEN Goto(w, "unallocate") /\ UNCHANGED <<db, related, txn, calls>>
       ELSE Throw(w)

UnallocateChargesFromInvoice(w) ==
    /\ At(w, "delete", "unallocate")
    /\ LET i    == task[w].invoice
           v    == ViewOf(w)
           mine == {c \in Charge : v.allocation[c] = i}
       IN IF i \notin related THEN Throw(w)
          ELSE IF ~CanWrite(w, mine) THEN Retry(w)
          ELSE Write(w, mine,
                     [v EXCEPT !.allocation = [c \in Charge |->
                         IF c \in mine THEN NoInvoice ELSE v.allocation[c]]],
                     [task[w] EXCEPT !.step = "readAgain"])

\* Mutant of ReadAgain: the status is not looked at a second time.
DeleteWithoutReading(w) ==
    /\ At(w, "delete", "readAgain")
    /\ Goto(w, "deleteEvent")
    /\ UNCHANGED <<db, related, txn, calls>>

\* model.deleteInvoice reads the invoice again; its answer false is no error.
ReadAgain(w) ==
    /\ At(w, "delete", "readAgain")
    /\ Goto(w, IF invoices[task[w].invoice].status = "DRAFT" THEN "deleteEvent"
               ELSE "commit")
    /\ UNCHANGED <<db, related, txn, calls>>

DeleteEvent(w) ==
    /\ At(w, "delete", "deleteEvent")
    /\ LET i == task[w].invoice IN
       IF ~Exists(view[w].invoices[i]) THEN Throw(w)
       ELSE IF ~CanWrite(w, {i}) THEN Retry(w)
       ELSE Write(w, {i},
                  [view[w] EXCEPT !.invoices[i] = NoLines("deleted")],
                  [task[w] EXCEPT !.step = "unrelate"])

\* deleteRelationships may fail, which is logged.
Unrelate(w) ==
    /\ At(w, "delete", "unrelate")
    /\ related' \in {related, related \ {task[w].invoice}}
    /\ Goto(w, "commit")
    /\ UNCHANGED <<db, txn, calls>>
-------------------------------------------------------------------------------
(***************************************************************************)
(* addChargesToInvoice: three steps for each charge.                       *)
(***************************************************************************)
\* Mutant of GetCharge: an allocated charge is accepted.
GetChargeUnchecked(w) ==
    /\ At(w, "add", "getCharge")
    /\ Write(w, {}, ViewOf(w), [task[w] EXCEPT !.step = "addEvent"])

GetCharge(w) ==
    /\ At(w, "add", "getCharge")
    /\ LET v == ViewOf(w) IN
       IF v.allocation[task[w].charges[task[w].next]] # NoInvoice THEN Throw(w)
       ELSE Write(w, {}, v, [task[w] EXCEPT !.step = "addEvent"])

\* model.addChargeToInvoice returns null, which nobody looks at, or adds a line.
AddChargeToInvoice(w) ==
    /\ At(w, "add", "addEvent")
    /\ LET i == task[w].invoice
           c == task[w].charges[task[w].next]
           t == [task[w] EXCEPT !.step = "allocate"]
       IN IF ~Exists(invoices[i]) THEN Write(w, {}, view[w], t)
          ELSE IF ~Exists(view[w].invoices[i]) THEN Throw(w)
          ELSE IF ~CanWrite(w, {i}) THEN Retry(w)
          ELSE Write(w, {i},
                     [view[w] EXCEPT !.invoices[i] = WithCharge(@, c)], t)

\* Mutant of AllocateChargeToInvoice: no permission is asked for.
AllocateUnauthorized(w) ==
    /\ At(w, "add", "allocate")
    /\ LET c == task[w].charges[task[w].next] IN
       Write(w, {c}, [view[w] EXCEPT !.allocation[c] = task[w].invoice],
             [task[w] EXCEPT !.step = "commit"])

AllocateChargeToInvoice(w) ==
    /\ At(w, "add", "allocate")
    /\ LET i == task[w].invoice
           c == task[w].charges[task[w].next]
           more == task[w].next < Len(task[w].charges)
       IN IF i \notin related THEN Throw(w)
          ELSE IF ~CanWrite(w, {c}) THEN Retry(w)
          ELSE Write(w, {c}, [view[w] EXCEPT !.allocation[c] = i],
                     [task[w] EXCEPT !.step = IF more THEN "getCharge" ELSE "commit",
                                     !.next = @ + 1])
-------------------------------------------------------------------------------
(***************************************************************************)
(* markInvoiceAsSent and its like, and the edits of taxes: a read, and one *)
(* event in a transaction of its own.  No status is checked.  The value of *)
(* a tax is checked against the type that an earlier read has found.       *)
(***************************************************************************)
CheckTaxValue(w) ==
    /\ At(w, "mark", "check")
    /\ LET e   == task[w].event
           tax == invoices[task[w].invoice].taxLineItems[e.tax]
       IN IF /\ Exists(invoices[task[w].invoice]) /\ tax.type \notin {"NONE", "REMOVED"}
             /\ ValidTax(IF e.taxType = Same THEN tax.type ELSE e.taxType, e.value)
          THEN Goto(w, "read") /\ UNCHANGED <<db, related, txn, calls>>
          ELSE Throw(w)

ReadForMark(w) ==
    /\ At(w, "mark", "read")
    /\ IF Exists(invoices[task[w].invoice])
       THEN Goto(w, "write") /\ UNCHANGED <<db, related, txn, calls>>
       ELSE Throw(w)

MarkEvent(w) ==
    /\ At(w, "mark", "write")
    /\ LET i == task[w].invoice IN
       IF ~Exists(invoices[i]) THEN Throw(w)
       ELSE IF ~CanWrite(w, {i}) THEN Retry(w)
       ELSE /\ invoices' = [invoices EXCEPT ![i] = Applied(@, task[w].event)]
            /\ version' = [version EXCEPT ![i] = @ + 1]
            /\ Done(w)
            /\ UNCHANGED <<allocation, related, calls>>
-------------------------------------------------------------------------------
\* A transient error, within withTransaction.
TransientFault(w) == view[w] # None /\ Retry(w)

\* An awaited call throws, or the process dies.
Abort(w) == task[w] # Idle /\ Throw(w)

Progress(w) ==
    \/ Relate(w) \/ Authorize(w) \/ ReadForDelete(w)
    \/ UnallocateChargesFromInvoice(w) \/ ReadAgain(w) \/ DeleteEvent(w)
    \/ Unrelate(w) \/ GetCharge(w) \/ AddChargeToInvoice(w)
    \/ AllocateChargeToInvoice(w) \/ CheckTaxValue(w) \/ ReadForMark(w) \/ MarkEvent(w) \/ Commit(w)

Next == \E w \in Worker :
    \/ CreateInvoice(w) \/ DeleteInvoice(w) \/ AddChargesToInvoice(w)
    \/ MarkInvoice(w) \/ AddTaxLineItem(w) \/ UpdateTaxLineItem(w) \/ RemoveTaxLineItems(w)
    \/ Progress(w) \/ TransientFault(w) \/ Abort(w)

Spec == Init /\ [][Next]_vars
-------------------------------------------------------------------------------
\* The total (finalSumInCents) of a document follows from the rest of it.
TotalOf(lines, taxes) ==
    IF lines = <<>> THEN 0 ELSE FinalSum(Amount * Len(lines), taxes)

IsInvoiceDoc(doc) ==
    /\ doc.status \in Status
    /\ doc.lineItems \in Seq(Charge)
    /\ doc.taxLineItems \in [Tax -> TaxLineItem]
    /\ doc = [status |-> doc.status, lineItems |-> doc.lineItems,
               taxLineItems |-> doc.taxLineItems,
               total |-> TotalOf(doc.lineItems, doc.taxLineItems)]

AreInvoices(docs) ==
    docs = [i \in Invoice |-> docs[i]] /\ \A i \in Invoice : IsInvoiceDoc(docs[i])

IsView(v) ==
    /\ v = [invoices |-> v.invoices, allocation |-> v.allocation, version |-> v.version]
    /\ AreInvoices(v.invoices)
    /\ v.allocation \in [Charge -> Invoice \cup {NoInvoice}]
    /\ v.version \in [Document -> Nat]

(***************************************************************************)
(* Documents, views and requests have their types, and the total of every  *)
(* document, committed or not, is that of its lines and taxes; only an open*)
(* transaction has written documents.                                      *)
(***************************************************************************)
TypeOK ==
    /\ AreInvoices(invoices)
    /\ allocation \in [Charge -> Invoice \cup {NoInvoice}]
    /\ version \in [Document -> Nat]
    /\ related \subseteq Invoice
    /\ task \in [Worker -> Task]
    /\ view = [w \in Worker |-> view[w]]
    /\ written \in [Worker -> SUBSET Document]
    /\ \A w \in Worker : IF view[w] = None THEN written[w] = {} ELSE IsView(view[w])

(***************************************************************************)
(* As long as an invoice is a draft its lines are the charges allocated to *)
(* it, each once, although lines and allocations are kept in two           *)
(* collections and the invoice is read outside of the transactions.        *)
(***************************************************************************)
DraftLinesAreAllocated ==
    \A i \in Invoice : invoices[i].status = "DRAFT" =>
        LET lines == invoices[i].lineItems IN
        /\ {lines[n] : n \in DOMAIN lines} = {c \in Charge : allocation[c] = i}
        /\ \A m, n \in DOMAIN lines : lines[m] = lines[n] => m = n

(***************************************************************************)
(* A charge allocated to an invoice is on one of its lines, whatever the   *)
(* status; it is left allocated to a deleted invoice only if the relation  *)
(* of that invoice could not be removed from SpiceDB.                      *)
(***************************************************************************)
AllocatedIsOnInvoice ==
    \A c \in Charge : allocation[c] # NoInvoice =>
        LET doc == invoices[allocation[c]] IN
        IF Exists(doc) THEN \E n \in DOMAIN doc.lineItems : doc.lineItems[n] = c
        ELSE allocation[c] \in related

(***************************************************************************)
(* The total of a draft is that of the charges allocated to it and of its  *)
(* taxes, in whatever order charges and taxes came and whatever was tried  *)
(* again; without a charge there is no tax.                                *)
(***************************************************************************)
DraftTotalOfAllocated ==
    \A i \in Invoice : invoices[i].status = "DRAFT" =>
        LET charges == {c \in Charge : allocation[c] = i} IN
        invoices[i].total =
            IF charges = {} THEN 0
            ELSE FinalSum(Amount * Cardinality(charges), invoices[i].taxLineItems)

(***************************************************************************)
(* Only a draft is deleted: an invoice sent, paid or cancelled while it is *)
(* being deleted stays.                                                    *)
(***************************************************************************)
OnlyDraftsDeleted ==
    [][\A i \in Invoice : invoices'[i].status = "deleted" =>
          invoices[i].status \in {"DRAFT", "deleted"}]_vars

(***************************************************************************)
(* invoices/index.ts:163, "Use a transaction to ensure atomicity", of the  *)
(* deletion: charges leave an invoice only together with the invoice.      *)
(***************************************************************************)
DeletionIsAtomic ==
    [][\A c \in Charge : allocation[c] # NoInvoice /\ allocation'[c] # allocation[c] =>
          invoices'[allocation[c]].status = "deleted"]_vars
===============================================================================
