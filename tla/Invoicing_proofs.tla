--------------------------- MODULE Invoicing_proofs ---------------------------
(***************************************************************************)
(* Proofs about Invoicing for any workers, invoices, charges and taxes.    *)
(***************************************************************************)
EXTENDS Invoicing, FiniteSetTheorems, TLAPS
-------------------------------------------------------------------------------
(***************************************************************************)
(* What the documents say, committed.                                      *)
(***************************************************************************)
\* The lines of an invoice are the charges of S, each once.
Lists(doc, S) ==
    LET lines == doc.lineItems IN
    /\ Range(lines) = S
    /\ \A m, n \in DOMAIN lines : lines[m] = lines[n] => m = n

AllocatedTo(all, i) == {c \in Charge : all[c] = i}

DbRight ==
    /\ \A i \in Invoice :
          /\ invoices[i].status = "absent" => invoices[i] = NoLines("absent")
          /\ invoices[i].status = "DRAFT" => Lists(invoices[i], AllocatedTo(allocation, i))
          /\ i \in related => invoices[i].status # "absent"
    /\ \A c \in Charge : allocation[c] # NoInvoice =>
          LET doc == invoices[allocation[c]] IN
          IF Exists(doc) THEN c \in Range(doc.lineItems) ELSE allocation[c] \in related

(***************************************************************************)
(* What a request t whose transaction has snapshot v and has written W may *)
(* rely on.  At each step it has what the steps before it filled in.       *)
(***************************************************************************)
EventRight(e) ==
    /\ e.type # "NONE"
    /\ e.type = "MARK" => e.status \in {"SENT", "PAID", "CANCELLED"}
    /\ e.type = "ADD_TAX_LINE_ITEM" =>
          e.taxType \in {"PERCENTAGE", "FIXED_AMOUNT"} /\ e.value \in Value
    /\ e.type \in {"ADD_TAX_LINE_ITEM", "UPDATE_TAX_LINE_ITEM", "REMOVE_TAX_LINE_ITEM"} =>
          e.tax \in Tax

RequestRight(t, v) ==
    /\ t.op = "idle" => t = Idle /\ v = None
    /\ t.op # "idle" => t.invoice \in Invoice
    /\ t.op # "mark" => t.event = NoEvent
    /\ t.op = "create" => t.step = "relate" /\ v = None
    /\ t.op = "mark" => /\ t.step \in {"authorize", "check", "read", "write"}
                        /\ v = None /\ EventRight(t.event)
    /\ t.op = "delete" =>
          IF v = None THEN t.step \in {"authorize", "read", "unallocate"}
          ELSE t.step \in {"readAgain", "deleteEvent", "unrelate", "commit"}
    /\ t.op = "add" =>
          /\ t.step \in {"authorize", "getCharge", "addEvent", "allocate", "commit"}
          /\ t.step = "authorize" => v = None
          /\ t.step \in {"addEvent", "allocate", "commit"} => v # None
          /\ Len(t.charges) \in Nat \ {0}
          /\ t.step # "commit" => t.next \in 1 .. Len(t.charges)

\* The request was authorized, so the invoice has existed.
Known(t) ==
    t.op = "create" \/ (t.op \in {"add", "delete"} /\ t.step # "authorize") =>
        invoices[t.invoice].status # "absent"

\* The snapshot of a document is as it is now unless it was written since.
SnapshotRight(v, W) ==
    v # None =>
        /\ \A d \in Document : v.version[d] <= version[d]
        /\ \A d \in W : v.version[d] = version[d]
        /\ \A i \in Invoice \ W :
              v.version[i] = version[i] => v.invoices[i] = invoices[i]
        /\ \A c \in Charge \ W :
              v.version[c] = version[c] => v.allocation[c] = allocation[c]

\* The charge whose line is there and whose allocation is not.
Current(t) == IF t.step = "allocate" THEN {t.charges[t.next]} ELSE {}

AddRight(t, v, W) ==
    t.op = "add" /\ v # None =>
        /\ \A c \in W \cap Charge : allocation[c] = NoInvoice /\ v.allocation[c] = t.invoice
        /\ t.step \in {"addEvent", "allocate"} =>
              v.allocation[t.charges[t.next]] = NoInvoice
        /\ IF t.invoice \in W
           THEN /\ Exists(invoices[t.invoice])
                /\ v.invoices[t.invoice].status = invoices[t.invoice].status
                /\ Range(v.invoices[t.invoice].lineItems) =
                      Range(invoices[t.invoice].lineItems) \cup (W \cap Charge) \cup Current(t)
           ELSE /\ W # {} \/ t.step = "allocate" => ~Exists(invoices[t.invoice])
                /\ W # {} => t.invoice \in related
        /\ /\ v.invoices[t.invoice].status = "DRAFT"
           /\ t.invoice \in W \/ (W = {} /\ t.step # "allocate")
           => Lists(v.invoices[t.invoice],
                    AllocatedTo(v.allocation, t.invoice) \cup Current(t))

DeleteRight(t, v, W) ==
    t.op = "delete" /\ v # None =>
        /\ \A c \in W \cap Charge : allocation[c] = t.invoice /\ v.allocation[c] = NoInvoice
        /\ IF t.invoice \in W
           THEN /\ t.step \in {"unrelate", "commit"}
                /\ v.invoices[t.invoice] = NoLines("deleted")
                /\ invoices[t.invoice].status = "DRAFT"
                /\ Range(invoices[t.invoice].lineItems) = W \cap Charge
           ELSE /\ t.step # "unrelate"
                /\ v.invoices[t.invoice].status = "DRAFT" =>
                      Range(v.invoices[t.invoice].lineItems) = W
                /\ t.step = "deleteEvent" /\ v.version[t.invoice] = version[t.invoice] =>
                      invoices[t.invoice].status = "DRAFT"
                /\ t.step = "commit" => invoices[t.invoice].status # "DRAFT"

WorkerRight(t, v, W) ==
    /\ RequestRight(t, v)
    /\ Known(t)
    /\ W \cap Invoice \subseteq {t.invoice}
    /\ SnapshotRight(v, W)
    /\ AddRight(t, v, W)
    /\ DeleteRight(t, v, W)

\* No two open transactions have written one document.
WritersExclude == \A w, u \in Worker : w # u => written[w] \cap written[u] = {}

IInv ==
    /\ TypeOK
    /\ DbRight
    /\ \A w \in Worker : WorkerRight(task[w], view[w], written[w])
    /\ WritersExclude
-------------------------------------------------------------------------------
(***************************************************************************)
(* Documents.                                                              *)
(***************************************************************************)
LEMMA AppendRange ==
    ASSUME NEW S, NEW s \in Seq(S), NEW c \in S
    PROVE  /\ Append(s, c) \in Seq(S) /\ Append(s, c) # <<>>
           /\ Range(Append(s, c)) = Range(s) \cup {c}
<1>1. /\ Append(s, c) \in Seq(S) /\ Len(Append(s, c)) = Len(s) + 1
      /\ \A n \in 1 .. Len(s) : Append(s, c)[n] = s[n]
      /\ Append(s, c)[Len(s) + 1] = c
  OBVIOUS
<1>2. DOMAIN s = 1 .. Len(s) /\ DOMAIN Append(s, c) = 1 .. Len(s) + 1
  BY <1>1
<1>3. Range(Append(s, c)) \subseteq Range(s) \cup {c}
  BY <1>1, <1>2 DEF Range
<1>4. Range(s) \subseteq Range(Append(s, c))
  BY <1>1, <1>2 DEF Range
<1>5. c \in Range(Append(s, c))
  BY <1>1, <1>2 DEF Range
<1> QED BY <1>1, <1>3, <1>4, <1>5

\* A charge that is not on an invoice yet comes on it once.
LEMMA AppendLists ==
    ASSUME NEW doc, IsInvoiceDoc(doc), NEW c \in Charge, NEW S, Lists(doc, S), c \notin S,
           NEW new, new.lineItems = Append(doc.lineItems, c)
    PROVE  Lists(new, S \cup {c})
<1> DEFINE s == doc.lineItems
<1>1. s \in Seq(Charge)
  BY DEF IsInvoiceDoc
<1>2. Range(s) = S /\ (\A m, n \in DOMAIN s : s[m] = s[n] => m = n)
  BY DEF Lists
<1>3. Range(Append(s, c)) = S \cup {c}
  BY <1>1, <1>2, AppendRange
<1>4. /\ \A n \in DOMAIN s : Append(s, c)[n] = s[n] /\ s[n] # c
      /\ DOMAIN Append(s, c) = DOMAIN s \cup {Len(s) + 1}
      /\ Append(s, c)[Len(s) + 1] = c
  BY <1>1, <1>2 DEF Range
<1>5. \A m, n \in DOMAIN Append(s, c) : Append(s, c)[m] = Append(s, c)[n] => m = n
  BY <1>2, <1>4
<1> QED BY <1>3, <1>5 DEF Lists

LEMMA NoLinesRight ==
    ASSUME NEW status \in Status
    PROVE  /\ IsInvoiceDoc(NoLines(status)) /\ NoLines(status).status = status
           /\ Lists(NoLines(status), {})
BY TaxAssumption DEF NoLines, NoTaxes, IsInvoiceDoc, TotalOf, TaxLineItem, Lists, Range

\* The totals that the reducer calculates are those of the type invariant.
LEMMA CalculatedTotalsRight ==
    ASSUME NEW doc, doc.status \in Status, doc.lineItems \in Seq(Charge),
           doc.taxLineItems \in [Tax -> TaxLineItem],
           doc = [status |-> doc.status, lineItems |-> doc.lineItems,
                  taxLineItems |-> doc.taxLineItems, total |-> doc.total],
           doc.lineItems = <<>> => doc.total = 0
    PROVE  LET d == CalculatedTotals(doc)
           IN  IsInvoiceDoc(d) /\ d.status = doc.status /\ d.lineItems = doc.lineItems
BY DEF CalculatedTotals, IsInvoiceDoc, TotalOf

LEMMA LineAdded ==
    ASSUME NEW doc, IsInvoiceDoc(doc), NEW c \in Charge
    PROVE  LET d == WithCharge(doc, c)
           IN  IsInvoiceDoc(d) /\ d.status = doc.status
               /\ d.lineItems = Append(doc.lineItems, c)
<1> DEFINE new == [doc EXCEPT !.lineItems = Append(@, c)]
<1>1. Append(doc.lineItems, c) \in Seq(Charge) /\ Append(doc.lineItems, c) # <<>>
  BY AppendRange DEF IsInvoiceDoc
<1>2. new = [status |-> doc.status, lineItems |-> Append(doc.lineItems, c),
             taxLineItems |-> doc.taxLineItems, total |-> doc.total]
  BY DEF IsInvoiceDoc
<1>3. /\ new.status = doc.status /\ new.status \in Status
      /\ new.lineItems = Append(doc.lineItems, c)
      /\ new.taxLineItems \in [Tax -> TaxLineItem]
      /\ new = [status |-> new.status, lineItems |-> new.lineItems,
                taxLineItems |-> new.taxLineItems, total |-> new.total]
  BY <1>2 DEF IsInvoiceDoc
<1>4. WithCharge(doc, c) = CalculatedTotals(new)
  BY DEF WithCharge
<1> HIDE DEF new
<1> QED BY <1>1, <1>3, <1>4, CalculatedTotalsRight

\* A tax stays a tax.
LEMMA TaxesTyped ==
    ASSUME NEW tax \in TaxLineItem, NEW e \in Event, EventRight(e)
    PROVE  /\ Removed(tax) \in TaxLineItem
           /\ UpdatedTax(tax, e) \in TaxLineItem
           /\ e.type = "ADD_TAX_LINE_ITEM" =>
                [type |-> e.taxType, value |-> e.value] \in TaxLineItem
BY TaxAssumption DEF TaxLineItem, Removed, UpdatedTax, Event, EventRight

LEMMA AppliedRight ==
    ASSUME NEW doc, IsInvoiceDoc(doc), NEW e \in Event, EventRight(e)
    PROVE  LET d == Applied(doc, e)
           IN  /\ IsInvoiceDoc(d) /\ d.lineItems = doc.lineItems
               /\ d.status = doc.status \/ d.status \in {"SENT", "PAID", "CANCELLED"}
<1> DEFINE d == BaseInvoice(doc, e)
<1>1. /\ doc.status \in Status /\ doc.lineItems \in Seq(Charge)
      /\ doc.taxLineItems \in [Tax -> TaxLineItem]
      /\ doc = [status |-> doc.status, lineItems |-> doc.lineItems,
                taxLineItems |-> doc.taxLineItems, total |-> doc.total]
      /\ doc.lineItems = <<>> => doc.total = 0
  BY DEF IsInvoiceDoc, TotalOf
<1>2. ASSUME NEW taxes \in [Tax -> TaxLineItem],
             d = [doc EXCEPT !.taxLineItems = taxes]
      PROVE  d = [status |-> doc.status, lineItems |-> doc.lineItems,
                  taxLineItems |-> taxes, total |-> doc.total]
  BY <1>1, <1>2
<1>3. \A t \in Tax : /\ doc.taxLineItems[t] \in TaxLineItem
                     /\ Removed(doc.taxLineItems[t]) \in TaxLineItem
                     /\ UpdatedTax(doc.taxLineItems[t], e) \in TaxLineItem
  BY <1>1, TaxesTyped
<1>4. PICK status \in Status, taxes \in [Tax -> TaxLineItem] :
        /\ d = [status |-> status, lineItems |-> doc.lineItems,
                taxLineItems |-> taxes, total |-> doc.total]
        /\ status = doc.status \/ status \in {"SENT", "PAID", "CANCELLED"}
  <2>1. CASE e.type = "MARK"
    <3>1. d = [status |-> e.status, lineItems |-> doc.lineItems,
               taxLineItems |-> doc.taxLineItems, total |-> doc.total]
      BY <1>1, <2>1 DEF BaseInvoice
    <3> QED BY <1>1, <2>1, <3>1 DEF EventRight, Status
  <2>2. CASE e.type = "ADD_TAX_LINE_ITEM"
    <3> DEFINE taxes == [doc.taxLineItems EXCEPT ![e.tax] =
                            [type |-> e.taxType, value |-> e.value]]
    <3>1. taxes \in [Tax -> TaxLineItem]
      BY <1>1, <2>2, TaxesTyped
    <3>2. d = [doc EXCEPT !.taxLineItems = taxes]
      BY <1>1, <2>2 DEF BaseInvoice
    <3> QED BY <1>1, <1>2, <3>1, <3>2
  <2>3. CASE e.type = "UPDATE_TAX_LINE_ITEM"
    <3> DEFINE taxes == [doc.taxLineItems EXCEPT ![e.tax] = UpdatedTax(@, e)]
    <3>1. taxes \in [Tax -> TaxLineItem]
      BY <1>1, <1>3, <2>3 DEF EventRight
    <3>2. d = [doc EXCEPT !.taxLineItems = taxes]
      BY <1>1, <2>3 DEF BaseInvoice
    <3> QED BY <1>1, <1>2, <3>1, <3>2
  <2>4. CASE e.type = "REMOVE_TAX_LINE_ITEM"
    <3> DEFINE taxes == [doc.taxLineItems EXCEPT ![e.tax] = Removed(@)]
    <3>1. taxes \in [Tax -> TaxLineItem]
      BY <1>1, <1>3, <2>4 DEF EventRight
    <3>2. d = [doc EXCEPT !.taxLineItems = taxes]
      BY <1>1, <2>4 DEF BaseInvoice
    <3> QED BY <1>1, <1>2, <3>1, <3>2
  <2>5. CASE e.type = "CLEAR_TAXES"
    <3> DEFINE taxes == [t \in Tax |-> Removed(doc.taxLineItems[t])]
    <3>1. taxes \in [Tax -> TaxLineItem]
      BY <1>3
    <3>2. d = [doc EXCEPT !.taxLineItems = taxes]
      BY <1>1, <2>5 DEF BaseInvoice
    <3> QED BY <1>1, <1>2, <3>1, <3>2
  <2> QED BY <2>1, <2>2, <2>3, <2>4, <2>5 DEF Event, EventRight
<1>5. /\ d.status = status /\ d.lineItems = doc.lineItems /\ d.taxLineItems = taxes
      /\ d.total = doc.total
      /\ d = [status |-> d.status, lineItems |-> d.lineItems,
              taxLineItems |-> d.taxLineItems, total |-> d.total]
  BY <1>4
<1>6. Applied(doc, e) = CalculatedTotals(d)
  BY DEF Applied
<1> HIDE DEF d
<1> QED BY <1>1, <1>4, <1>5, <1>6, CalculatedTotalsRight
-------------------------------------------------------------------------------
(***************************************************************************)
(* One step of one worker.                                                 *)
(***************************************************************************)
DbOK ==
    /\ AreInvoices(invoices)
    /\ allocation \in [Charge -> Invoice \cup {NoInvoice}]
    /\ version \in [Document -> Nat]
    /\ related \subseteq Invoice

TxnOK(v, W) ==
    /\ W \subseteq Document
    /\ IF v = None THEN W = {} ELSE IsView(v)

LEMMA ViewOpen ==
    ASSUME NEW v, IsView(v)
    PROVE  v # None
BY DEF IsView, None

LEMMA Typed ==
    ASSUME IInv
    PROVE  /\ DbOK
           /\ \A w \in Worker : /\ task[w] \in Task /\ TxnOK(view[w], written[w])
                                /\ WorkerRight(task[w], view[w], written[w])
BY DEF IInv, TypeOK, DbOK, TxnOK

\* What may become of the status of an invoice that is written.
Advances(old, new) ==
    /\ old.status # "deleted" /\ new.status # "absent"
    /\ new.status = "DRAFT" => old.status \in {"DRAFT", "absent"}

(***************************************************************************)
(* What others do to the documents that a transaction has not written.     *)
(***************************************************************************)
OthersWrite(W) ==
    /\ \A i \in Invoice :
          \/ invoices'[i] = invoices[i] /\ version'[i] = version[i]
          \/ i \notin W /\ version'[i] = version[i] + 1 /\ Advances(invoices[i], invoices'[i])
    /\ \A c \in Charge :
          \/ allocation'[c] = allocation[c] /\ version'[c] = version[c]
          \/ c \notin W /\ version'[c] = version[c] + 1
    /\ \A i \in Invoice :
          i \in related /\ invoices[i].status = "deleted" => i \in related'

LEMMA OthersKeepWorker ==
    ASSUME NEW t \in Task, NEW v, NEW W, TxnOK(v, W), DbOK,
           WorkerRight(t, v, W), OthersWrite(W)
    PROVE  WorkerRight(t, v, W)'
<1> DEFINE i == t.invoice
<1>1. /\ RequestRight(t, v) /\ Known(t) /\ SnapshotRight(v, W) /\ AddRight(t, v, W)
      /\ DeleteRight(t, v, W) /\ W \cap Invoice \subseteq {i}
  BY DEF WorkerRight
<1>2. RequestRight(t, v)'
  BY <1>1 DEF RequestRight, EventRight
<1>3. t.op # "idle" => i \in Invoice
  BY <1>1 DEF RequestRight
<1>4. Known(t)'
  BY <1>1, <1>3 DEF Known, OthersWrite, Advances
<1>5. \A d \in Document : version[d] \in Nat
  BY DEF DbOK
<1>6. v # None => \A d \in Document : v.version[d] \in Nat
  BY DEF TxnOK, IsView
<1>7. \A d \in Document : \/ version'[d] = version[d]
                          \/ d \notin W /\ version'[d] = version[d] + 1
  BY DEF OthersWrite, Document
<1>8. W \subseteq Document
  BY DEF TxnOK
<1>9. SnapshotRight(v, W)'
  <2> SUFFICES ASSUME v # None
               PROVE  SnapshotRight(v, W)'
    BY DEF SnapshotRight
  <2>1. \A d \in Document : v.version[d] <= version'[d]
    BY <1>1, <1>5, <1>6, <1>7 DEF SnapshotRight
  <2>2. \A d \in W : v.version[d] = version'[d]
    BY <1>1, <1>7, <1>8 DEF SnapshotRight
  <2>3. \A j \in Invoice \ W : v.version[j] = version'[j] => v.invoices[j] = invoices'[j]
    <3> SUFFICES ASSUME NEW j \in Invoice \ W, v.version[j] = version'[j]
                 PROVE  v.invoices[j] = invoices'[j]
      OBVIOUS
    <3>1. j \in Document /\ v.version[j] <= version[j]
      BY <1>1 DEF SnapshotRight, Document
    <3>2. version'[j] # version[j] + 1
      BY <1>5, <1>6, <3>1
    <3> QED BY <1>1, <3>2 DEF SnapshotRight, OthersWrite
  <2>4. \A c \in Charge \ W :
           v.version[c] = version'[c] => v.allocation[c] = allocation'[c]
    <3> SUFFICES ASSUME NEW c \in Charge \ W, v.version[c] = version'[c]
                 PROVE  v.allocation[c] = allocation'[c]
      OBVIOUS
    <3>1. c \in Document /\ v.version[c] <= version[c]
      BY <1>1 DEF SnapshotRight, Document
    <3>2. version'[c] # version[c] + 1
      BY <1>5, <1>6, <3>1
    <3> QED BY <1>1, <3>2 DEF SnapshotRight, OthersWrite
  <2> QED BY <2>1, <2>2, <2>3, <2>4 DEF SnapshotRight
<1>10. \A c \in W \cap Charge : allocation'[c] = allocation[c]
  BY DEF OthersWrite
<1>11. i \in W /\ i \in Invoice => invoices'[i] = invoices[i]
  BY DEF OthersWrite
<1>12. AddRight(t, v, W)'
  <2> SUFFICES ASSUME t.op = "add", v # None
               PROVE  AddRight(t, v, W)'
    BY DEF AddRight
  <2>1. invoices[i].status # "absent"
    BY <1>1 DEF Known, RequestRight
  <2>2. i \in Invoice
    BY <1>3
  <2>3. ~Exists(invoices[i]) =>
           ~Exists(invoices'[i]) /\ (i \in related => i \in related')
    BY <2>1, <2>2 DEF OthersWrite, Advances, Exists
  <2> QED BY <1>1, <1>10, <1>11, <2>2, <2>3 DEF AddRight, Current
<1>13. DeleteRight(t, v, W)'
  <2> SUFFICES ASSUME t.op = "delete", v # None
               PROVE  DeleteRight(t, v, W)'
    BY DEF DeleteRight
  <2>1. invoices[i].status # "absent"
    BY <1>1 DEF Known, RequestRight
  <2>2. i \in Invoice /\ i \in Document
    BY <1>3 DEF Document
  <2>3. invoices[i].status # "DRAFT" => invoices'[i].status # "DRAFT"
    BY <2>1, <2>2 DEF OthersWrite, Advances
  <2>4. v.version[i] = version'[i] => v.version[i] = version[i] /\ invoices'[i] = invoices[i]
    <3>1. v.version[i] <= version[i]
      BY <1>1, <2>2 DEF SnapshotRight
    <3>2. v.version[i] # version[i] + 1
      BY <1>5, <1>6, <2>2, <3>1
    <3> QED BY <2>2, <3>2 DEF OthersWrite
  <2> QED BY <1>1, <1>10, <1>11, <2>2, <2>3, <2>4 DEF DeleteRight
<1> QED BY <1>1, <1>2, <1>4, <1>9, <1>12, <1>13 DEF WorkerRight

LEMMA OneWorker ==
    ASSUME IInv, NEW w \in Worker, NEW t \in Task, NEW v, NEW W, TxnOK(v, W),
           task' = [task EXCEPT ![w] = t], view' = [view EXCEPT ![w] = v],
           written' = [written EXCEPT ![w] = W],
           DbOK', DbRight', WorkerRight(t, v, W)',
           \A u \in Worker \ {w} : W \cap written[u] = {} /\ OthersWrite(written[u])
    PROVE  IInv'
<1>1. task \in [Worker -> Task] /\ view = [u \in Worker |-> view[u]]
      /\ written \in [Worker -> SUBSET Document]
  BY DEF IInv, TypeOK
<1>2. /\ task'[w] = t /\ view'[w] = v /\ written'[w] = W
      /\ \A u \in Worker \ {w} : task'[u] = task[u] /\ view'[u] = view[u]
                                 /\ written'[u] = written[u]
      /\ task' \in [Worker -> Task] /\ view' = [u \in Worker |-> view'[u]]
      /\ written' \in [Worker -> SUBSET Document]
  BY <1>1 DEF TxnOK
<1>3. ASSUME NEW u \in Worker
      PROVE  /\ WorkerRight(task[u], view[u], written[u])'
             /\ IF view'[u] = None THEN written'[u] = {} ELSE IsView(view'[u])
  <2>1. CASE u = w
    BY <1>2, <2>1 DEF TxnOK
  <2>2. CASE u # w
    <3>1. OthersWrite(written[u])
      BY <2>2
    <3>2. /\ TxnOK(view[u], written[u]) /\ DbOK /\ task[u] \in Task
          /\ WorkerRight(task[u], view[u], written[u])
      BY Typed
    <3>3. WorkerRight(task[u], view[u], written[u])'
      BY <1>2, <2>2, <3>1, <3>2, OthersKeepWorker
    <3> QED BY <1>2, <2>2, <3>2, <3>3 DEF TxnOK
  <2> QED BY <2>1, <2>2
<1>4. TypeOK'
  BY <1>2, <1>3 DEF TypeOK, DbOK
<1>5. WritersExclude'
  BY <1>2 DEF IInv, WritersExclude
<1> QED BY <1>3, <1>4, <1>5 DEF IInv

\* A step that changes nothing that is committed.
LEMMA NobodyWrites ==
    ASSUME UNCHANGED <<db, related>>, NEW W
    PROVE  OthersWrite(W)
BY DEF db, OthersWrite

LEMMA DbStays ==
    ASSUME IInv, UNCHANGED <<db, related>>
    PROVE  DbOK' /\ DbRight'
BY Typed DEF IInv, DbOK, DbRight, db

LEMMA RightStays ==
    ASSUME UNCHANGED <<db, related>>, NEW t, NEW v, NEW W, WorkerRight(t, v, W)
    PROVE  WorkerRight(t, v, W)'
BY DEF WorkerRight, RequestRight, Known, SnapshotRight, AddRight, DeleteRight, db,
       EventRight, Current

LEMMA QuietStep ==
    ASSUME IInv, NEW w \in Worker, NEW t \in Task, NEW v, NEW W, TxnOK(v, W),
           task' = [task EXCEPT ![w] = t], view' = [view EXCEPT ![w] = v],
           written' = [written EXCEPT ![w] = W],
           UNCHANGED <<db, related>>, WorkerRight(t, v, W),
           \A u \in Worker \ {w} : W \cap written[u] = {}
    PROVE  IInv'
<1>1. DbOK' /\ DbRight'
  BY DbStays
<1>2. WorkerRight(t, v, W)'
  BY RightStays
<1>3. \A u \in Worker : OthersWrite(written[u])
  BY NobodyWrites
<1> QED BY <1>1, <1>2, <1>3, OneWorker

\* A request goes on without its transaction writing anything.
LEMMA GoStep ==
    ASSUME IInv, NEW w \in Worker, NEW t \in Task,
           task' = [task EXCEPT ![w] = t], UNCHANGED <<db, related, txn>>,
           WorkerRight(t, view[w], written[w])
    PROVE  IInv'
<1>1. view' = [view EXCEPT ![w] = view[w]] /\ written' = [written EXCEPT ![w] = written[w]]
  BY DEF IInv, TypeOK, txn
<1>2. \A u \in Worker \ {w} : written[w] \cap written[u] = {}
  BY DEF IInv, WritersExclude
<1> QED BY <1>1, <1>2, Typed, QuietStep

LEMMA IdleRight ==
    /\ Idle \in Task /\ TxnOK(None, {})
    /\ WorkerRight(Idle, None, {}) /\ WorkerRight(Idle, None, {})'
<1>1. NoEvent \in Event
  BY DEF NoEvent, Event, Status
<1>2. Idle \in Task
  BY <1>1 DEF Idle, Task
<1>3. Idle.op = "idle"
  BY DEF Idle
<1>4. Idle.event = NoEvent
  BY DEF Idle
<1>5. TxnOK(None, {})
  BY DEF TxnOK
<1>6. WorkerRight(Idle, None, {})
  BY <1>3, <1>4 DEF WorkerRight, RequestRight, Known, SnapshotRight, AddRight, DeleteRight
<1>7. WorkerRight(Idle, None, {})'
  BY <1>3, <1>4 DEF WorkerRight, RequestRight, Known, SnapshotRight, AddRight, DeleteRight
<1> QED BY <1>2, <1>5, <1>6, <1>7

\* A request ends, whatever has been committed.
LEMMA DoneStep ==
    ASSUME IInv, NEW w \in Worker, Done(w), DbOK', DbRight',
           \A u \in Worker \ {w} : OthersWrite(written[u])
    PROVE  IInv'
BY IdleRight, OneWorker DEF Done

LEMMA ThrowStep ==
    ASSUME IInv, NEW w \in Worker, Throw(w)
    PROVE  IInv'
BY DoneStep, DbStays, NobodyWrites DEF Throw

LEMMA RetryStep ==
    ASSUME IInv, NEW w \in Worker, Retry(w), view[w] # None \/ task[w].step = "unallocate"
                                             \/ At(w, "mark", "write")
    PROVE  IInv'
<1> DEFINE t == [task[w] EXCEPT !.tries = @ + 1, !.next = 1, !.step = FirstStep(task[w].op)]
<1>1. CASE Throw(w)
  BY <1>1, ThrowStep
<1>2. CASE /\ task' = [task EXCEPT ![w] = t]
           /\ view' = [view EXCEPT ![w] = None]
           /\ written' = [written EXCEPT ![w] = {}]
           /\ UNCHANGED <<db, related, calls>>
  <2>1. task[w] \in Task /\ RequestRight(task[w], view[w]) /\ Known(task[w])
    BY Typed DEF WorkerRight
  <2>2. task[w].op \in {"delete", "add", "mark"}
    BY <2>1, <1>2 DEF RequestRight, At, Task, Idle
  <2>3. t \in Task
    <3>1. task[w].tries + 1 \in Nat
      BY <2>1 DEF Task
    <3>2. FirstStep(task[w].op) \in {"getCharge", "read", "write"}
      BY <2>2 DEF FirstStep
    <3> HIDE DEF FirstStep
    <3> QED BY <2>1, <3>1, <3>2 DEF Task
  <2>4. RequestRight(t, None)
    BY <2>1, <2>2 DEF RequestRight, FirstStep, Task
  <2>5. Known(t)
    BY <2>1, <2>2 DEF Known, RequestRight, At, Task, FirstStep
  <2>6. WorkerRight(t, None, {})
    BY <2>4, <2>5 DEF WorkerRight, SnapshotRight, AddRight, DeleteRight
  <2> HIDE DEF t
  <2> QED BY <1>2, <2>3, <2>6, IdleRight, QuietStep
<1> QED BY <1>1, <1>2 DEF Retry
-------------------------------------------------------------------------------
(***************************************************************************)
(* The steps that a request begins with.                                   *)
(***************************************************************************)
LEMMA IdleWorker ==
    ASSUME IInv, NEW w \in Worker, task[w] = Idle
    PROVE  view[w] = None /\ written[w] = {}
<1>1. RequestRight(Idle, view[w]) /\ TxnOK(view[w], written[w])
  BY Typed DEF WorkerRight
<1> QED BY <1>1 DEF RequestRight, TxnOK, Idle

LEMMA RequestStep ==
    ASSUME IInv, NEW w \in Worker, NEW t \in Task, Request(w, t),
           UNCHANGED <<db, related>>, t.op # "idle", RequestRight(t, None), Known(t)
    PROVE  IInv'
<1>1. task[w] = Idle /\ task' = [task EXCEPT ![w] = t] /\ UNCHANGED txn
  BY DEF Request
<1>2. view[w] = None /\ written[w] = {}
  BY <1>1, IdleWorker
<1>3. WorkerRight(t, None, {})
  BY DEF WorkerRight, SnapshotRight, AddRight, DeleteRight
<1> QED BY <1>1, <1>2, <1>3, GoStep

LEMMA CallTyped ==
    ASSUME NEW op \in {"create", "delete", "add", "mark"}, NEW i \in Invoice
    PROVE  /\ Call(op, i) \in Task
           /\ Call(op, i).op = op /\ Call(op, i).step = "authorize"
           /\ Call(op, i).invoice = i /\ Call(op, i).next = 1
           /\ Call(op, i).event = NoEvent
<1>1. Idle \in Task /\ Idle.next = 1 /\ Idle.event = NoEvent
  BY IdleRight DEF Idle
<1> QED BY <1>1 DEF Call, Task

LEMMA DeleteInvoiceStep ==
    ASSUME IInv, NEW w \in Worker, DeleteInvoice(w)
    PROVE  IInv'
<1>1. PICK i \in Invoice : Request(w, Call("delete", i)) /\ UNCHANGED <<db, related>>
  BY DEF DeleteInvoice
<1> DEFINE t == Call("delete", i)
<1>2. t \in Task /\ t.op = "delete" /\ t.step = "authorize" /\ t.invoice = i
      /\ t.event = NoEvent
  BY CallTyped
<1> HIDE DEF t
<1>3. RequestRight(t, None) /\ Known(t)
  BY <1>2 DEF RequestRight, Known
<1> QED BY <1>1, <1>2, <1>3, RequestStep DEF t

LEMMA AddChargesToInvoiceStep ==
    ASSUME IInv, NEW w \in Worker, AddChargesToInvoice(w)
    PROVE  IInv'
<1>1. PICK i \in Invoice, cs \in Charge \X Charge, n \in 1 .. 2 :
        /\ Request(w, [Call("add", i) EXCEPT !.charges = SubSeq(cs, 1, n)])
        /\ UNCHANGED <<db, related>>
  BY DEF AddChargesToInvoice
<1> DEFINE t == [Call("add", i) EXCEPT !.charges = SubSeq(cs, 1, n)]
<1>2. SubSeq(cs, 1, n) \in Seq(Charge) /\ Len(SubSeq(cs, 1, n)) \in {1, 2}
  BY SMT
<1>3. Call("add", i) \in Task /\ Call("add", i).next = 1 /\ Call("add", i).op = "add"
      /\ Call("add", i).step = "authorize" /\ Call("add", i).invoice = i
      /\ Call("add", i).event = NoEvent
  BY CallTyped
<1>4. /\ t \in Task /\ t.op = "add" /\ t.step = "authorize" /\ t.invoice = i
      /\ t.event = NoEvent /\ t.next = 1 /\ Len(t.charges) \in {1, 2}
  BY <1>2, <1>3 DEF Task
<1> HIDE DEF t
<1>5. Len(t.charges) \in Nat \ {0} /\ t.next \in 1 .. Len(t.charges)
  <2>1. CASE Len(t.charges) = 1
    BY <1>4, <2>1
  <2>2. CASE Len(t.charges) = 2
    BY <1>4, <2>2
  <2> QED BY <1>4, <2>1, <2>2
<1>6. RequestRight(t, None) /\ Known(t)
  BY <1>4, <1>5 DEF RequestRight, Known
<1> QED BY <1>1, <1>4, <1>6, RequestStep DEF t

\* An event in a transaction of its own.
LEMMA EventRequest ==
    ASSUME IInv, NEW w \in Worker, NEW i \in Invoice, NEW e \in Event, EventRight(e),
           Request(w, [Call("mark", i) EXCEPT !.event = e]), UNCHANGED <<db, related>>
    PROVE  IInv'
<1> DEFINE t == [Call("mark", i) EXCEPT !.event = e]
<1>1. /\ t \in Task /\ t.op = "mark" /\ t.step = "authorize" /\ t.invoice = i
      /\ t.event = e
  BY CallTyped DEF Task
<1> HIDE DEF t
<1>2. RequestRight(t, None) /\ Known(t)
  BY <1>1 DEF RequestRight, Known
<1> QED BY <1>1, <1>2, RequestStep DEF t

LEMMA MarkInvoiceStep ==
    ASSUME IInv, NEW w \in Worker, MarkInvoice(w)
    PROVE  IInv'
<1>1. PICK i \in Invoice, s \in {"SENT", "PAID", "CANCELLED"} :
        /\ Request(w, [Call("mark", i) EXCEPT !.event =
                          [NoEvent EXCEPT !.type = "MARK", !.status = s]])
        /\ UNCHANGED <<db, related>>
  BY DEF MarkInvoice
<1> DEFINE e == [NoEvent EXCEPT !.type = "MARK", !.status = s]
<1>2. e \in Event /\ EventRight(e)
  BY DEF NoEvent, Event, Status, EventRight
<1> HIDE DEF e
<1> QED BY <1>1, <1>2, EventRequest DEF e

LEMMA AddTaxLineItemStep ==
    ASSUME IInv, NEW w \in Worker, AddTaxLineItem(w)
    PROVE  IInv'
<1>1. PICK i \in Invoice, x \in Tax, type \in {"PERCENTAGE", "FIXED_AMOUNT"}, n \in Value :
        /\ Request(w, [Call("mark", i) EXCEPT !.event =
                 [NoEvent EXCEPT !.type = "ADD_TAX_LINE_ITEM", !.tax = x,
                     !.taxType = type, !.value = n]])
        /\ UNCHANGED <<db, related>>
  BY DEF AddTaxLineItem
<1> DEFINE e == [NoEvent EXCEPT !.type = "ADD_TAX_LINE_ITEM", !.tax = x,
                     !.taxType = type, !.value = n]
<1>2. e \in Event /\ EventRight(e)
  BY DEF NoEvent, Event, Status, EventRight
<1> HIDE DEF e
<1> QED BY <1>1, <1>2, EventRequest DEF e

LEMMA UpdateTaxLineItemStep ==
    ASSUME IInv, NEW w \in Worker, UpdateTaxLineItem(w)
    PROVE  IInv'
<1>1. PICK i \in Invoice, x \in Tax, type \in {"PERCENTAGE", "FIXED_AMOUNT", Same},
           n \in Value \cup {Same} :
        /\ Request(w, [Call("mark", i) EXCEPT !.event =
                 [NoEvent EXCEPT !.type = "UPDATE_TAX_LINE_ITEM", !.tax = x,
                     !.taxType = type, !.value = n]])
        /\ UNCHANGED <<db, related>>
  BY DEF UpdateTaxLineItem
<1> DEFINE e == [NoEvent EXCEPT !.type = "UPDATE_TAX_LINE_ITEM", !.tax = x,
                     !.taxType = type, !.value = n]
<1>2. e \in Event /\ EventRight(e)
  BY DEF NoEvent, Event, Status, EventRight
<1> HIDE DEF e
<1> QED BY <1>1, <1>2, EventRequest DEF e

LEMMA RemoveTaxLineItemsStep ==
    ASSUME IInv, NEW w \in Worker, RemoveTaxLineItems(w)
    PROVE  IInv'
<1>1. PICK i \in Invoice, x \in Tax, type \in {"REMOVE_TAX_LINE_ITEM", "CLEAR_TAXES"} :
        /\ Request(w, [Call("mark", i) EXCEPT !.event =
                          [NoEvent EXCEPT !.type = type, !.tax = x]])
        /\ UNCHANGED <<db, related>>
  BY DEF RemoveTaxLineItems
<1> DEFINE e == [NoEvent EXCEPT !.type = type, !.tax = x]
<1>2. e \in Event /\ EventRight(e)
  BY DEF NoEvent, Event, Status, EventRight
<1> HIDE DEF e
<1> QED BY <1>1, <1>2, EventRequest DEF e
-------------------------------------------------------------------------------
(***************************************************************************)
(* Steps that read.                                                        *)
(***************************************************************************)
\* A request that has no transaction yet goes on to step s.
LEMMA GotoStep ==
    ASSUME IInv, NEW w \in Worker, NEW s, Goto(w, s), UNCHANGED <<db, related, txn>>,
           view[w] = None,
           \/ task[w].op = "mark" /\ s \in {"check", "read", "write"}
           \/ task[w].op = "add" /\ s = "getCharge"
           \/ task[w].op = "delete" /\ s \in {"read", "unallocate"},
           task[w].op \in {"add", "delete"} => invoices[task[w].invoice].status # "absent"
    PROVE  IInv'
<1> DEFINE t == [task[w] EXCEPT !.step = s]
<1>1. task[w] \in Task /\ RequestRight(task[w], None) /\ TxnOK(None, written[w])
  BY Typed DEF WorkerRight
<1>2. /\ t \in Task /\ t.op = task[w].op /\ t.step = s /\ t.invoice = task[w].invoice
      /\ t.event = task[w].event /\ t.charges = task[w].charges /\ t.next = task[w].next
  BY <1>1 DEF Task
<1>3. task' = [task EXCEPT ![w] = t]
  BY DEF Goto
<1>4. written[w] = {}
  BY <1>1 DEF TxnOK
<1> HIDE DEF t
<1>5. RequestRight(t, None) /\ Known(t)
  <2>1. task[w].op = "add" => task[w].step # "commit"
    BY <1>1 DEF RequestRight
  <2> QED BY <1>1, <1>2, <2>1 DEF RequestRight, Known
<1>6. WorkerRight(t, None, {})
  BY <1>5 DEF WorkerRight, SnapshotRight, AddRight, DeleteRight
<1> QED BY <1>2, <1>3, <1>4, <1>6, GoStep

LEMMA AuthorizeStep ==
    ASSUME IInv, NEW w \in Worker, Authorize(w)
    PROVE  IInv'
<1>1. task[w] \in Task /\ RequestRight(task[w], view[w])
  BY Typed DEF WorkerRight
<1>2. task[w].step = "authorize"
  BY DEF Authorize
<1>3. /\ task[w].op \in {"mark", "add", "delete"} /\ view[w] = None
      /\ task[w].invoice \in Invoice
      /\ task[w].op # "mark" => task[w].event.type = "NONE"
  BY <1>1, <1>2 DEF RequestRight, Task, Idle, NoEvent
<1>4. CASE task[w].invoice \in related
  <2>1. invoices[task[w].invoice].status # "absent"
    BY <1>3, <1>4 DEF IInv, DbRight
  <2>2. PICK s : /\ Goto(w, s) /\ UNCHANGED <<db, related, txn>>
                 /\ IF task[w].op = "add" THEN s = "getCharge"
                    ELSE s = "read" \/ (task[w].op = "mark" /\ s = "check")
    BY <1>3, <1>4 DEF Authorize
  <2> QED BY <1>3, <2>1, <2>2, GotoStep
<1>5. CASE task[w].invoice \notin related
  BY <1>5, ThrowStep DEF Authorize
<1> QED BY <1>4, <1>5

LEMMA ReadForDeleteStep ==
    ASSUME IInv, NEW w \in Worker, ReadForDelete(w)
    PROVE  IInv'
<1>1. RequestRight(task[w], view[w])
  BY Typed DEF WorkerRight
<1>2. view[w] = None
  BY <1>1 DEF ReadForDelete, At, RequestRight
<1> QED BY <1>2, GotoStep, ThrowStep DEF ReadForDelete, At

LEMMA CheckTaxValueStep ==
    ASSUME IInv, NEW w \in Worker, CheckTaxValue(w)
    PROVE  IInv'
<1>1. RequestRight(task[w], view[w])
  BY Typed DEF WorkerRight
<1>2. view[w] = None /\ task[w].op = "mark"
  BY <1>1 DEF CheckTaxValue, At, RequestRight
<1>3. (Goto(w, "read") /\ UNCHANGED <<db, related, txn, calls>>) \/ Throw(w)
  BY DEF CheckTaxValue
<1> QED BY <1>2, <1>3, GotoStep, ThrowStep

LEMMA ReadForMarkStep ==
    ASSUME IInv, NEW w \in Worker, ReadForMark(w)
    PROVE  IInv'
<1>1. RequestRight(task[w], view[w])
  BY Typed DEF WorkerRight
<1>2. view[w] = None /\ task[w].op = "mark"
  BY <1>1 DEF ReadForMark, At, RequestRight
<1> QED BY <1>2, GotoStep, ThrowStep DEF ReadForMark

LEMMA ReadAgainStep ==
    ASSUME IInv, NEW w \in Worker, ReadAgain(w)
    PROVE  IInv'
<1> DEFINE s == IF invoices[task[w].invoice].status = "DRAFT" THEN "deleteEvent"
                ELSE "commit"
           t == [task[w] EXCEPT !.step = s]
<1>1. task[w] \in Task /\ WorkerRight(task[w], view[w], written[w])
  BY Typed
<1>2. task[w].op = "delete" /\ task[w].step = "readAgain"
  BY DEF ReadAgain, At
<1>3. task' = [task EXCEPT ![w] = t] /\ UNCHANGED <<db, related, txn>>
  BY DEF ReadAgain, Goto
<1>4. s \in {"deleteEvent", "commit"}
  OBVIOUS
<1>5. /\ t \in Task /\ t.op = task[w].op /\ t.step = s /\ t.invoice = task[w].invoice
      /\ t.event = task[w].event
  BY <1>1, <1>4 DEF Task
<1> HIDE DEF t
<1>6. view[w] # None
  BY <1>1, <1>2 DEF WorkerRight, RequestRight
<1>7. task[w].invoice \notin written[w]
  BY <1>1, <1>2, <1>6 DEF WorkerRight, DeleteRight
<1>8. RequestRight(t, view[w]) /\ Known(t)
  BY <1>1, <1>2, <1>4, <1>5, <1>6 DEF WorkerRight, RequestRight, Known
<1>9. DeleteRight(t, view[w], written[w])
  BY <1>1, <1>2, <1>5, <1>6, <1>7 DEF WorkerRight, DeleteRight
<1>10. WorkerRight(t, view[w], written[w])
  BY <1>1, <1>2, <1>5, <1>8, <1>9 DEF WorkerRight, AddRight
<1> QED BY <1>3, <1>5, <1>10, GoStep
-------------------------------------------------------------------------------
(***************************************************************************)
(* Steps that write in a transaction.                                      *)
(***************************************************************************)
LEMMA SnapshotTaken ==
    ASSUME IInv
    PROVE  IsView(Snapshot) /\ SnapshotRight(Snapshot, {})
<1>1. DbOK
  BY Typed
<1>2. IsView(Snapshot)
  BY <1>1 DEF DbOK, Snapshot, IsView
<1>3. \A d \in Document : version[d] <= version[d]
  BY <1>1 DEF DbOK
<1> QED BY <1>2, <1>3 DEF Snapshot, SnapshotRight

\* A view in which an invoice, or what the charges are allocated to, is written.
WithInvoice(v, i, doc) == [v EXCEPT !.invoices[i] = doc]

LEMMA ViewWithInvoice ==
    ASSUME NEW v, IsView(v), NEW i \in Invoice, NEW doc, IsInvoiceDoc(doc)
    PROVE  LET n == WithInvoice(v, i, doc)
           IN  /\ IsView(n) /\ n.version = v.version /\ n.allocation = v.allocation
               /\ n.invoices[i] = doc
               /\ \A j \in Invoice \ {i} : n.invoices[j] = v.invoices[j]
BY DEF IsView, AreInvoices, WithInvoice

WithAllocation(v, all) == [v EXCEPT !.allocation = all]

LEMMA ViewWithAllocation ==
    ASSUME NEW v, IsView(v), NEW all \in [Charge -> Invoice \cup {NoInvoice}]
    PROVE  LET n == WithAllocation(v, all)
           IN  /\ IsView(n) /\ n.version = v.version /\ n.allocation = all
               /\ n.invoices = v.invoices
BY DEF IsView, WithAllocation

LEMMA SnapshotWritten ==
    ASSUME NEW v, NEW W, v # None, SnapshotRight(v, W), NEW docs,
           \A d \in docs : v.version[d] = version[d],
           NEW n, n.version = v.version,
           \A i \in Invoice \ docs : n.invoices[i] = v.invoices[i],
           \A c \in Charge \ docs : n.allocation[c] = v.allocation[c]
    PROVE  SnapshotRight(n, W \cup docs)
BY DEF SnapshotRight

LEMMA WriteStep ==
    ASSUME IInv, NEW w \in Worker, NEW docs \in SUBSET Document, CanWrite(w, docs),
           NEW n, IsView(n), NEW t \in Task, Write(w, docs, n, t),
           WorkerRight(t, n, written[w] \cup docs)
    PROVE  IInv'
<1> DEFINE W == written[w] \cup docs
<1>1. TxnOK(n, W)
  BY Typed, ViewOpen DEF TxnOK
<1>2. \A u \in Worker \ {w} : W \cap written[u] = {}
  BY DEF CanWrite, IInv, WritersExclude
<1>3. /\ task' = [task EXCEPT ![w] = t] /\ view' = [view EXCEPT ![w] = n]
      /\ written' = [written EXCEPT ![w] = W] /\ UNCHANGED <<db, related>>
  BY DEF Write
<1> QED BY <1>1, <1>2, <1>3, QuietStep

LEMMA UnallocateStep ==
    ASSUME IInv, NEW w \in Worker, UnallocateChargesFromInvoice(w)
    PROVE  IInv'
<1> DEFINE i    == task[w].invoice
           mine == {c \in Charge : Snapshot.allocation[c] = i}
           all  == [c \in Charge |-> IF c \in mine THEN NoInvoice
                                     ELSE Snapshot.allocation[c]]
           n    == [Snapshot EXCEPT !.allocation = all]
           t    == [task[w] EXCEPT !.step = "readAgain"]
<1>1. task[w] \in Task /\ WorkerRight(task[w], view[w], written[w])
      /\ TxnOK(view[w], written[w])
  BY Typed
<1>2. task[w].op = "delete" /\ task[w].step = "unallocate"
  BY DEF UnallocateChargesFromInvoice, At
<1>3. view[w] = None /\ written[w] = {} /\ i \in Invoice
  BY <1>1, <1>2 DEF WorkerRight, RequestRight, TxnOK
<1>4. ViewOf(w) = Snapshot
  BY <1>3 DEF ViewOf
<1>5. CASE Throw(w)
  BY <1>5, ThrowStep
<1>6. CASE Retry(w)
  BY <1>2, <1>6, RetryStep
<1>7. CASE CanWrite(w, mine) /\ Write(w, mine, n, t)
  <2>1. /\ t \in Task /\ t.op = "delete" /\ t.step = "readAgain" /\ t.invoice = i
        /\ t.event = task[w].event
    BY <1>1, <1>2 DEF Task
  <2>2. Snapshot.allocation = allocation /\ Snapshot.invoices = invoices
    BY DEF Snapshot
  <2>3. all \in [Charge -> Invoice \cup {NoInvoice}]
    BY <2>2, Typed DEF DbOK
  <2>4. /\ IsView(n) /\ n.version = Snapshot.version /\ n.allocation = all
        /\ n.invoices = invoices
    <3>1. n = WithAllocation(Snapshot, all)
      BY DEF WithAllocation
    <3> HIDE DEF n, all
    <3> QED BY <2>2, <2>3, <3>1, SnapshotTaken, ViewWithAllocation
  <2>5. n # None /\ Snapshot # None
    BY <2>4, SnapshotTaken, ViewOpen
  <2>6. /\ mine = AllocatedTo(allocation, i) /\ mine \subseteq Charge
        /\ \A c \in mine : all[c] = NoInvoice /\ allocation[c] = i
        /\ \A c \in Charge \ mine : all[c] = allocation[c]
    BY <2>2 DEF AllocatedTo
  <2>7. i \notin mine /\ mine \cap Invoice = {} /\ mine \subseteq Document
    BY <1>3, <2>6, IdAssumption DEF Document
  <2> HIDE DEF n, t, mine, all
  <2>8. SnapshotRight(n, mine)
    <3>1. \A d \in mine : Snapshot.version[d] = version[d]
      BY DEF Snapshot
    <3>2. SnapshotRight(n, {} \cup mine)
      BY <2>2, <2>4, <2>5, <2>6, <3>1, SnapshotTaken, SnapshotWritten
    <3> QED BY <3>2
  <2>9. RequestRight(t, n) /\ Known(t)
    BY <1>1, <1>2, <2>1, <2>5 DEF WorkerRight, RequestRight, Known
  <2>10. DeleteRight(t, n, mine)
    <3>1. invoices[i].status = "DRAFT" => Range(invoices[i].lineItems) = mine
      BY <1>3, <2>6 DEF IInv, DbRight, Lists
    <3> QED BY <2>1, <2>4, <2>6, <2>7, <3>1 DEF DeleteRight
  <2>11. WorkerRight(t, n, mine)
    BY <2>1, <2>7, <2>8, <2>9, <2>10 DEF WorkerRight, AddRight
  <2>12. WorkerRight(t, n, written[w] \cup mine)
    BY <1>3, <2>11
  <2> QED BY <1>7, <2>1, <2>4, <2>7, <2>12, WriteStep
<1> HIDE DEF n, t, mine, all
<1>8. Throw(w) \/ Retry(w) \/ (CanWrite(w, mine) /\ Write(w, mine, n, t))
  BY <1>4 DEF UnallocateChargesFromInvoice, n, t, mine, all
<1> QED BY <1>5, <1>6, <1>7, <1>8

LEMMA DeleteEventStep ==
    ASSUME IInv, NEW w \in Worker, DeleteEvent(w)
    PROVE  IInv'
<1> DEFINE i == task[w].invoice
           v == view[w]
           W == written[w]
           n == [v EXCEPT !.invoices[i] = NoLines("deleted")]
           t == [task[w] EXCEPT !.step = "unrelate"]
<1>1. task[w] \in Task /\ WorkerRight(task[w], v, W) /\ TxnOK(v, W)
  BY Typed
<1>2. task[w].op = "delete" /\ task[w].step = "deleteEvent"
  BY DEF DeleteEvent, At
<1>3. v # None /\ i \in Invoice /\ IsView(v)
  BY <1>1, <1>2 DEF WorkerRight, RequestRight, TxnOK
<1>4. CASE Throw(w)
  BY <1>4, ThrowStep
<1>5. CASE Retry(w)
  BY <1>3, <1>5, RetryStep
<1>6. CASE CanWrite(w, {i}) /\ Write(w, {i}, n, t)
  <2>1. /\ t \in Task /\ t.op = "delete" /\ t.step = "unrelate" /\ t.invoice = i
        /\ t.event = task[w].event
    BY <1>1, <1>2 DEF Task
  <2>2. IsInvoiceDoc(NoLines("deleted"))
    BY NoLinesRight DEF Status
  <2>3. /\ IsView(n) /\ n.version = v.version /\ n.allocation = v.allocation
        /\ n.invoices[i] = NoLines("deleted")
        /\ \A j \in Invoice \ {i} : n.invoices[j] = v.invoices[j]
    <3>1. n = WithInvoice(v, i, NoLines("deleted"))
      BY DEF WithInvoice
    <3> HIDE DEF n
    <3> QED BY <1>3, <2>2, <3>1, ViewWithInvoice
  <2>4. n # None
    BY <2>3, ViewOpen
  <2>5. i \notin W /\ W \subseteq Charge /\ i \notin Charge /\ i \in Document
    BY <1>1, <1>2, <1>3, IdAssumption DEF WorkerRight, DeleteRight, TxnOK, Document
  <2>6. (W \cup {i}) \cap Charge = W
    BY <2>5
  <2> HIDE DEF n, t
  <2>7. v.version[i] = version[i]
    BY <1>3, <1>6 DEF CanWrite, ViewOf
  <2>8. v.invoices[i] = invoices[i] /\ invoices[i].status = "DRAFT"
        /\ Range(invoices[i].lineItems) = W
    <3>1. v.invoices[i] = invoices[i]
      BY <1>1, <1>3, <2>5, <2>7 DEF WorkerRight, SnapshotRight
    <3>2. invoices[i].status = "DRAFT"
      BY <1>1, <1>2, <1>3, <2>5, <2>7 DEF WorkerRight, DeleteRight
    <3> QED BY <1>1, <1>2, <1>3, <2>5, <3>1, <3>2 DEF WorkerRight, DeleteRight
  <2>9. SnapshotRight(n, W \cup {i})
    BY <1>1, <1>3, <2>3, <2>7, SnapshotWritten DEF WorkerRight
  <2>10. RequestRight(t, n) /\ Known(t)
    BY <1>1, <1>2, <2>1, <2>4 DEF WorkerRight, RequestRight, Known
  <2>11. DeleteRight(t, n, W \cup {i})
    <3>1. \A c \in W : allocation[c] = i /\ v.allocation[c] = NoInvoice
      BY <1>1, <1>2, <1>3, <2>5 DEF WorkerRight, DeleteRight
    <3> QED BY <2>1, <2>3, <2>6, <2>8, <3>1 DEF DeleteRight
  <2>12. WorkerRight(t, n, W \cup {i})
    BY <2>1, <2>5, <2>9, <2>10, <2>11, IdAssumption DEF WorkerRight, AddRight
  <2> QED BY <1>6, <2>1, <2>3, <2>5, <2>12, WriteStep
<1> HIDE DEF n, t
<1>7. Throw(w) \/ Retry(w) \/ (CanWrite(w, {i}) /\ Write(w, {i}, n, t))
  BY DEF DeleteEvent, n, t
<1> QED BY <1>4, <1>5, <1>6, <1>7

LEMMA GetChargeStep ==
    ASSUME IInv, NEW w \in Worker, GetCharge(w)
    PROVE  IInv'
<1> DEFINE i == task[w].invoice
           c == task[w].charges[task[w].next]
           v == ViewOf(w)
           W == written[w]
           t == [task[w] EXCEPT !.step = "addEvent"]
<1>1. task[w] \in Task /\ WorkerRight(task[w], view[w], W) /\ TxnOK(view[w], W)
  BY Typed
<1>2. task[w].op = "add" /\ task[w].step = "getCharge"
  BY DEF GetCharge, At
<1>3. i \in Invoice
  BY <1>1, <1>2 DEF WorkerRight, RequestRight
<1>4. CASE Throw(w)
  BY <1>4, ThrowStep
<1>5. CASE v.allocation[c] = NoInvoice /\ Write(w, {}, v, t)
  <2>1. /\ t \in Task /\ t.op = "add" /\ t.step = "addEvent" /\ t.invoice = i
        /\ t.event = task[w].event /\ t.charges = task[w].charges
        /\ t.next = task[w].next
    BY <1>1, <1>2 DEF Task
  <2>2. t.charges[t.next] = c /\ Current(t) = {} /\ Current(task[w]) = {}
    BY <1>2, <2>1 DEF Current
  <2>3. v.allocation[c] = NoInvoice /\ Write(w, {}, v, t)
    BY <1>5
  <2> HIDE DEF t
  <2>4. IsView(v) /\ SnapshotRight(v, W)
    BY <1>1, SnapshotTaken DEF ViewOf, TxnOK, WorkerRight
  <2>5. v # None
    BY <2>4, ViewOpen
  <2>6. RequestRight(t, v) /\ Known(t)
    BY <1>1, <1>2, <2>1, <2>5 DEF WorkerRight, RequestRight, Known
  <2>7. AddRight(t, v, W)
    <3>1. CASE view[w] = None
      <4>1. v.invoices = invoices /\ v.allocation = allocation /\ W = {}
        BY <1>1, <3>1 DEF ViewOf, Snapshot, TxnOK
      <4>2. invoices[i].status = "DRAFT" =>
               Lists(invoices[i], AllocatedTo(allocation, i) \cup {})
        BY <1>3 DEF IInv, DbRight
      <4> QED BY <2>1, <2>2, <2>3, <4>1, <4>2 DEF AddRight
    <3>2. CASE view[w] # None
      <4>1. v = view[w]
        BY <3>2 DEF ViewOf
      <4>2. AddRight(task[w], v, W)
        BY <1>1, <4>1 DEF WorkerRight
      <4> HIDE DEF v
      <4> QED BY <1>2, <2>1, <2>2, <2>3, <2>5, <4>2 DEF AddRight
    <3> QED BY <3>1, <3>2
  <2>8. WorkerRight(t, v, W)
    BY <1>1, <2>1, <2>4, <2>6, <2>7 DEF WorkerRight, DeleteRight
  <2>9. CanWrite(w, {})
    BY DEF CanWrite
  <2> QED
    <3>1. WorkerRight(t, v, written[w] \cup {})
      BY <2>8
    <3> QED BY <2>1, <2>3, <2>4, <2>9, <3>1, WriteStep
<1> QED BY <1>4, <1>5 DEF GetCharge

LEMMA AddChargeToInvoiceStep ==
    ASSUME IInv, NEW w \in Worker, AddChargeToInvoice(w)
    PROVE  IInv'
<1> DEFINE i   == task[w].invoice
           c   == task[w].charges[task[w].next]
           v   == view[w]
           W   == written[w]
           new == WithCharge(v.invoices[i], c)
           n   == [v EXCEPT !.invoices[i] = WithCharge(@, c)]
           t   == [task[w] EXCEPT !.step = "allocate"]
<1>1. task[w] \in Task /\ WorkerRight(task[w], v, W) /\ TxnOK(v, W)
  BY Typed
<1>2. task[w].op = "add" /\ task[w].step = "addEvent"
  BY DEF AddChargeToInvoice, At
<1>3. /\ v # None /\ i \in Invoice /\ IsView(v)
      /\ task[w].charges \in Seq(Charge) /\ task[w].next \in 1 .. Len(task[w].charges)
  BY <1>1, <1>2 DEF WorkerRight, RequestRight, TxnOK, Task
<1>4. c \in Charge /\ c # i /\ i \notin Charge /\ i \in Document
  BY <1>3, IdAssumption DEF Document
<1>5. /\ t \in Task /\ t.op = "add" /\ t.step = "allocate" /\ t.invoice = i
      /\ t.event = task[w].event /\ t.charges = task[w].charges
      /\ t.next = task[w].next
  BY <1>1, <1>2 DEF Task
<1>6. t.charges[t.next] = c /\ Current(t) = {c} /\ Current(task[w]) = {}
  BY <1>2, <1>5 DEF Current
<1>7. AddRight(task[w], v, W)
  BY <1>1 DEF WorkerRight
<1>8. v.allocation[c] = NoInvoice
  BY <1>2, <1>3, <1>7 DEF AddRight
<1>9. Known(t)
  BY <1>1, <1>2, <1>5 DEF WorkerRight, Known
<1>10. CASE Throw(w)
  BY <1>10, ThrowStep
<1>11. CASE Retry(w)
  BY <1>3, <1>11, RetryStep
<1>12. CASE ~Exists(invoices[i]) /\ Write(w, {}, v, t)
  <2> HIDE DEF t
  <2>1. RequestRight(t, v)
    BY <1>1, <1>2, <1>3, <1>5 DEF WorkerRight, RequestRight
  <2>2. AddRight(t, v, W)
    BY <1>2, <1>3, <1>5, <1>6, <1>7, <1>8, <1>12 DEF AddRight
  <2>3. WorkerRight(t, v, W)
    BY <1>1, <1>5, <1>9, <2>1, <2>2 DEF WorkerRight, DeleteRight
  <2>4. CanWrite(w, {})
    BY DEF CanWrite
  <2>5. WorkerRight(t, v, written[w] \cup {})
    BY <2>3
  <2> QED BY <1>3, <1>5, <1>12, <2>4, <2>5, WriteStep
<1>13. CASE /\ Exists(invoices[i]) /\ CanWrite(w, {i})
            /\ Write(w, {i}, n, t)
  <2>1. IsInvoiceDoc(v.invoices[i])
    BY <1>3 DEF IsView, AreInvoices
  <2>2. IsInvoiceDoc(new) /\ new.status = v.invoices[i].status
        /\ new.lineItems = Append(v.invoices[i].lineItems, c)
    BY <1>4, <2>1, LineAdded
  <2>3. n = WithInvoice(v, i, new)
    BY DEF WithInvoice
  <2>4. v.version[i] = version[i]
    BY <1>3, <1>13 DEF CanWrite, ViewOf
  <2> HIDE DEF n, new, t
  <2>5. /\ IsView(n) /\ n.version = v.version /\ n.allocation = v.allocation
        /\ n.invoices[i] = new
        /\ \A j \in Invoice \ {i} : n.invoices[j] = v.invoices[j]
    <3> HIDE DEF c, v, i
    <3> QED BY <1>3, <2>2, <2>3, ViewWithInvoice
  <2>6. n # None
    BY <2>5, ViewOpen
  <2>7. SnapshotRight(n, W \cup {i})
    BY <1>1, <1>3, <2>4, <2>5, SnapshotWritten DEF WorkerRight
  <2>8. RequestRight(t, n)
    BY <1>1, <1>2, <1>3, <1>5, <2>6 DEF WorkerRight, RequestRight
  <2>9. Range(new.lineItems) = Range(v.invoices[i].lineItems) \cup {c}
    <3>1. v.invoices[i].lineItems \in Seq(Charge)
      BY <2>1 DEF IsInvoiceDoc
    <3> HIDE DEF c, v
    <3> QED BY <1>4, <2>2, <3>1, AppendRange
  <2>10. i \in W \/ (W = {} /\ v.invoices[i] = invoices[i])
    BY <1>1, <1>2, <1>3, <1>7, <1>13, <2>4 DEF AddRight, WorkerRight, SnapshotRight
  <2>11. /\ v.invoices[i].status = invoices[i].status
         /\ Range(v.invoices[i].lineItems) =
               Range(invoices[i].lineItems) \cup (W \cap Charge)
    BY <1>2, <1>3, <1>6, <1>7, <2>10 DEF AddRight
  <2>12. (W \cup {i}) \cap Charge = W \cap Charge
    BY <1>4
  <2>13. new.status = "DRAFT" => Lists(new, AllocatedTo(v.allocation, i) \cup {c})
    <3> SUFFICES ASSUME new.status = "DRAFT"
                 PROVE  Lists(new, AllocatedTo(v.allocation, i) \cup {c})
      OBVIOUS
    <3>1. Lists(v.invoices[i], AllocatedTo(v.allocation, i) \cup {})
      BY <1>2, <1>3, <1>6, <1>7, <2>2, <2>10 DEF AddRight
    <3>2. AllocatedTo(v.allocation, i) \cup {} = AllocatedTo(v.allocation, i)
      OBVIOUS
    <3>3. c \notin AllocatedTo(v.allocation, i)
      BY <1>3, <1>8, IdAssumption DEF AllocatedTo
    <3>4. Lists(v.invoices[i], AllocatedTo(v.allocation, i))
      BY <3>1, <3>2
    <3> QED BY <1>4, <2>1, <2>2, <3>3, <3>4, AppendLists
  <2>14. AddRight(t, n, W \cup {i})
    <3>1. \A x \in (W \cup {i}) \cap Charge :
             allocation[x] = NoInvoice /\ n.allocation[x] = i
      BY <1>2, <1>3, <1>7, <2>5, <2>12 DEF AddRight
    <3>2. Range(n.invoices[i].lineItems) =
             Range(invoices[i].lineItems) \cup ((W \cup {i}) \cap Charge) \cup {c}
      BY <2>5, <2>9, <2>11, <2>12
    <3> QED BY <1>5, <1>6, <1>8, <1>13, <2>2, <2>5, <2>11, <2>13, <3>1, <3>2
            DEF AddRight
  <2>15. WorkerRight(t, n, W \cup {i})
    BY <1>1, <1>5, <1>9, <2>7, <2>8, <2>14 DEF WorkerRight, DeleteRight
  <2> QED BY <1>4, <1>5, <1>13, <2>5, <2>15, WriteStep
<1> HIDE DEF n, t, v
<1>14. \/ Throw(w) \/ Retry(w) \/ (~Exists(invoices[i]) /\ Write(w, {}, v, t))
       \/ Exists(invoices[i]) /\ CanWrite(w, {i}) /\ Write(w, {i}, n, t)
  BY DEF AddChargeToInvoice, n, t, v
<1> QED BY <1>10, <1>11, <1>12, <1>13, <1>14

LEMMA AllocateChargeToInvoiceStep ==
    ASSUME IInv, NEW w \in Worker, AllocateChargeToInvoice(w)
    PROVE  IInv'
<1> DEFINE i   == task[w].invoice
           c   == task[w].charges[task[w].next]
           v   == view[w]
           W   == written[w]
           n   == [v EXCEPT !.allocation[c] = i]
           s   == IF task[w].next < Len(task[w].charges) THEN "getCharge" ELSE "commit"
           t   == [task[w] EXCEPT !.step = s, !.next = @ + 1]
<1>1. task[w] \in Task /\ WorkerRight(task[w], v, W) /\ TxnOK(v, W)
  BY Typed
<1>2. task[w].op = "add" /\ task[w].step = "allocate"
  BY DEF AllocateChargeToInvoice, At
<1>3. /\ v # None /\ i \in Invoice /\ IsView(v)
      /\ task[w].charges \in Seq(Charge) /\ task[w].next \in 1 .. Len(task[w].charges)
  BY <1>1, <1>2 DEF WorkerRight, RequestRight, TxnOK, Task
<1>4. c \in Charge /\ c # i /\ i \notin Charge /\ c \in Document
  BY <1>3, IdAssumption DEF Document
<1>5. /\ t \in Task /\ t.op = "add" /\ t.step = s /\ t.invoice = i
      /\ t.event = task[w].event /\ t.charges = task[w].charges
      /\ t.next = task[w].next + 1
  <2>1. s \in {"getCharge", "commit"} /\ task[w].next + 1 \in Nat
    BY <1>1 DEF Task
  <2> HIDE DEF s
  <2> QED BY <1>1, <1>2, <2>1 DEF Task
<1>6. s \in {"getCharge", "commit"} /\ (s = "getCharge" => t.next \in 1 .. Len(t.charges))
  BY <1>3, <1>5
<1>7. Current(t) = {} /\ Current(task[w]) = {c}
  BY <1>2, <1>5, <1>6 DEF Current
<1>8. AddRight(task[w], v, W)
  BY <1>1 DEF WorkerRight
<1>9. v.allocation[c] = NoInvoice
  BY <1>2, <1>3, <1>8 DEF AddRight
<1>10. CASE Throw(w)
  BY <1>10, ThrowStep
<1>11. CASE Retry(w)
  BY <1>3, <1>11, RetryStep
<1>12. CASE i \in related /\ CanWrite(w, {c}) /\ Write(w, {c}, n, t)
  <2> DEFINE all == [v.allocation EXCEPT ![c] = i]
  <2>1. v.allocation \in [Charge -> Invoice \cup {NoInvoice}]
    BY <1>3 DEF IsView
  <2>2. all \in [Charge -> Invoice \cup {NoInvoice}]
    BY <1>3, <2>1
  <2>3. all[c] = i /\ \A x \in Charge \ {c} : all[x] = v.allocation[x]
    BY <1>4, <2>1
  <2>4. n = WithAllocation(v, all)
    BY <1>3 DEF WithAllocation, IsView
  <2>5. v.version[c] = version[c]
    BY <1>3, <1>12 DEF CanWrite, ViewOf
  <2> HIDE DEF n, s, t, all
  <2>6. /\ IsView(n) /\ n.version = v.version /\ n.allocation = all
        /\ n.invoices = v.invoices
    BY <1>3, <2>2, <2>4, ViewWithAllocation
  <2>7. n # None
    BY <2>6, ViewOpen
  <2>8. SnapshotRight(n, W \cup {c})
    <3>1. /\ \A d \in {c} : v.version[d] = version[d]
          /\ \A j \in Invoice \ {c} : n.invoices[j] = v.invoices[j]
          /\ \A x \in Charge \ {c} : n.allocation[x] = v.allocation[x]
      BY <2>3, <2>5, <2>6
    <3>2. SnapshotRight(v, W)
      BY <1>1 DEF WorkerRight
    <3> HIDE DEF c, v
    <3> QED BY <1>3, <2>6, <3>1, <3>2, SnapshotWritten
  <2>9. RequestRight(t, n) /\ Known(t)
    BY <1>1, <1>2, <1>3, <1>5, <1>6, <2>7 DEF WorkerRight, RequestRight, Known
  <2>10. c \notin W
    BY <1>2, <1>3, <1>4, <1>8, <1>9, IdAssumption DEF AddRight
  <2>11. allocation[c] = NoInvoice
    BY <1>1, <1>3, <1>4, <1>9, <2>5, <2>10 DEF WorkerRight, SnapshotRight
  <2>12. AllocatedTo(all, i) = AllocatedTo(v.allocation, i) \cup {c}
    BY <1>4, <2>3 DEF AllocatedTo
  <2>13. AddRight(t, n, W \cup {c})
    <3>1. \A x \in (W \cup {c}) \cap Charge :
             allocation[x] = NoInvoice /\ n.allocation[x] = i
      BY <1>2, <1>3, <1>8, <2>3, <2>6, <2>11 DEF AddRight
    <3>2. i \in W <=> i \in W \cup {c}
      BY <1>4
    <3>3. i \in W => /\ Exists(invoices[i]) /\ v.invoices[i].status = invoices[i].status
                     /\ Range(v.invoices[i].lineItems) =
                           Range(invoices[i].lineItems) \cup ((W \cup {c}) \cap Charge)
      BY <1>2, <1>3, <1>4, <1>7, <1>8 DEF AddRight
    <3>4. i \notin W => ~Exists(invoices[i])
      BY <1>2, <1>3, <1>8 DEF AddRight
    <3>5. i \in W /\ v.invoices[i].status = "DRAFT" =>
             Lists(v.invoices[i], AllocatedTo(all, i) \cup {})
      <4>1. AllocatedTo(all, i) \cup {} = AllocatedTo(v.allocation, i) \cup Current(task[w])
        BY <1>7, <2>12
      <4> QED BY <1>2, <1>3, <1>8, <4>1 DEF AddRight
    <3> QED BY <1>5, <1>6, <1>7, <1>12, <2>6, <3>1, <3>2, <3>3, <3>4, <3>5
            DEF AddRight
  <2>14. WorkerRight(t, n, W \cup {c})
    BY <1>1, <1>4, <1>5, <2>8, <2>9, <2>13, IdAssumption DEF WorkerRight, DeleteRight
  <2> QED BY <1>4, <1>5, <1>12, <2>6, <2>14, WriteStep
<1> HIDE DEF n, t, v
<1>13. Throw(w) \/ Retry(w) \/ (i \in related /\ CanWrite(w, {c}) /\ Write(w, {c}, n, t))
  BY DEF AllocateChargeToInvoice, n, t, v
<1> QED BY <1>10, <1>11, <1>12, <1>13
-------------------------------------------------------------------------------
(***************************************************************************)
(* Steps that others see.                                                  *)
(***************************************************************************)
\* What a transaction has written of an invoice: its own one, which exists.
LEMMA WrittenInvoice ==
    ASSUME IInv, NEW u \in Worker, NEW i \in Invoice, i \in written[u]
    PROVE  /\ task[u].invoice = i /\ view[u] # None /\ task[u].op \in {"add", "delete"}
           /\ Exists(invoices[i])
<1>1. task[u] \in Task /\ TxnOK(view[u], written[u])
      /\ WorkerRight(task[u], view[u], written[u])
  BY Typed
<1>2. task[u].invoice = i /\ view[u] # None
  BY <1>1 DEF WorkerRight, TxnOK
<1>3. task[u].op \in {"add", "delete"}
  BY <1>1, <1>2 DEF WorkerRight, RequestRight, Task
<1>4. CASE task[u].op = "add"
  BY <1>1, <1>2, <1>4 DEF WorkerRight, AddRight
<1>5. CASE task[u].op = "delete"
  BY <1>1, <1>2, <1>5 DEF WorkerRight, DeleteRight, Exists
<1> QED BY <1>2, <1>3, <1>4, <1>5

LEMMA CreateInvoiceStep ==
    ASSUME IInv, NEW w \in Worker, CreateInvoice(w)
    PROVE  IInv'
<1>1. PICK i \in Invoice :
        /\ invoices[i].status = "absent"
        /\ Request(w, [Call("create", i) EXCEPT !.step = "relate"])
        /\ invoices' = [invoices EXCEPT ![i].status = "DRAFT"]
        /\ version' = [version EXCEPT ![i] = @ + 1]
        /\ UNCHANGED <<allocation, related>>
  BY DEF CreateInvoice
<1> DEFINE t == [Call("create", i) EXCEPT !.step = "relate"]
<1>2. /\ t \in Task /\ t.op = "create" /\ t.step = "relate" /\ t.invoice = i
      /\ t.event = NoEvent
  BY CallTyped DEF Task
<1>3. task[w] = Idle /\ task' = [task EXCEPT ![w] = t] /\ UNCHANGED txn
  BY <1>1 DEF Request
<1> HIDE DEF t
<1>4. view[w] = None /\ written[w] = {}
  BY <1>3, IdleWorker
<1>5. view' = [view EXCEPT ![w] = None] /\ written' = [written EXCEPT ![w] = {}]
  BY <1>3, <1>4 DEF IInv, TypeOK, txn
<1>6. DbOK /\ DbRight
  BY Typed DEF IInv
<1>7. invoices[i] = NoLines("absent")
  BY <1>1, <1>6 DEF DbRight
<1>8. [invoices[i] EXCEPT !.status = "DRAFT"] = NoLines("DRAFT")
  BY <1>7 DEF NoLines
<1>9. /\ invoices'[i] = NoLines("DRAFT")
      /\ \A j \in Invoice \ {i} : invoices'[j] = invoices[j]
      /\ invoices' = [j \in Invoice |-> invoices'[j]]
  BY <1>1, <1>6, <1>8 DEF DbOK, AreInvoices
<1>10. IsInvoiceDoc(NoLines("DRAFT")) /\ NoLines("DRAFT").status = "DRAFT"
       /\ Lists(NoLines("DRAFT"), {})
  BY NoLinesRight DEF Status
<1>11. /\ version' \in [Document -> Nat] /\ version'[i] = version[i] + 1
       /\ \A d \in Document \ {i} : version'[d] = version[d]
  BY <1>1, <1>6 DEF DbOK, Document
<1>12. DbOK'
  BY <1>1, <1>6, <1>9, <1>10, <1>11 DEF DbOK, AreInvoices
<1>13. AllocatedTo(allocation, i) = {}
  BY <1>1, <1>6, IdAssumption DEF DbRight, Exists, AllocatedTo
<1>14. DbRight'
  <2>1. \A j \in Invoice :
           /\ invoices'[j].status = "absent" => invoices'[j] = NoLines("absent")
           /\ invoices'[j].status = "DRAFT" => Lists(invoices'[j], AllocatedTo(allocation, j))
           /\ j \in related => invoices'[j].status # "absent"
    BY <1>6, <1>9, <1>10, <1>13 DEF DbRight
  <2>2. \A c \in Charge : allocation[c] # NoInvoice =>
           allocation[c] # i /\ allocation[c] \in Invoice
    BY <1>6, <1>13 DEF AllocatedTo, DbOK
  <2> QED BY <1>1, <1>6, <1>9, <2>1, <2>2 DEF DbRight
<1>15. WorkerRight(t, None, {})'
  BY <1>2, <1>9, <1>10
     DEF WorkerRight, RequestRight, Known, SnapshotRight, AddRight, DeleteRight
<1>16. \A u \in Worker \ {w} : OthersWrite(written[u])
  <2> SUFFICES ASSUME NEW u \in Worker \ {w}
               PROVE  OthersWrite(written[u])
    OBVIOUS
  <2>1. i \notin written[u]
    BY <1>1, WrittenInvoice DEF Exists
  <2>2. \A c \in Charge : c \in Document /\ c # i
    BY IdAssumption DEF Document
  <2>3. \A j \in Invoice : j \in Document
    BY DEF Document
  <2> QED BY <1>1, <1>9, <1>10, <1>11, <2>1, <2>2, <2>3 DEF OthersWrite, Advances
<1> QED BY <1>2, <1>3, <1>5, <1>12, <1>14, <1>15, <1>16, IdleRight, OneWorker

LEMMA RelateStep ==
    ASSUME IInv, NEW w \in Worker, Relate(w)
    PROVE  IInv'
<1>1. /\ At(w, "create", "relate") /\ Done(w) /\ UNCHANGED <<db, calls>>
      /\ related' \in {related, related \cup {task[w].invoice}}
  BY DEF Relate
<1>2. RequestRight(task[w], view[w]) /\ Known(task[w]) /\ DbOK /\ DbRight
  BY Typed DEF WorkerRight, IInv
<1>3. task[w].invoice \in Invoice /\ invoices[task[w].invoice].status # "absent"
  BY <1>1, <1>2 DEF RequestRight, Known, At
<1>4. invoices' = invoices /\ allocation' = allocation /\ version' = version
  BY <1>1 DEF db
<1>5. DbOK'
  BY <1>1, <1>2, <1>3, <1>4 DEF DbOK
<1>6. DbRight'
  BY <1>1, <1>2, <1>3, <1>4 DEF DbRight
<1>7. \A u \in Worker : OthersWrite(written[u])
  BY <1>1, <1>4 DEF OthersWrite
<1> QED BY <1>1, <1>5, <1>6, <1>7, DoneStep

\* A deletion does not rely on the relation once it has taken the charges off.
LEMMA DeletionStays ==
    ASSUME UNCHANGED db, NEW t, NEW v, NEW W, t.op = "delete", WorkerRight(t, v, W)
    PROVE  WorkerRight(t, v, W)'
BY DEF WorkerRight, RequestRight, Known, SnapshotRight, AddRight, DeleteRight, db,
       EventRight

LEMMA UnrelateStep ==
    ASSUME IInv, NEW w \in Worker, Unrelate(w)
    PROVE  IInv'
<1> DEFINE i == task[w].invoice
           v == view[w]
           W == written[w]
           t == [task[w] EXCEPT !.step = "commit"]
<1>1. task[w] \in Task /\ WorkerRight(task[w], v, W) /\ TxnOK(v, W) /\ DbOK /\ DbRight
  BY Typed DEF IInv
<1>2. /\ task[w].op = "delete" /\ task[w].step = "unrelate"
      /\ related' \in {related, related \ {i}} /\ task' = [task EXCEPT ![w] = t]
      /\ invoices' = invoices /\ allocation' = allocation /\ version' = version
      /\ view' = view /\ written' = written
  BY DEF Unrelate, At, Goto, db, txn
<1>3. v # None /\ i \in Invoice
  BY <1>1, <1>2 DEF WorkerRight, RequestRight
<1>4. i \in W /\ invoices[i].status = "DRAFT"
  BY <1>1, <1>2, <1>3 DEF WorkerRight, DeleteRight
<1>5. /\ t \in Task /\ t.op = "delete" /\ t.step = "commit" /\ t.invoice = i
      /\ t.event = task[w].event
  BY <1>1, <1>2 DEF Task
<1> HIDE DEF t
<1>6. DbOK'
  BY <1>1, <1>2 DEF DbOK
<1>7. DbRight'
  BY <1>1, <1>2, <1>4 DEF DbRight, Exists
<1>8. \A u \in Worker : OthersWrite(written[u])
  BY <1>2, <1>4 DEF OthersWrite
<1>9. WorkerRight(t, v, W)
  <2>1. RequestRight(t, v) /\ Known(t)
    BY <1>1, <1>2, <1>3, <1>5 DEF WorkerRight, RequestRight, Known
  <2>2. DeleteRight(t, v, W)
    BY <1>1, <1>2, <1>3, <1>4, <1>5 DEF WorkerRight, DeleteRight
  <2> QED BY <1>1, <1>5, <2>1, <2>2 DEF WorkerRight, AddRight
<1>10. view' = [view EXCEPT ![w] = v] /\ written' = [written EXCEPT ![w] = W]
  BY <1>2 DEF IInv, TypeOK
<1>11. \A u \in Worker \ {w} : W \cap written[u] = {}
  BY DEF IInv, WritersExclude
<1>12. UNCHANGED db
  BY <1>2 DEF db
<1> QED BY <1>1, <1>2, <1>5, <1>6, <1>7, <1>8, <1>9, <1>10, <1>11, <1>12,
           DeletionStays, OneWorker

LEMMA MarkEventStep ==
    ASSUME IInv, NEW w \in Worker, MarkEvent(w)
    PROVE  IInv'
<1> DEFINE i   == task[w].invoice
           new == Applied(invoices[i], task[w].event)
<1>1. At(w, "mark", "write")
  BY DEF MarkEvent
<1>2. /\ task[w] \in Task /\ RequestRight(task[w], view[w]) /\ DbOK /\ DbRight
      /\ TxnOK(view[w], written[w])
  BY Typed DEF WorkerRight, IInv
<1>3. i \in Invoice /\ task[w].event \in Event /\ EventRight(task[w].event)
  BY <1>1, <1>2 DEF RequestRight, At, Task
<1>4. CASE Throw(w)
  BY <1>4, ThrowStep
<1>5. CASE Retry(w)
  BY <1>1, <1>5, RetryStep
<1>6. CASE /\ Exists(invoices[i]) /\ CanWrite(w, {i}) /\ Done(w)
           /\ invoices' = [invoices EXCEPT ![i] = new]
           /\ version' = [version EXCEPT ![i] = @ + 1]
           /\ UNCHANGED <<allocation, related>>
  <2>1. IsInvoiceDoc(invoices[i])
    BY <1>2, <1>3 DEF DbOK, AreInvoices
  <2>2. /\ IsInvoiceDoc(new) /\ new.lineItems = invoices[i].lineItems
        /\ new.status = invoices[i].status \/ new.status \in {"SENT", "PAID", "CANCELLED"}
    BY <1>3, <2>1, AppliedRight
  <2> HIDE DEF new
  <2>3. /\ invoices'[i] = new
        /\ \A j \in Invoice \ {i} : invoices'[j] = invoices[j]
        /\ invoices' = [j \in Invoice |-> invoices'[j]]
    BY <1>2, <1>3, <1>6 DEF DbOK, AreInvoices
  <2>4. /\ version' \in [Document -> Nat] /\ version'[i] = version[i] + 1
        /\ \A d \in Document \ {i} : version'[d] = version[d]
    BY <1>2, <1>3, <1>6 DEF DbOK, Document
  <2> HIDE DEF i
  <2>5. DbOK'
    BY <1>2, <1>6, <2>2, <2>3, <2>4 DEF DbOK, AreInvoices
  <2>6. Exists(new) /\ (new.status = "DRAFT" => invoices[i].status = "DRAFT")
    BY <1>6, <2>2 DEF Exists
  <2>7. DbRight'
    <3>1. \A j \in Invoice :
             /\ invoices'[j].status = "absent" => invoices'[j] = NoLines("absent")
             /\ invoices'[j].status = "DRAFT" =>
                   Lists(invoices'[j], AllocatedTo(allocation, j))
             /\ j \in related => invoices'[j].status # "absent"
      BY <1>2, <1>3, <2>2, <2>3, <2>6 DEF DbRight, Lists, Exists
    <3>2. \A c \in Charge : allocation[c] # NoInvoice =>
             LET doc == invoices'[allocation[c]] IN
             IF Exists(doc) THEN c \in Range(doc.lineItems)
             ELSE allocation[c] \in related
      <4> SUFFICES ASSUME NEW c \in Charge, allocation[c] # NoInvoice
                   PROVE  IF Exists(invoices'[allocation[c]])
                          THEN c \in Range(invoices'[allocation[c]].lineItems)
                          ELSE allocation[c] \in related
        OBVIOUS
      <4>1. allocation[c] \in Invoice
        BY <1>2 DEF DbOK
      <4>2. CASE allocation[c] = i
        BY <1>2, <1>6, <2>2, <2>3, <2>6, <4>2 DEF DbRight
      <4>3. CASE allocation[c] # i
        BY <1>2, <2>3, <4>1, <4>3 DEF DbRight
      <4> QED BY <4>2, <4>3
    <3> QED BY <1>6, <3>1, <3>2 DEF DbRight, Exists
  <2>8. \A u \in Worker \ {w} : OthersWrite(written[u])
    <3> SUFFICES ASSUME NEW u \in Worker \ {w}
                 PROVE  OthersWrite(written[u])
      OBVIOUS
    <3>1. i \notin written[u]
      BY <1>6 DEF CanWrite
    <3>2. \A c \in Charge : c \in Document /\ c # i
      BY <1>3, IdAssumption DEF Document
    <3>3. \A j \in Invoice : j \in Document
      BY DEF Document
    <3> QED BY <1>3, <1>6, <2>2, <2>3, <2>4, <2>6, <3>1, <3>2, <3>3
            DEF OthersWrite, Advances, Exists
  <2> QED BY <1>6, <2>5, <2>7, <2>8, DoneStep
<1>7. Throw(w) \/ Retry(w) \/ (/\ Exists(invoices[i]) /\ CanWrite(w, {i}) /\ Done(w)
                               /\ invoices' = [invoices EXCEPT ![i] = new]
                               /\ version' = [version EXCEPT ![i] = @ + 1]
                               /\ UNCHANGED <<allocation, related>>)
  BY DEF MarkEvent
<1> QED BY <1>4, <1>5, <1>6, <1>7

(***************************************************************************)
(* What a transaction of request t commits.                                *)
(***************************************************************************)
Committing(t, v, W) ==
    /\ t.step = "commit" /\ IsView(v)
    /\ invoices' = [i \in Invoice |-> IF i \in W THEN v.invoices[i] ELSE invoices[i]]
    /\ allocation' = [c \in Charge |-> IF c \in W THEN v.allocation[c]
                                       ELSE allocation[c]]
    /\ version' = [d \in Document |-> IF d \in W THEN version[d] + 1 ELSE version[d]]
    /\ related' = related

LEMMA CommitTyped ==
    ASSUME DbOK, NEW t, NEW v, NEW W, Committing(t, v, W)
    PROVE  DbOK'
BY DEF DbOK, Committing, IsView, AreInvoices

\* The charges are on the invoice, or the invoice is gone.
LEMMA AdditionCommits ==
    ASSUME DbOK, DbRight, NEW t \in Task, t.op = "add", NEW v, NEW W, TxnOK(v, W),
           WorkerRight(t, v, W), Committing(t, v, W)
    PROVE  /\ DbRight'
           /\ \A i \in Invoice \cap W : /\ Exists(invoices'[i])
                                        /\ Advances(invoices[i], invoices'[i])
<1> DEFINE i == t.invoice
<1>1. v # None /\ i \in Invoice /\ Current(t) = {} /\ AddRight(t, v, W) /\ Known(t)
  BY ViewOpen DEF Committing, WorkerRight, RequestRight, Current
<1>2. W \cap Invoice \subseteq {i} /\ i \notin Charge
  BY <1>1, IdAssumption DEF WorkerRight
<1>3. \A c \in W \cap Charge : allocation[c] = NoInvoice /\ allocation'[c] = i
  BY <1>1 DEF AddRight, Committing
<1>4. \A c \in Charge \ W : allocation'[c] = allocation[c]
  BY DEF Committing
<1>5. \A j \in Invoice \ {i} : invoices'[j] = invoices[j]
                               /\ AllocatedTo(allocation', j) = AllocatedTo(allocation, j)
  BY <1>2, <1>3, <1>4, IdAssumption DEF Committing, AllocatedTo
<1>6. CASE i \in W
  <2>1. /\ invoices'[i] = v.invoices[i] /\ Exists(invoices[i])
        /\ invoices'[i].status = invoices[i].status
        /\ Range(invoices'[i].lineItems) =
              Range(invoices[i].lineItems) \cup (W \cap Charge)
    BY <1>1, <1>6 DEF AddRight, Committing
  <2>2. invoices'[i].status = "DRAFT" => Lists(invoices'[i], AllocatedTo(allocation', i))
    <3> SUFFICES ASSUME invoices'[i].status = "DRAFT"
                 PROVE  Lists(invoices'[i], AllocatedTo(allocation', i))
      OBVIOUS
    <3>1. Lists(invoices[i], AllocatedTo(allocation, i))
      BY <1>1, <2>1 DEF DbRight
    <3>2. Range(invoices'[i].lineItems) = AllocatedTo(allocation, i) \cup (W \cap Charge)
      BY <2>1, <3>1 DEF Lists
    <3>3. AllocatedTo(allocation', i) = AllocatedTo(allocation, i) \cup (W \cap Charge)
      BY <1>3, <1>4 DEF AllocatedTo
    <3>4. Lists(invoices'[i], AllocatedTo(v.allocation, i) \cup {})
      BY <1>1, <1>6, <2>1 DEF AddRight
    <3> QED BY <3>2, <3>3, <3>4 DEF Lists
  <2>3. Exists(invoices'[i])
    BY <2>1 DEF Exists
  <2>4. \A j \in Invoice :
           /\ invoices'[j].status = "absent" => invoices'[j] = NoLines("absent")
           /\ invoices'[j].status = "DRAFT" => Lists(invoices'[j], AllocatedTo(allocation', j))
           /\ j \in related' => invoices'[j].status # "absent"
    BY <1>5, <2>1, <2>2, <2>3 DEF DbRight, Exists, Committing
  <2>5. ASSUME NEW c \in Charge, allocation'[c] # NoInvoice
        PROVE  IF Exists(invoices'[allocation'[c]])
               THEN c \in Range(invoices'[allocation'[c]].lineItems)
               ELSE allocation'[c] \in related'
    <3>1. CASE c \in W
      BY <1>3, <2>1, <2>3, <3>1
    <3>2. CASE c \notin W /\ allocation[c] = i
      BY <1>4, <2>1, <2>3, <2>5, <3>2 DEF DbRight
    <3>3. CASE c \notin W /\ allocation[c] # i
      <4>1. allocation'[c] = allocation[c] /\ allocation[c] \in Invoice
        BY <1>4, <2>5, <3>3 DEF DbOK
      <4> QED BY <1>5, <2>5, <3>3, <4>1 DEF DbRight, Committing
    <3> QED BY <3>1, <3>2, <3>3
  <2>6. Advances(invoices[i], invoices'[i])
    BY <2>1 DEF Advances, Exists
  <2> QED BY <1>2, <2>3, <2>4, <2>5, <2>6 DEF DbRight
<1>7. CASE i \notin W
  <2>1. invoices' = invoices /\ W \cap Invoice = {}
    BY <1>2, <1>7 DEF Committing, DbOK, AreInvoices
  <2>2. \A c \in W \cap Charge : ~Exists(invoices[i]) /\ i \in related
    BY <1>1, <1>7 DEF AddRight
  <2>3. \A j \in Invoice : invoices[j].status = "DRAFT" =>
           AllocatedTo(allocation', j) = AllocatedTo(allocation, j)
    <3> SUFFICES ASSUME invoices[i].status = "DRAFT"
                 PROVE  AllocatedTo(allocation', i) = AllocatedTo(allocation, i)
      BY <1>5
    <3>1. W \cap Charge = {}
      BY <2>2 DEF Exists
    <3> QED BY <1>4, <3>1 DEF AllocatedTo
  <2>4. ASSUME NEW c \in Charge, allocation'[c] # NoInvoice
        PROVE  IF Exists(invoices'[allocation'[c]])
               THEN c \in Range(invoices'[allocation'[c]].lineItems)
               ELSE allocation'[c] \in related'
    <3>1. CASE c \in W
      BY <1>3, <2>1, <2>2, <3>1 DEF Committing
    <3>2. CASE c \notin W
      BY <1>4, <2>1, <2>4, <3>2 DEF DbRight, Committing
    <3> QED BY <3>1, <3>2
  <2> QED BY <2>1, <2>3, <2>4 DEF DbRight, Committing
<1> QED BY <1>6, <1>7

\* The charges are off the invoice, which is gone or was no draft any more.
LEMMA DeletionCommits ==
    ASSUME DbOK, DbRight, NEW t \in Task, t.op = "delete", NEW v, NEW W, TxnOK(v, W),
           WorkerRight(t, v, W), Committing(t, v, W)
    PROVE  /\ DbRight'
           /\ \A i \in Invoice \cap W : /\ invoices[i].status = "DRAFT"
                                        /\ Advances(invoices[i], invoices'[i])
<1> DEFINE i == t.invoice
<1>1. v # None /\ i \in Invoice /\ DeleteRight(t, v, W) /\ Known(t)
  BY ViewOpen DEF Committing, WorkerRight, RequestRight
<1>2. W \cap Invoice \subseteq {i} /\ i \notin Charge
  BY <1>1, IdAssumption DEF WorkerRight
<1>3. \A c \in W \cap Charge : allocation[c] = i /\ allocation'[c] = NoInvoice
  BY <1>1 DEF DeleteRight, Committing
<1>4. \A c \in Charge \ W : allocation'[c] = allocation[c]
  BY DEF Committing
<1>5. \A j \in Invoice \ {i} : invoices'[j] = invoices[j]
                               /\ AllocatedTo(allocation', j) = AllocatedTo(allocation, j)
  BY <1>2, <1>3, <1>4, IdAssumption DEF Committing, AllocatedTo
<1>6. CASE i \in W
  <2>1. /\ invoices'[i] = NoLines("deleted") /\ invoices[i].status = "DRAFT"
        /\ Range(invoices[i].lineItems) = W \cap Charge
    BY <1>1, <1>6 DEF DeleteRight, Committing
  <2>2. invoices'[i].status = "deleted"
    BY <2>1 DEF NoLines
  <2>3. AllocatedTo(allocation, i) = W \cap Charge
    BY <1>1, <2>1 DEF DbRight, Lists
  <2>4. ASSUME NEW c \in Charge, allocation'[c] # NoInvoice
        PROVE  IF Exists(invoices'[allocation'[c]])
               THEN c \in Range(invoices'[allocation'[c]].lineItems)
               ELSE allocation'[c] \in related'
    <3>1. c \notin W
      BY <1>3, <2>4
    <3>2. allocation'[c] = allocation[c] /\ allocation[c] \in Invoice /\ allocation[c] # i
      BY <1>4, <2>3, <2>4, <3>1 DEF DbOK, AllocatedTo
    <3> QED BY <1>5, <2>4, <3>2 DEF DbRight, Committing
  <2>5. Advances(invoices[i], invoices'[i])
    BY <2>1, <2>2 DEF Advances
  <2>6. \A j \in Invoice :
           /\ invoices'[j].status = "absent" => invoices'[j] = NoLines("absent")
           /\ invoices'[j].status = "DRAFT" => Lists(invoices'[j], AllocatedTo(allocation', j))
           /\ j \in related' => invoices'[j].status # "absent"
    BY <1>5, <2>2 DEF DbRight, Committing
  <2> QED BY <1>2, <2>1, <2>4, <2>5, <2>6 DEF DbRight
<1>7. CASE i \notin W
  <2>1. invoices' = invoices /\ W \cap Invoice = {}
    BY <1>2, <1>7 DEF Committing, DbOK, AreInvoices
  <2>2. invoices[i].status # "DRAFT"
    BY <1>1, <1>7 DEF DeleteRight, Committing
  <2>3. \A j \in Invoice : invoices[j].status = "DRAFT" =>
           AllocatedTo(allocation', j) = AllocatedTo(allocation, j)
    BY <1>5, <2>2
  <2>4. \A c \in Charge : allocation'[c] # NoInvoice => allocation'[c] = allocation[c]
    BY <1>3, <1>4
  <2> QED BY <2>1, <2>3, <2>4 DEF DbRight, Committing
<1> QED BY <1>6, <1>7

LEMMA CommitStep ==
    ASSUME IInv, NEW w \in Worker, Commit(w)
    PROVE  IInv'
<1> DEFINE v == view[w]
           W == written[w]
<1>1. /\ task[w] \in Task /\ WorkerRight(task[w], v, W) /\ TxnOK(v, W)
      /\ DbOK /\ DbRight
  BY Typed DEF IInv
<1>2. task[w].step = "commit" /\ Done(w)
  BY DEF Commit
<1>3. v # None /\ task[w].op \in {"add", "delete"}
  BY <1>1, <1>2 DEF WorkerRight, RequestRight, Task, Idle
<1>4. Committing(task[w], v, W)
  BY <1>1, <1>3 DEF Commit, Committing, TxnOK
<1>5. DbOK'
  BY <1>1, <1>4, CommitTyped
<1>6. DbRight' /\ \A i \in Invoice \cap W : Advances(invoices[i], invoices'[i])
  BY <1>1, <1>3, <1>4, AdditionCommits, DeletionCommits
<1>7. \A u \in Worker \ {w} : OthersWrite(written[u])
  <2> SUFFICES ASSUME NEW u \in Worker \ {w}
               PROVE  OthersWrite(written[u])
    OBVIOUS
  <2>1. W \cap written[u] = {}
    BY DEF IInv, WritersExclude
  <2> QED BY <1>4, <1>6, <2>1 DEF OthersWrite, Committing, Document
<1> QED BY <1>2, <1>5, <1>6, <1>7, DoneStep
-------------------------------------------------------------------------------
(***************************************************************************)
(* Every step.                                                             *)
(***************************************************************************)
LEMMA ProgressStep ==
    ASSUME IInv, NEW w \in Worker, Progress(w)
    PROVE  IInv'
BY RelateStep, AuthorizeStep, ReadForDeleteStep, UnallocateStep, ReadAgainStep,
   DeleteEventStep, UnrelateStep, GetChargeStep, AddChargeToInvoiceStep,
   AllocateChargeToInvoiceStep, CheckTaxValueStep, ReadForMarkStep, MarkEventStep,
   CommitStep DEF Progress

LEMMA StutterStep ==
    ASSUME IInv, UNCHANGED vars
    PROVE  IInv'
<1>1. UNCHANGED <<db, related>> /\ UNCHANGED <<task, view, written>>
  BY DEF vars, db
<1>2. DbOK' /\ DbRight'
  BY <1>1, DbStays
<1>3. \A w \in Worker : WorkerRight(task[w], view[w], written[w])'
  BY <1>1, Typed, RightStays
<1>4. TypeOK'
  BY <1>1, <1>2 DEF IInv, TypeOK, DbOK
<1>5. WritersExclude'
  BY <1>1 DEF IInv, WritersExclude
<1> QED BY <1>2, <1>3, <1>4, <1>5 DEF IInv

LEMMA InvarianceStep ==
    ASSUME IInv, [Next]_vars
    PROVE  IInv'
<1>1. ASSUME NEW w \in Worker, TransientFault(w)
      PROVE  IInv'
  BY <1>1, RetryStep DEF TransientFault
<1>2. ASSUME NEW w \in Worker, Abort(w)
      PROVE  IInv'
  BY <1>2, ThrowStep DEF Abort
<1> QED BY <1>1, <1>2, StutterStep, CreateInvoiceStep, DeleteInvoiceStep,
           AddChargesToInvoiceStep, MarkInvoiceStep, AddTaxLineItemStep,
           UpdateTaxLineItemStep, RemoveTaxLineItemsStep, ProgressStep DEF Next

LEMMA InitRight ==
    ASSUME Init
    PROVE  IInv
<1>1. IsInvoiceDoc(NoLines("absent")) /\ NoLines("absent").status = "absent"
  BY NoLinesRight DEF Status
<1>2. TypeOK
  BY <1>1, IdleRight DEF Init, TypeOK, AreInvoices
<1>3. DbRight
  BY <1>1 DEF Init, DbRight
<1>4. \A w \in Worker : WorkerRight(task[w], view[w], written[w])
  BY IdleRight DEF Init
<1>5. WritersExclude
  BY DEF Init, WritersExclude
<1> QED BY <1>2, <1>3, <1>4, <1>5 DEF IInv

LEMMA Invariance == Spec => []IInv
BY InitRight, InvarianceStep, PTL DEF Spec
-------------------------------------------------------------------------------
(***************************************************************************)
(* Documents, views and requests have their types at every step of every   *)
(* request, and the total of every document, committed or not, follows from*)
(* its lines and taxes (invoiceCalculatedTotalsReducer is always applied). *)
(***************************************************************************)
THEOREM TypeCorrect == Spec => []TypeOK
<1>1. IInv => TypeOK
  BY DEF IInv
<1> QED BY <1>1, Invariance, PTL

(***************************************************************************)
(* The lines of a draft are the charges allocated to it, each once: the    *)
(* two collections that addChargesToInvoice and deleteInvoice write agree, *)
(* however many requests run, are retried or fail.                         *)
(***************************************************************************)
THEOREM DraftsListTheirCharges == Spec => []DraftLinesAreAllocated
<1>1. IInv => DraftLinesAreAllocated
  BY DEF IInv, DbRight, Lists, Range, AllocatedTo, DraftLinesAreAllocated
<1> QED BY <1>1, Invariance, PTL

(***************************************************************************)
(* A charge allocated to an invoice is on it, or the invoice was deleted   *)
(* and its relation could not be removed.                                  *)
(***************************************************************************)
THEOREM AllocatedChargesAreOnInvoices == Spec => []AllocatedIsOnInvoice
<1>1. IInv => AllocatedIsOnInvoice
  BY DEF IInv, DbRight, Range, AllocatedIsOnInvoice
<1> QED BY <1>1, Invariance, PTL

\* As many lines as charges, when each charge is on one line.
LEMMA LinesCounted ==
    ASSUME NEW doc, IsInvoiceDoc(doc), NEW S, Lists(doc, S)
    PROVE  Len(doc.lineItems) = Cardinality(S)
<1> DEFINE s == doc.lineItems
<1>1. s \in Seq(Charge) /\ Len(s) \in Nat /\ DOMAIN s = 1 .. Len(s)
  BY DEF IsInvoiceDoc
<1>2. Range(s) = S /\ \A m, n \in DOMAIN s : s[m] = s[n] => m = n
  BY DEF Lists
<1>3. s \in Bijection(1 .. Len(s), S)
  <2>1. s \in [1 .. Len(s) -> S]
    BY <1>1, <1>2 DEF Range
  <2> HIDE DEF s
  <2>2. s \in Injection(1 .. Len(s), S)
    BY <1>1, <1>2, <2>1 DEF Injection, IsInjective
  <2>3. s \in Surjection(1 .. Len(s), S)
    BY <1>1, <1>2, <2>1 DEF Surjection, Range
  <2> QED BY <2>2, <2>3 DEF Bijection
<1>4. ExistsBijection(1 .. Len(s), S)
  BY <1>3 DEF ExistsBijection
<1> QED BY <1>1, <1>4, FS_CountingElements

(***************************************************************************)
(* The total of a draft is that of the charges allocated to it and of its  *)
(* taxes, whatever the order in which they came.                           *)
(***************************************************************************)
THEOREM DraftTotals == Spec => []DraftTotalOfAllocated
<1>1. ASSUME IInv, NEW i \in Invoice, invoices[i].status = "DRAFT"
      PROVE  invoices[i].total =
                IF AllocatedTo(allocation, i) = {} THEN 0
                ELSE FinalSum(Amount * Cardinality(AllocatedTo(allocation, i)),
                              invoices[i].taxLineItems)
  <2> DEFINE doc == invoices[i]
             S   == AllocatedTo(allocation, i)
  <2>1. IsInvoiceDoc(doc) /\ Lists(doc, S)
    BY <1>1 DEF IInv, TypeOK, AreInvoices, DbRight
  <2>2. doc.total = TotalOf(doc.lineItems, doc.taxLineItems)
    BY <2>1 DEF IsInvoiceDoc
  <2>3. Len(doc.lineItems) = Cardinality(S)
    BY <2>1, LinesCounted
  <2>4. doc.lineItems = <<>> <=> S = {}
    <3>1. doc.lineItems \in Seq(Charge)
      BY <2>1 DEF IsInvoiceDoc
    <3>2. doc.lineItems # <<>> => 1 \in DOMAIN doc.lineItems
      BY <3>1
    <3>3. doc.lineItems = <<>> => Range(doc.lineItems) = {}
      BY DEF Range
    <3>4. Range(doc.lineItems) = S
      BY <2>1 DEF Lists
    <3> HIDE DEF doc, S
    <3>5. doc.lineItems # <<>> => S # {}
      BY <3>2, <3>4 DEF Range
    <3> QED BY <3>3, <3>4, <3>5
  <2> HIDE DEF doc, S
  <2>5. doc.total = IF S = {} THEN 0
                    ELSE FinalSum(Amount * Cardinality(S), doc.taxLineItems)
    BY <2>2, <2>3, <2>4 DEF TotalOf
  <2> QED BY <2>5 DEF doc, S
<1>2. IInv => DraftTotalOfAllocated
  BY <1>1 DEF DraftTotalOfAllocated, AllocatedTo
<1> QED BY <1>2, Invariance, PTL

(***************************************************************************)
(* No step deletes an invoice that is not a draft, although deleteInvoice  *)
(* reads the status outside of its transaction.                            *)
(***************************************************************************)
THEOREM DeletesOnlyDrafts == Spec => OnlyDraftsDeleted
<1> DEFINE Kept == \A i \in Invoice : invoices'[i].status = "deleted" =>
                       invoices[i].status \in {"DRAFT", "deleted"}
<1>1. ASSUME IInv, [Next]_vars
      PROVE  Kept
  <2>1. CASE UNCHANGED invoices
    BY <2>1
  <2>2. ASSUME NEW w \in Worker, CreateInvoice(w)
        PROVE  Kept
    <3>1. PICK i \in Invoice : invoices' = [invoices EXCEPT ![i].status = "DRAFT"]
      BY <2>2 DEF CreateInvoice
    <3>2. invoices = [j \in Invoice |-> invoices[j]] /\ IsInvoiceDoc(invoices[i])
      BY <1>1 DEF IInv, TypeOK, AreInvoices
    <3>3. invoices'[i].status = "DRAFT" /\ \A j \in Invoice \ {i} : invoices'[j] = invoices[j]
      BY <3>1, <3>2 DEF IsInvoiceDoc
    <3> QED BY <3>3
  <2>3. ASSUME NEW w \in Worker, MarkEvent(w)
        PROVE  Kept
    <3> DEFINE i   == task[w].invoice
               new == Applied(invoices[i], task[w].event)
    <3>1. CASE Throw(w) \/ Retry(w)
      BY <2>1, <3>1 DEF Throw, Retry, db
    <3>2. CASE Exists(invoices[i]) /\ invoices' = [invoices EXCEPT ![i] = new]
      <4>1. task[w] \in Task /\ RequestRight(task[w], view[w]) /\ DbOK
        BY <1>1, Typed DEF WorkerRight
      <4>2. i \in Invoice /\ task[w].event \in Event /\ EventRight(task[w].event)
        BY <2>3, <4>1 DEF MarkEvent, RequestRight, At, Task
      <4>3. IsInvoiceDoc(invoices[i])
        BY <4>1, <4>2 DEF DbOK, AreInvoices
      <4>4. new.status = invoices[i].status \/ new.status \in {"SENT", "PAID", "CANCELLED"}
        BY <4>2, <4>3, AppliedRight
      <4> HIDE DEF new, i
      <4>5. /\ invoices'[i] = new
            /\ \A j \in Invoice \ {i} : invoices'[j] = invoices[j]
        BY <3>2, <4>1, <4>2 DEF DbOK, AreInvoices
      <4> QED BY <3>2, <4>4, <4>5 DEF Exists
    <3> QED BY <2>3, <3>1, <3>2 DEF MarkEvent
  <2>4. ASSUME NEW w \in Worker, Commit(w)
        PROVE  Kept
    <3>1. /\ task[w] \in Task /\ WorkerRight(task[w], view[w], written[w])
          /\ TxnOK(view[w], written[w]) /\ DbOK /\ DbRight
      BY <1>1, Typed DEF IInv
    <3>2. view[w] # None /\ task[w].op \in {"add", "delete"}
      BY <2>4, <3>1 DEF Commit, WorkerRight, RequestRight, Task, Idle
    <3>3. Committing(task[w], view[w], written[w])
      BY <2>4, <3>1, <3>2 DEF Commit, Committing, TxnOK
    <3>4. \A i \in Invoice \cap written[w] :
             Exists(invoices'[i]) \/ invoices[i].status = "DRAFT"
      BY <3>1, <3>2, <3>3, AdditionCommits, DeletionCommits
    <3> QED BY <3>3, <3>4 DEF Committing, Exists
  <2>5. CASE UNCHANGED vars
    BY <2>1, <2>5 DEF vars
  <2>6. ASSUME NEW w \in Worker,
               \/ DeleteInvoice(w) \/ AddChargesToInvoice(w) \/ MarkInvoice(w)
               \/ AddTaxLineItem(w) \/ UpdateTaxLineItem(w) \/ RemoveTaxLineItems(w)
               \/ Relate(w) \/ Authorize(w) \/ ReadForDelete(w) \/ ReadAgain(w)
               \/ Unrelate(w) \/ CheckTaxValue(w) \/ ReadForMark(w)
               \/ TransientFault(w) \/ Abort(w)
        PROVE  Kept
    <3>1. UNCHANGED invoices
      BY <2>6 DEF DeleteInvoice, AddChargesToInvoice, MarkInvoice, AddTaxLineItem,
            UpdateTaxLineItem, RemoveTaxLineItems, Relate, Authorize, ReadForDelete,
            ReadAgain, Unrelate, CheckTaxValue, ReadForMark, TransientFault, Abort,
            Throw, Retry, db
    <3> QED BY <2>1, <3>1
  <2>7. ASSUME NEW w \in Worker,
               \/ UnallocateChargesFromInvoice(w) \/ DeleteEvent(w) \/ GetCharge(w)
               \/ AddChargeToInvoice(w) \/ AllocateChargeToInvoice(w)
        PROVE  Kept
    <3>1. UNCHANGED invoices
      BY <2>7 DEF UnallocateChargesFromInvoice, DeleteEvent, GetCharge,
            AddChargeToInvoice, AllocateChargeToInvoice, Throw, Retry, Write, db
    <3> QED BY <2>1, <3>1
  <2> QED BY <1>1, <2>2, <2>3, <2>4, <2>5, <2>6, <2>7 DEF Next, Progress
<1>2. Spec => [][Kept]_vars
  BY <1>1, Invariance, PTL DEF Spec
<1> QED BY <1>2 DEF OnlyDraftsDeleted
===============================================================================
