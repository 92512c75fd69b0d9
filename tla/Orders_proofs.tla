----------------------------- MODULE Orders_proofs -----------------------------
(***************************************************************************)
(* Proofs about Orders for any workers, orders, line items and inventory.  *)
(***************************************************************************)
EXTENDS Orders, FiniteSetTheorems, TLAPS
-------------------------------------------------------------------------------
(***************************************************************************)
(* What the documents say, committed: inventory is of a line item of a     *)
(* submitted order, and a fulfilment has an item that was created.         *)
(***************************************************************************)
DbRight ==
    /\ \A i \in Item : inventory[i].status # "NONE" =>
          /\ inventory[i].line \in PurchaseLine
          /\ purchaseOrders[PurchaseOrderOf[inventory[i].line]] = "SUBMITTED"
    /\ \A f \in Fulfilment : fulfilments[f].item # NoItem =>
          inventory[fulfilments[f].item].status # "NONE"

(***************************************************************************)
(* What a request t with transaction v has at each step.                   *)
(***************************************************************************)
RequestRight(t, v) ==
    /\ t.op = "idle" => t = Idle /\ v = Closed
    /\ t.op = "submit PO" =>
          /\ t.order \in PurchaseOrder
          /\ t.step \in {"begin", "list", "lines", "waiting", "assign"}
          /\ t.step = "begin" <=> v = Closed
    /\ t.op = "submit SO" =>
          /\ t.step \in {"look", "create"} /\ v = Closed
          /\ t.pending \subseteq t.listed
          /\ t.step = "create" => t.line \in t.pending
    /\ t.op = "receive" =>
          /\ t.step \in {"begin", "receive"}
          /\ t.items # {} /\ t.left \subseteq t.items
          /\ t.step = "receive" => t.item \in t.left

\* The snapshot of a document is as it is now unless it was written since.
SnapshotRight(v) ==
    v # Closed =>
        /\ \A f \in Fulfilment : f \notin v.wrote \cup v.stale =>
              v.fulfilments[f] = fulfilments[f]
        /\ \A i \in Item : i \notin v.wrote \cup v.stale => v.inventory[i] = inventory[i]

(***************************************************************************)
(* A submission has made items that nobody has seen, as many as listed for *)
(* each line item that is done, and has given some of them, each once, to  *)
(* fulfilments that wait for them.                                         *)
(***************************************************************************)
Made(v, l) == {i \in v.wrote \cap Item : v.inventory[i].line = l}

Given(v, f) ==
    /\ fulfilments[f].status = "LIVE" /\ fulfilments[f].item = NoItem
    /\ v.fulfilments[f].item \in v.wrote \cap Item
    /\ v.fulfilments[f] = [fulfilments[f] EXCEPT !.item = v.fulfilments[f].item,
                                                 !.reserved = FALSE]
    /\ v.inventory[v.fulfilments[f].item].line = fulfilments[f].purchaseLine
    /\ \A g \in v.wrote \cap Fulfilment :
          g # f => v.fulfilments[g].item # v.fulfilments[f].item

LinesRight(t, v) ==
    /\ t.pending \subseteq PurchaseLine
    /\ \A l \in t.pending : PurchaseOrderOf[l] = t.order
    /\ \A l \in PurchaseLine :
          IF l \in t.pending THEN Made(v, l) = {}
          ELSE Cardinality(Made(v, l)) = t.ordered[l]

SpareRight(t, v) ==
    /\ t.line \in PurchaseLine
    /\ \A i \in t.spare :
          /\ i \in v.wrote /\ v.inventory[i].line = t.line
          /\ \A f \in v.wrote \cap Fulfilment : v.fulfilments[f].item # i

SubmissionRight(t, v) ==
    t.op = "submit PO" /\ v # Closed =>
        /\ \A i \in v.wrote \cap Item :
              /\ inventory[i].status = "NONE"
              /\ v.inventory[i].line \in PurchaseLine
              /\ PurchaseOrderOf[v.inventory[i].line] = t.order
              /\ v.inventory[i] = OnOrderItem(v.inventory[i].line)
        /\ \A f \in v.wrote \cap Fulfilment : Given(v, f)
        /\ t.step = "list" => v.wrote \cap (Item \cup Fulfilment) = {}
        /\ t.step # "list" => LinesRight(t, v)
        /\ t.step \in {"waiting", "assign"} => SpareRight(t, v)
        /\ t.step = "assign" =>
              \A f \in t.waiting : f \notin v.stale =>
                  /\ fulfilments[f].status = "LIVE" /\ fulfilments[f].item = NoItem
                  /\ fulfilments[f].purchaseLine = t.line

\* A receipt has written the items that are not left.
ReceiptRight(t, v) ==
    t.op = "receive" =>
        IF v = Closed THEN t.left = t.items
        ELSE /\ v.wrote = t.items \ t.left
             /\ \A i \in v.wrote :
                   /\ InStock(i)
                   /\ v.inventory[i] = [inventory[i] EXCEPT !.status = "RECEIVED"]

\* The line items of a sales order that are done have had their fulfilments.
FulfilmentRight(t) ==
    t.op = "submit SO" =>
        \A l \in t.listed \ t.pending : \E f \in Fulfilment :
            fulfilments[f].status # "NONE" /\ fulfilments[f].salesLine = l

WorkerRight(t, v) ==
    /\ RequestRight(t, v)
    /\ SnapshotRight(v)
    /\ SubmissionRight(t, v)
    /\ ReceiptRight(t, v)
    /\ FulfilmentRight(t)

IInv ==
    /\ TypeOK
    /\ DbRight
    /\ DOMAIN tx = Worker
    /\ \A w \in Worker : WorkerRight(task[w], tx[w])
-------------------------------------------------------------------------------
(***************************************************************************)
(* What a step of w is to the others: documents of ds are committed, which *)
(* none of them has written.                                               *)
(***************************************************************************)
Later(v, ds) == IF v = Closed THEN Closed ELSE [v EXCEPT !.stale = @ \cup ds]

Step(w, ds) ==
    /\ \A u \in Worker \ {w} : /\ task'[u] = task[u]
                               /\ tx'[u] = Later(tx[u], ds)
                               /\ Wrote(u) \cap ds = {}
    /\ \A f \in Fulfilment : f \notin ds => fulfilments'[f] = fulfilments[f]
    /\ \A i \in Item : i \notin ds => inventory'[i] = inventory[i]
    /\ \A f \in Fulfilment : fulfilments[f].status # "NONE" =>
          /\ fulfilments'[f].status # "NONE"
          /\ fulfilments'[f].salesLine = fulfilments[f].salesLine

LEMMA LaterIs ==
    ASSUME NEW v \in Transaction \cup {Closed}, NEW ds \in SUBSET Doc
    PROVE  /\ Later(v, ds) \in Transaction \cup {Closed}
           /\ Later(v, ds) = Closed <=> v = Closed
           /\ v # Closed => /\ Later(v, ds).stale = v.stale \cup ds
                            /\ Later(v, ds).wrote = v.wrote
                            /\ Later(v, ds).fulfilments = v.fulfilments
                            /\ Later(v, ds).inventory = v.inventory
           /\ Later(v, {}) = v
BY ClosedAssumption DEF Later, Transaction

LEMMA OpenTyped ==
    ASSUME TypeOK, DOMAIN tx = Worker, NEW w \in Worker
    PROVE  tx[w] \in Transaction \cup {Closed}
BY DEF TypeOK

LEMMA OthersRight ==
    ASSUME IInv, NEW w \in Worker, NEW ds \in SUBSET Doc, Step(w, ds),
           NEW u \in Worker, u # w
    PROVE  WorkerRight(task[u], tx[u])'
<1>1. PICK t : t = task[u]
  OBVIOUS
<1>2. PICK v : v = tx[u]
  OBVIOUS
<1>3. PICK x : x = Later(v, ds)
  OBVIOUS
<1>4. task'[u] = t /\ tx'[u] = x
  BY <1>1, <1>2, <1>3 DEF Step
<1>5. WorkerRight(t, v) /\ v \in Transaction \cup {Closed}
  BY <1>1, <1>2, OpenTyped DEF IInv
<1>6. /\ x = Closed <=> v = Closed
      /\ v # Closed => /\ x.stale = v.stale \cup ds /\ x.wrote = v.wrote
                       /\ x.fulfilments = v.fulfilments /\ x.inventory = v.inventory
  BY <1>3, <1>5, LaterIs
<1>7. v # Closed => v.wrote \cap ds = {}
  BY <1>2 DEF Step, Wrote
<1>8. /\ \A f \in Fulfilment : f \notin ds => fulfilments'[f] = fulfilments[f]
      /\ \A i \in Item : i \notin ds => inventory'[i] = inventory[i]
      /\ \A f \in Fulfilment : fulfilments[f].status # "NONE" =>
            /\ fulfilments'[f].status # "NONE"
            /\ fulfilments'[f].salesLine = fulfilments[f].salesLine
  BY DEF Step
<1>9. RequestRight(t, x)'
  BY <1>5, <1>6 DEF WorkerRight, RequestRight
<1>10. SnapshotRight(x)'
  BY <1>5, <1>6, <1>7, <1>8 DEF WorkerRight, SnapshotRight
<1>11. SubmissionRight(t, x)'
  <2> SUFFICES ASSUME t.op = "submit PO", x # Closed
               PROVE  SubmissionRight(t, x)'
    BY DEF SubmissionRight
  <2>1. v # Closed /\ SubmissionRight(t, v)
    BY <1>5, <1>6 DEF WorkerRight
  <2>2. /\ \A i \in v.wrote \cap Item : inventory'[i] = inventory[i]
        /\ \A f \in v.wrote \cap Fulfilment : fulfilments'[f] = fulfilments[f]
    BY <1>7, <1>8, <2>1
  <2>3. \A i \in x.wrote \cap Item :
              /\ inventory'[i].status = "NONE"
              /\ x.inventory[i].line \in PurchaseLine
              /\ PurchaseOrderOf[x.inventory[i].line] = t.order
              /\ x.inventory[i] = OnOrderItem(x.inventory[i].line)
    BY <1>6, <2>1, <2>2 DEF SubmissionRight
  <2>4. ASSUME NEW f \in x.wrote \cap Fulfilment
        PROVE  Given(x, f)'
    <3>1. Given(v, f) /\ fulfilments'[f] = fulfilments[f]
      BY <1>6, <2>1, <2>2 DEF SubmissionRight
    <3> QED BY <1>6, <2>1, <3>1 DEF Given
  <2>5. \A l : Made(x, l) = Made(v, l)
    BY <1>6, <2>1 DEF Made
  <2>6. t.step # "list" => LinesRight(t, x)'
    BY <2>1, <2>5 DEF SubmissionRight, LinesRight
  <2>7. t.step \in {"waiting", "assign"} => SpareRight(t, x)'
    <3>1. t.step \in {"waiting", "assign"} => SpareRight(t, v)
      BY <2>1 DEF SubmissionRight
    <3> QED BY <1>6, <2>1, <3>1 DEF SpareRight
  <2>8. t.step = "assign" =>
              \A f \in t.waiting : f \notin x.stale =>
                  /\ fulfilments'[f].status = "LIVE" /\ fulfilments'[f].item = NoItem
                  /\ fulfilments'[f].purchaseLine = t.line
    <3>1. t.waiting \subseteq Fulfilment
      BY <1>1 DEF IInv, TypeOK, Task
    <3> QED BY <3>1, <1>6, <1>8, <2>1 DEF SubmissionRight
  <2> QED BY <1>6, <2>1, <2>3, <2>4, <2>6, <2>7, <2>8 DEF SubmissionRight
<1>12. ReceiptRight(t, x)'
  <2> SUFFICES ASSUME t.op = "receive", x # Closed
               PROVE  ReceiptRight(t, x)'
    BY <1>5, <1>6 DEF ReceiptRight, WorkerRight
  <2>1. v # Closed /\ ReceiptRight(t, v)
    BY <1>5, <1>6 DEF WorkerRight
  <2>2. v.wrote \subseteq Item
    <3>1. t.items \subseteq Item
      BY <1>1 DEF IInv, TypeOK, Task
    <3> QED BY <3>1, <2>1 DEF ReceiptRight
  <2>3. \A i \in v.wrote : inventory'[i] = inventory[i]
    BY <1>7, <1>8, <2>1, <2>2
  <2> QED BY <1>6, <2>1, <2>3 DEF ReceiptRight, InStock
<1>13. FulfilmentRight(t)'
  BY <1>5, <1>8 DEF WorkerRight, FulfilmentRight
<1>14. RequestRight(task[u], tx[u])' /\ SnapshotRight(tx[u])'
  BY <1>4, <1>9, <1>10 DEF RequestRight, SnapshotRight
<1>15. SubmissionRight(task[u], tx[u])'
  <2>1. ASSUME NEW f PROVE Given(x, f)' => Given(tx[u], f)'
    BY <1>4 DEF Given
  <2>2. LinesRight(t, x)' => LinesRight(task[u], tx[u])'
    BY <1>4 DEF LinesRight, Made
  <2>3. SpareRight(t, x)' => SpareRight(task[u], tx[u])'
    BY <1>4 DEF SpareRight
  <2> QED BY <1>4, <1>11, <2>1, <2>2, <2>3 DEF SubmissionRight
<1>16. ReceiptRight(task[u], tx[u])' /\ FulfilmentRight(task[u])'
  BY <1>4, <1>12, <1>13 DEF ReceiptRight, FulfilmentRight, InStock
<1> QED BY <1>14, <1>15, <1>16 DEF WorkerRight
Documents ==
    /\ purchaseOrders \in [PurchaseOrder -> {"DRAFT", "SUBMITTED"}]
    /\ purchaseLines \in [PurchaseLine -> Quantity \cup {NoLine}]
    /\ salesOrders \in [SalesOrder -> [status : {"DRAFT", "SUBMITTED"}, deleted : BOOLEAN]]
    /\ salesLines \subseteq SalesLine
    /\ fulfilments \in [Fulfilment -> FulfilmentDoc]
    /\ inventory \in [Item -> InventoryDoc]
    /\ calls \in 0 .. MaxCalls

\* What remains to be shown of a step of w: its documents and its own state.
LEMMA StepRight ==
    ASSUME IInv, NEW w \in Worker, NEW ds \in SUBSET Doc, Step(w, ds),
           NEW t \in Task, NEW v \in Transaction \cup {Closed},
           task' = [task EXCEPT ![w] = t], DOMAIN tx' = Worker, tx'[w] = v,
           v # Closed => /\ t.op \in {"submit PO", "receive"}
                         /\ \A u \in Worker : u # w => Wrote(u) \cap v.wrote = {},
           Documents', DbRight', WorkerRight(t, v)'
    PROVE  IInv'
<1>1. task \in [Worker -> Task] /\ task' \in [Worker -> Task] /\ task'[w] = t
  BY DEF IInv, TypeOK
<1>2. \A u \in Worker : u # w => task'[u] = task[u] /\ tx'[u] = Later(tx[u], ds)
  BY DEF Step
<1>3. \A u \in Worker : tx[u] \in Transaction \cup {Closed}
  BY OpenTyped DEF IInv
<1>4. ASSUME NEW u \in Worker, u # w
      PROVE  /\ tx'[u] \in Transaction \cup {Closed}
             /\ tx'[u] = Closed <=> tx[u] = Closed
             /\ tx'[u] # Closed => tx'[u].wrote = tx[u].wrote
  <2>1. PICK x : x = tx[u]
    OBVIOUS
  <2>2. x \in Transaction \cup {Closed} /\ tx'[u] = Later(x, ds)
    BY <2>1, <1>2, <1>3, <1>4
  <2>3. PICK y : y = Later(x, ds)
    OBVIOUS
  <2>4. /\ y \in Transaction \cup {Closed}
        /\ y = Closed <=> x = Closed
        /\ x # Closed => y.wrote = x.wrote
    BY <2>2, <2>3, LaterIs
  <2> QED BY <2>1, <2>2, <2>3, <2>4
<1>5. \A u \in Worker : u # w => Wrote(u)' = Wrote(u)
  BY <1>4 DEF Wrote
<1>6. Wrote(w)' = IF v = Closed THEN {} ELSE v.wrote
  BY DEF Wrote
<1>7. \A x, u \in Worker : x # u => Wrote(x) \cap Wrote(u) = {}
  BY DEF IInv, TypeOK, Wrote
<1>8. ASSUME NEW x \in Worker, NEW u \in Worker, x # u
      PROVE  Wrote(x)' \cap Wrote(u)' = {}
  <2>1. CASE x # w /\ u # w
    BY <2>1, <1>5, <1>7, <1>8
  <2>2. CASE x = w
    <3>1. Wrote(u)' = Wrote(u) /\ Wrote(w)' \cap Wrote(u) = {}
      BY <2>2, <1>5, <1>6, <1>8
    <3> QED BY <3>1, <2>2
  <2>3. CASE u = w
    <3>1. Wrote(x)' = Wrote(x) /\ Wrote(w)' \cap Wrote(x) = {}
      BY <2>3, <1>5, <1>6, <1>8
    <3> QED BY <3>1, <2>3
  <2> QED BY <2>1, <2>2, <2>3
<1>9. ASSUME NEW u \in Worker, tx'[u] # Closed
      PROVE  /\ tx'[u] \in Transaction
             /\ task'[u].op \in {"submit PO", "receive"}
             /\ \A x \in Worker \ {u} : Wrote(x)' \cap Wrote(u)' = {}
  <2>1. CASE u = w
    BY <2>1, <1>1, <1>8, <1>9
  <2>2. CASE u # w
    BY <2>2, <1>2, <1>4, <1>8, <1>9 DEF IInv, TypeOK
  <2> QED BY <2>1, <2>2
<1>10. \A i \in Item : inventory'[i].status # "NONE" =>
          purchaseOrders'[PurchaseOrderOf[inventory'[i].line]] = "SUBMITTED"
  BY DEF DbRight
<1>11. TypeOK'
  BY <1>1, <1>9, <1>10 DEF TypeOK, Documents
<1>12. ASSUME NEW u \in Worker
       PROVE  WorkerRight(task[u], tx[u])'
  <2>1. CASE u # w
    BY <2>1, OthersRight
  <2>2. CASE u = w
    <3>1. task'[w] = t /\ tx'[w] = v
      BY <1>1
    <3>2. RequestRight(t, v)' /\ SnapshotRight(v)' /\ SubmissionRight(t, v)'
          /\ ReceiptRight(t, v)' /\ FulfilmentRight(t)'
      BY DEF WorkerRight
    <3>3. RequestRight(task[w], tx[w])' /\ SnapshotRight(tx[w])'
      BY <3>1, <3>2 DEF RequestRight, SnapshotRight
    <3>4. SubmissionRight(task[w], tx[w])'
      <4>1. ASSUME NEW f PROVE Given(v, f)' => Given(tx[w], f)'
        BY <3>1 DEF Given
      <4>2. LinesRight(t, v)' => LinesRight(task[w], tx[w])'
        BY <3>1 DEF LinesRight, Made
      <4>3. SpareRight(t, v)' => SpareRight(task[w], tx[w])'
        BY <3>1 DEF SpareRight
      <4> QED BY <3>1, <3>2, <4>1, <4>2, <4>3 DEF SubmissionRight
    <3>5. ReceiptRight(task[w], tx[w])' /\ FulfilmentRight(task[w])'
      BY <3>1, <3>2 DEF ReceiptRight, FulfilmentRight, InStock
    <3> QED BY <2>2, <3>3, <3>4, <3>5 DEF WorkerRight
  <2> QED BY <2>1, <2>2
<1> QED BY <1>11, <1>12 DEF IInv

\* A step that writes nothing to the database.
Quiet(w, t, v) ==
    /\ task' = [task EXCEPT ![w] = t] /\ UNCHANGED calls
    /\ DOMAIN tx' = Worker /\ tx'[w] = v
    /\ \A u \in Worker \ {w} : tx'[u] = tx[u]
    /\ UNCHANGED db

LEMMA QuietRight ==
    ASSUME IInv, NEW w \in Worker, NEW t \in Task, NEW v \in Transaction \cup {Closed},
           Quiet(w, t, v),
           v # Closed => /\ t.op \in {"submit PO", "receive"}
                         /\ \A u \in Worker : u # w => Wrote(u) \cap v.wrote = {},
           WorkerRight(t, v)
    PROVE  IInv'
<1>1. UNCHANGED <<purchaseOrders, purchaseLines, salesOrders, salesLines, fulfilments,
                  inventory, calls>>
  BY DEF Quiet, db
<1>2. Documents' /\ DbRight'
  BY <1>1 DEF IInv, TypeOK, Documents, DbRight
<1>3. {} \in SUBSET Doc
  OBVIOUS
<1>4. Step(w, {})
  <2>1. ASSUME NEW u \in Worker \ {w}
        PROVE  task'[u] = task[u] /\ tx'[u] = Later(tx[u], {})
    BY OpenTyped, LaterIs, <1>3 DEF Quiet, IInv, TypeOK
  <2> QED BY <2>1, <1>1 DEF Step
<1>5. WorkerRight(t, v)'
  BY <1>1 DEF WorkerRight, RequestRight, SnapshotRight, SubmissionRight, ReceiptRight,
              FulfilmentRight, Given, LinesRight, SpareRight, Made, InStock
<1>6. task' = [task EXCEPT ![w] = t] /\ DOMAIN tx' = Worker /\ tx'[w] = v
  BY DEF Quiet
<1> HIDE DEF Quiet
<1> QED BY <1>2, <1>3, <1>4, <1>5, <1>6, StepRight
-------------------------------------------------------------------------------
(***************************************************************************)
(* Requests begin, are tried again and end.                                *)
(***************************************************************************)
LEMMA IdleRight == Idle \in Task /\ WorkerRight(Idle, Closed)
<1>1. Idle \in Task
  BY DEF Idle, Task
<1> QED BY <1>1 DEF WorkerRight, RequestRight, SnapshotRight, SubmissionRight, ReceiptRight,
              FulfilmentRight, Idle

LEMMA TaskTyped ==
    ASSUME TypeOK, NEW w \in Worker
    PROVE  task \in [Worker -> Task] /\ task[w] \in Task
BY DEF TypeOK

\* What w becomes when it closes its transaction, if it has one.
LEMMA CloseQuiet ==
    ASSUME IInv, NEW w \in Worker, NEW t, Become(w, t),
           tx' = [tx EXCEPT ![w] = Closed], UNCHANGED db
    PROVE  Quiet(w, t, Closed)
BY DEF IInv, Become, Quiet

\* ... and when its transaction stays as it is.
LEMMA LocalQuiet ==
    ASSUME IInv, NEW w \in Worker, NEW t, Become(w, t), Local
    PROVE  Quiet(w, t, tx[w])
BY DEF IInv, Become, Local, Quiet

LEMMA LocalRight ==
    ASSUME IInv, NEW w \in Worker, NEW t \in Task, Become(w, t), Local,
           t.op = task[w].op, WorkerRight(t, tx[w])
    PROVE  IInv'
<1>1. PICK v : v = tx[w]
  OBVIOUS
<1>2. Quiet(w, t, v) /\ WorkerRight(t, v)
  BY <1>1, LocalQuiet
<1>3. v \in Transaction \cup {Closed}
  BY <1>1, OpenTyped DEF IInv
<1>4. v # Closed => /\ t.op \in {"submit PO", "receive"}
                    /\ \A u \in Worker : u # w => Wrote(u) \cap v.wrote = {}
  BY <1>1 DEF IInv, TypeOK, Wrote
<1> HIDE DEF Quiet
<1> QED BY <1>2, <1>3, <1>4, QuietRight

LEMMA ThrowRight ==
    ASSUME IInv, NEW w \in Worker, Throw(w)
    PROVE  IInv'
<1>1. Quiet(w, Idle, Closed)
  BY CloseQuiet DEF Throw
<1>2. Closed \in Transaction \cup {Closed}
  OBVIOUS
<1> QED BY <1>1, <1>2, IdleRight, QuietRight

LEMMA OneMore == \A n \in Nat : n + 1 \in Nat
OBVIOUS

LEMMA RetryRight ==
    ASSUME IInv, NEW w \in Worker, task[w].op \in {"submit PO", "receive"}, Retry(w)
    PROVE  IInv'
<1>1. CASE Throw(w)
  BY <1>1, ThrowRight
<1>2. CASE ~Throw(w)
  <2>1. PICK o : o = task[w]
    OBVIOUS
  <2>2. o \in Task /\ RequestRight(o, tx[w]) /\ o.op \in {"submit PO", "receive"}
    BY <2>1, TaskTyped DEF IInv, WorkerRight
  <2>3. PICK t : t = [Idle EXCEPT !.op = o.op, !.step = "begin", !.order = o.order,
                          !.items = o.items, !.left = o.items, !.tries = o.tries + 1]
    OBVIOUS
  <2>4. /\ t.op = o.op /\ t.step = "begin" /\ t.order = o.order /\ t.items = o.items
        /\ t.left = o.items
    BY <2>3 DEF Idle
  <2>5. t \in Task
    <3>1. o.order \in PurchaseOrder \cup SalesOrder \cup {NoOrder} /\ o.items \in SUBSET Item
          /\ o.tries + 1 \in Nat
      <4>1. /\ o.order \in PurchaseOrder \cup SalesOrder \cup {NoOrder}
            /\ o.items \in SUBSET Item /\ o.tries \in Nat
        BY <2>2 DEF Task
      <4> QED BY <4>1, OneMore
    <3> QED BY <3>1, <2>2, <2>3 DEF Task, Idle
  <2>6. WorkerRight(t, Closed)
    <3>1. RequestRight(t, Closed)
      BY <2>2, <2>4 DEF RequestRight
    <3> QED BY <3>1, <2>2, <2>4 DEF WorkerRight, SnapshotRight, SubmissionRight, ReceiptRight,
                FulfilmentRight
  <2>7. Quiet(w, t, Closed)
    BY <1>2, <2>1, <2>3, CloseQuiet DEF Retry
  <2>8. Closed \in Transaction \cup {Closed}
    OBVIOUS
  <2> QED BY <2>5, <2>6, <2>7, <2>8, QuietRight
<1> QED BY <1>1, <1>2

\* A worker without a request has no transaction.
LEMMA IdleClosed ==
    ASSUME IInv, NEW w \in Worker, task[w] = Idle
    PROVE  tx[w] = Closed /\ task = [task EXCEPT ![w] = Idle]
<1>1. task \in [Worker -> Task] /\ RequestRight(task[w], tx[w])
  BY DEF IInv, TypeOK, WorkerRight
<1>2. task[w].op = "idle"
  BY DEF Idle
<1> QED BY <1>1, <1>2 DEF RequestRight

LEMMA CallsCounted ==
    ASSUME IInv, NEW w \in Worker, Counted(w)
    PROVE  calls' \in 0 .. MaxCalls
<1>1. PICK n \in 0 .. MaxCalls : n = calls
  BY DEF IInv, TypeOK
<1>2. n + 1 \in 0 .. MaxCalls
  BY <1>1, BoundsAssumption DEF Counted
<1> QED BY <1>1, <1>2 DEF Counted

\* A step that writes no document that a transaction reads or writes.
LEMMA AsideRight ==
    ASSUME IInv, NEW w \in Worker, NEW t \in Task, tx[w] = Closed,
           task' = [task EXCEPT ![w] = t],
           UNCHANGED <<purchaseOrders, fulfilments, inventory, tx>>,
           Documents', WorkerRight(t, Closed)
    PROVE  IInv'
<1>1. {} \in SUBSET Doc
  OBVIOUS
<1>2. Step(w, {})
  <2>1. ASSUME NEW u \in Worker \ {w}
        PROVE  task'[u] = task[u] /\ tx'[u] = Later(tx[u], {})
    BY OpenTyped, LaterIs, <1>1 DEF IInv, TypeOK
  <2> QED BY <2>1 DEF Step
<1>3. DbRight'
  BY DEF IInv, DbRight
<1>4. WorkerRight(t, Closed)'
  BY DEF WorkerRight, RequestRight, SnapshotRight, SubmissionRight, ReceiptRight,
         FulfilmentRight
<1>5. DOMAIN tx' = Worker /\ tx'[w] = Closed /\ Closed \in Transaction \cup {Closed}
  BY DEF IInv
<1> QED BY <1>1, <1>2, <1>3, <1>4, <1>5, StepRight

LEMMA RequestStep ==
    ASSUME IInv, NEW w \in Worker, NEW t \in Task, Request(w, t), WorkerRight(t, Closed)
    PROVE  IInv'
<1>1. tx[w] = Closed /\ task' = [task EXCEPT ![w] = t]
  BY IdleClosed DEF Request, Counted
<1>2. UNCHANGED <<purchaseOrders, purchaseLines, salesOrders, salesLines, fulfilments,
                  inventory, tx>>
  BY DEF Request, Local, db
<1>3. Documents'
  BY <1>2, CallsCounted DEF Request, IInv, TypeOK, Documents
<1> QED BY <1>1, <1>2, <1>3, AsideRight

LEMMA SubmitPurchaseOrderRight ==
    ASSUME IInv, NEW w \in Worker, SubmitPurchaseOrder(w)
    PROVE  IInv'
<1>1. PICK p \in PurchaseOrder :
          Request(w, [Idle EXCEPT !.op = "submit PO", !.step = "begin", !.order = p])
  BY DEF SubmitPurchaseOrder
<1>2. PICK t : t = [Idle EXCEPT !.op = "submit PO", !.step = "begin", !.order = p]
  OBVIOUS
<1>3. t.op = "submit PO" /\ t.step = "begin" /\ t.order = p
  BY <1>2 DEF Idle
<1>4. t \in Task
  BY <1>2 DEF Task, Idle
<1>5. WorkerRight(t, Closed)
  BY <1>3 DEF WorkerRight, RequestRight, SnapshotRight, SubmissionRight, ReceiptRight,
              FulfilmentRight
<1> QED BY <1>1, <1>2, <1>4, <1>5, RequestStep

LEMMA SubmitSalesOrderRight ==
    ASSUME IInv, NEW w \in Worker, SubmitSalesOrder(w)
    PROVE  IInv'
<1>1. PICK s \in SalesOrder :
          Request(w, [Idle EXCEPT !.op = "submit SO", !.step = "look", !.order = s,
                          !.listed = LinesOf(s), !.pending = LinesOf(s)])
  BY DEF SubmitSalesOrder
<1>2. PICK t : t = [Idle EXCEPT !.op = "submit SO", !.step = "look", !.order = s,
                          !.listed = LinesOf(s), !.pending = LinesOf(s)]
  OBVIOUS
<1>3. t.op = "submit SO" /\ t.step = "look" /\ t.listed = LinesOf(s) /\ t.pending = LinesOf(s)
  BY <1>2 DEF Idle
<1>4. LinesOf(s) \in SUBSET SalesLine
  BY DEF IInv, TypeOK, LinesOf
<1>5. t \in Task
  BY <1>2, <1>4 DEF Task, Idle
<1>6. WorkerRight(t, Closed)
  BY <1>3 DEF WorkerRight, RequestRight, SnapshotRight, SubmissionRight, ReceiptRight,
              FulfilmentRight
<1> QED BY <1>1, <1>2, <1>5, <1>6, RequestStep

LEMMA BulkMarkInventoryReceivedRight ==
    ASSUME IInv, NEW w \in Worker, BulkMarkInventoryReceived(w)
    PROVE  IInv'
<1>1. PICK ids \in SUBSET Item :
          /\ ids # {}
          /\ Request(w, [Idle EXCEPT !.op = "receive", !.step = "begin",
                          !.items = ids, !.left = ids])
  BY DEF BulkMarkInventoryReceived
<1>2. PICK t : t = [Idle EXCEPT !.op = "receive", !.step = "begin",
                          !.items = ids, !.left = ids]
  OBVIOUS
<1>3. t.op = "receive" /\ t.step = "begin" /\ t.items = ids /\ t.left = ids
  BY <1>2 DEF Idle
<1>4. t \in Task
  BY <1>2 DEF Task, Idle
<1>5. WorkerRight(t, Closed)
  BY <1>1, <1>3 DEF WorkerRight, RequestRight, SnapshotRight, SubmissionRight, ReceiptRight,
              FulfilmentRight
<1> QED BY <1>1, <1>2, <1>4, <1>5, RequestStep
-------------------------------------------------------------------------------
(***************************************************************************)
(* The submission of a purchase order.                                     *)
(***************************************************************************)
LEMMA GoesTyped ==
    ASSUME NEW o \in Task, NEW step \in {"idle", "begin", "list", "lines", "waiting", "assign",
                                         "look", "create", "receive"}
    PROVE  [o EXCEPT !.step = step] \in Task
BY DEF Task

\* The step a request is at tells what it is.
LEMMA StepTells ==
    ASSUME NEW t \in Task, NEW v, RequestRight(t, v)
    PROVE  /\ t.step \in {"list", "lines", "waiting", "assign"} =>
                 t.op = "submit PO" /\ t.order \in PurchaseOrder /\ v # Closed
           /\ t.step \in {"look", "create"} => t.op = "submit SO" /\ v = Closed
           /\ t.step = "receive" => t.op = "receive" /\ t.item \in t.left
           /\ v # Closed => t.op \in {"submit PO", "receive"}
<1>1. t.op \in {"idle", "submit PO", "submit SO", "receive"}
  BY DEF Task
<1>2. Idle.step = "idle"
  BY DEF Idle
<1>3. CASE t.op = "idle"
  BY <1>2, <1>3 DEF RequestRight
<1>4. CASE t.op = "submit PO"
  BY <1>4 DEF RequestRight
<1>5. CASE t.op = "submit SO"
  BY <1>5 DEF RequestRight
<1>6. CASE t.op = "receive"
  BY <1>6 DEF RequestRight
<1> QED BY <1>1, <1>3, <1>4, <1>5, <1>6

LEMMA UpdatePurchaseOrderStatusRight ==
    ASSUME IInv, NEW w \in Worker, UpdatePurchaseOrderStatus(w)
    PROVE  IInv'
<1>1. CASE Writable(w, task[w].order)
  <2>1. PICK o : o = task[w]
    OBVIOUS
  <2>2. o \in Task /\ RequestRight(o, tx[w]) /\ o.op = "submit PO"
    BY <2>1, TaskTyped DEF IInv, WorkerRight, UpdatePurchaseOrderStatus
  <2>3. o.order \in PurchaseOrder
    BY <2>2 DEF RequestRight
  <2>4. PICK t : t = [o EXCEPT !.step = "list"]
    OBVIOUS
  <2>5. t \in Task /\ t.op = "submit PO" /\ t.step = "list" /\ t.order = o.order
    <3>1. t \in Task
      BY <2>2, <2>4, GoesTyped
    <3> QED BY <2>2, <2>4, <3>1 DEF Task
  <2>6. PICK v : v = [Snapshot EXCEPT !.wrote = {o.order}]
    OBVIOUS
  <2>7. /\ v \in Transaction
        /\ v.stale = {} /\ v.wrote = {o.order}
        /\ v.fulfilments = fulfilments /\ v.inventory = inventory
    <3>1. {o.order} \in SUBSET Doc
      BY <2>3 DEF Doc
    <3> QED BY <2>6, <3>1 DEF IInv, TypeOK, Snapshot, Transaction
  <2>8. v # Closed
    BY <2>7, ClosedAssumption
  <2>9. WorkerRight(t, v)
    <3>1. RequestRight(t, v)
      BY <2>3, <2>5, <2>8 DEF RequestRight
    <3>2. SnapshotRight(v)
      BY <2>7 DEF SnapshotRight
    <3>3. v.wrote \cap (Item \cup Fulfilment) = {}
      BY <2>3, <2>7, IdAssumption
    <3>4. SubmissionRight(t, v)
      BY <3>3, <2>5 DEF SubmissionRight
    <3> QED BY <3>1, <3>2, <3>4, <2>5 DEF WorkerRight, ReceiptRight, FulfilmentRight
  <2>10. Quiet(w, t, v)
    BY <1>1, <2>1, <2>4, <2>6 DEF UpdatePurchaseOrderStatus, Goto, Become, Quiet, IInv
  <2>11. \A u \in Worker : u # w => Wrote(u) \cap v.wrote = {}
    BY <1>1, <2>1, <2>7 DEF Writable
  <2>12. v \in Transaction \cup {Closed}
    BY <2>7
  <2> HIDE DEF Quiet
  <2> QED BY <2>5, <2>9, <2>10, <2>11, <2>12, QuietRight
<1>2. CASE ~Writable(w, task[w].order)
  BY <1>2, RetryRight DEF UpdatePurchaseOrderStatus
<1> QED BY <1>1, <1>2

LEMMA NothingMade ==
    ASSUME NEW v, v.wrote \cap (Item \cup Fulfilment) = {}, NEW l
    PROVE  Made(v, l) = {} /\ Cardinality(Made(v, l)) = 0
<1>1. Made(v, l) = {}
  BY DEF Made
<1> QED BY <1>1, FS_EmptySet

LEMMA ListLineItemsRight ==
    ASSUME IInv, NEW w \in Worker, ListLineItems(w)
    PROVE  IInv'
<1> DEFINE lines == {l \in PurchaseLine : /\ PurchaseOrderOf[l] = task[w].order
                                          /\ purchaseLines[l] # NoLine}
           ordered == [l \in PurchaseLine |-> IF l \in lines THEN OnOrder(l) ELSE 0]
<1>1. PICK o : o = task[w]
  OBVIOUS
<1>2. PICK v : v = tx[w]
  OBVIOUS
<1>3. o \in Task /\ WorkerRight(o, v) /\ o.step = "list"
  BY <1>1, <1>2, TaskTyped DEF IInv, ListLineItems, At
<1>4. o.op = "submit PO" /\ o.order \in PurchaseOrder /\ v # Closed
  BY <1>3, StepTells DEF WorkerRight
<1>5. ordered \in [PurchaseLine -> Nat]
  <2>1. ASSUME NEW l \in PurchaseLine
        PROVE  OnOrder(l) \in Nat
    BY OrderAssumption DEF IInv, TypeOK, OnOrder
  <2> QED BY <2>1
<1>6. PICK t : t = [o EXCEPT !.step = "lines", !.pending = lines, !.ordered = ordered]
  OBVIOUS
<1>7. /\ t \in Task /\ t.op = "submit PO" /\ t.step = "lines" /\ t.order = o.order
      /\ t.pending = lines /\ t.ordered = ordered
  <2>1. lines \in SUBSET (PurchaseLine \cup SalesLine)
    OBVIOUS
  <2> HIDE DEF lines, ordered
  <2> QED BY <1>3, <1>4, <1>5, <1>6, <2>1 DEF Task
<1>8. WorkerRight(t, v)
  <2>1. RequestRight(t, v)
    BY <1>4, <1>7 DEF RequestRight
  <2>2. v.wrote \cap (Item \cup Fulfilment) = {}
    BY <1>3, <1>4 DEF WorkerRight, SubmissionRight
  <2>3. \A l : Made(v, l) = {} /\ Cardinality(Made(v, l)) = 0
    BY <2>2, NothingMade
  <2>4. LinesRight(t, v)
    BY <1>1, <1>7, <2>3 DEF LinesRight
  <2>5. SubmissionRight(t, v)
    BY <2>2, <2>4, <1>7 DEF SubmissionRight
  <2> QED BY <2>1, <2>5, <1>3, <1>7 DEF WorkerRight, ReceiptRight, FulfilmentRight
<1>9. Become(w, t) /\ Local
  BY <1>1, <1>6 DEF ListLineItems
<1>10. t.op = task[w].op /\ WorkerRight(t, tx[w])
  BY <1>1, <1>2, <1>4, <1>7, <1>8
<1> QED BY <1>7, <1>9, <1>10, LocalRight
LEMMA FirstOf ==
    ASSUME NEW n, NEW ids
    PROVE  First(n, ids) \subseteq ids
BY DEF First

\* The transaction v with the items new made for line item l.
Creating(v, l, new) ==
    [v EXCEPT !.wrote = @ \cup new,
              !.inventory = [i \in Item |-> IF i \in new THEN OnOrderItem(l) ELSE @[i]]]

LEMMA CreatingIs ==
    ASSUME NEW v \in Transaction, NEW l \in PurchaseLine, NEW new \in SUBSET Item,
           NEW x, x = Creating(v, l, new)
    PROVE  /\ x \in Transaction /\ x # Closed
           /\ x.stale = v.stale /\ x.wrote = v.wrote \cup new
           /\ x.fulfilments = v.fulfilments
           /\ \A i \in new : x.inventory[i] = OnOrderItem(l)
           /\ \A i \in Item \ new : x.inventory[i] = v.inventory[i]
<1> DEFINE items == [i \in Item |-> IF i \in new THEN OnOrderItem(l) ELSE v.inventory[i]]
<1>1. OnOrderItem(l) \in InventoryDoc
  BY DEF OnOrderItem, InventoryDoc
<1>2. items \in [Item -> InventoryDoc]
  BY <1>1 DEF Transaction
<1>3. v.wrote \cup new \in SUBSET Doc
  BY DEF Transaction, Doc
<1>4. Creating(v, l, new) = [v EXCEPT !.wrote = v.wrote \cup new, !.inventory = items]
  BY DEF Creating, Transaction
<1>5. /\ \A i \in new : items[i] = OnOrderItem(l)
      /\ \A i \in Item \ new : items[i] = v.inventory[i]
  OBVIOUS
<1> HIDE DEF items
<1>6. /\ x \in Transaction
      /\ x.stale = v.stale /\ x.wrote = v.wrote \cup new
      /\ x.fulfilments = v.fulfilments /\ x.inventory = items
  BY <1>2, <1>3, <1>4 DEF Transaction
<1> QED BY <1>5, <1>6, ClosedAssumption

LEMMA CreateInventoryRight ==
    ASSUME IInv, NEW w \in Worker, CreateInventory(w)
    PROVE  IInv'
<1>1. PICK o : o = task[w]
  OBVIOUS
<1>2. PICK v : v = tx[w]
  OBVIOUS
<1>3. o \in Task /\ WorkerRight(o, v) /\ v \in Transaction \cup {Closed}
  BY <1>1, <1>2, TaskTyped, OpenTyped DEF IInv
<1>4. /\ o.step \in {"lines", "assign"}
      /\ o.op = "submit PO" /\ o.order \in PurchaseOrder /\ v # Closed /\ v \in Transaction
  BY <1>1, <1>3, StepTells DEF CreateInventory, NextLine, At, WorkerRight
<1>5. SubmissionRight(o, v) /\ LinesRight(o, v)
  BY <1>3, <1>4 DEF WorkerRight, SubmissionRight
<1>6. PICK l \in o.pending, new \in SUBSET Item :
         /\ new = First(o.ordered[l], FreeItems(w)) /\ Cardinality(new) = o.ordered[l]
         /\ tx' = [tx EXCEPT ![w].wrote = @ \cup new,
              ![w].inventory = [i \in Item |-> IF i \in new THEN OnOrderItem(l) ELSE @[i]]]
         /\ Become(w, [o EXCEPT !.step = "waiting", !.line = l, !.spare = new,
                            !.pending = @ \ {l}])
         /\ UNCHANGED db
  <2>1. PICK l \in o.pending : \E new :
           /\ new = First(o.ordered[l], FreeItems(w)) /\ Cardinality(new) = o.ordered[l]
           /\ tx' = [tx EXCEPT ![w].wrote = @ \cup new,
                ![w].inventory = [i \in Item |-> IF i \in new THEN OnOrderItem(l) ELSE @[i]]]
           /\ Become(w, [o EXCEPT !.step = "waiting", !.line = l, !.spare = new,
                              !.pending = @ \ {l}])
           /\ UNCHANGED db
    BY <1>1 DEF CreateInventory
  <2>2. First(o.ordered[l], FreeItems(w)) \in SUBSET Item
    BY DEF First, FreeItems
  <2> QED BY <2>1, <2>2
<1>7. l \in PurchaseLine /\ PurchaseOrderOf[l] = o.order /\ Made(v, l) = {}
  BY <1>5, <1>6 DEF LinesRight
<1>8. /\ new \in SUBSET Item
      /\ \A i \in new : /\ inventory[i].status = "NONE" /\ v.inventory[i].status = "NONE"
                        /\ Writable(w, i)
  BY <1>2, <1>6, FirstOf DEF FreeItems
<1>9. new \cap v.wrote = {}
  <2>1. \A i \in v.wrote \cap Item : v.inventory[i].status = "ON_ORDER"
    <3> TAKE i \in v.wrote \cap Item
    <3>1. PICK m : v.inventory[i] = OnOrderItem(m)
      BY <1>4, <1>5 DEF SubmissionRight
    <3> QED BY <3>1 DEF OnOrderItem
  <2> QED BY <1>8, <2>1
<1>10. PICK x : x = Creating(v, l, new)
  OBVIOUS
<1>11. /\ x \in Transaction /\ x # Closed
       /\ x.stale = v.stale /\ x.wrote = v.wrote \cup new
       /\ x.fulfilments = v.fulfilments
       /\ \A i \in new : x.inventory[i] = OnOrderItem(l)
       /\ \A i \in Item \ new : x.inventory[i] = v.inventory[i]
  <2>1. v \in Transaction /\ l \in PurchaseLine /\ new \in SUBSET Item
    BY <1>4, <1>7, <1>8
  <2> QED BY <2>1, <1>10, CreatingIs
<1>12. PICK t : t = [o EXCEPT !.step = "waiting", !.line = l, !.spare = new,
                            !.pending = @ \ {l}]
  OBVIOUS
<1>13. /\ t \in Task /\ t.op = o.op /\ t.step = "waiting" /\ t.order = o.order
       /\ t.line = l /\ t.spare = new /\ t.pending = o.pending \ {l}
       /\ t.ordered = o.ordered
  <2>1. o.pending \ {l} \in SUBSET (PurchaseLine \cup SalesLine)
    BY <1>3 DEF Task
  <2>2. t = [o EXCEPT !.step = "waiting", !.line = l, !.spare = new,
                            !.pending = o.pending \ {l}]
    BY <1>3, <1>12 DEF Task
  <2> QED BY <1>3, <1>7, <1>8, <2>1, <2>2 DEF Task
<1>14. RequestRight(t, x)
  BY <1>4, <1>11, <1>13 DEF RequestRight
<1>15. SnapshotRight(x)
  BY <1>3, <1>4, <1>11 DEF WorkerRight, SnapshotRight
<1>16. \A f \in Fulfilment : f \in x.wrote <=> f \in v.wrote
  BY <1>8, <1>11, IdAssumption
<1>17. SubmissionRight(t, x)
  <2>1. ASSUME NEW i \in x.wrote \cap Item
        PROVE  /\ inventory[i].status = "NONE"
               /\ x.inventory[i].line \in PurchaseLine
               /\ PurchaseOrderOf[x.inventory[i].line] = t.order
               /\ x.inventory[i] = OnOrderItem(x.inventory[i].line)
    <3>1. CASE i \in new
      BY <3>1, <1>7, <1>8, <1>11, <1>13 DEF OnOrderItem
    <3>2. CASE i \notin new
      BY <3>2, <1>4, <1>5, <1>11, <1>13 DEF SubmissionRight
    <3> QED BY <3>1, <3>2
  <2>2. ASSUME NEW f \in x.wrote \cap Fulfilment
        PROVE  Given(x, f)
    <3>1. Given(v, f)
      BY <1>4, <1>5, <1>16 DEF SubmissionRight
    <3>2. v.fulfilments[f].item \notin new /\ v.fulfilments[f].item \in Item
      BY <1>9, <3>1 DEF Given
    <3> QED BY <1>11, <1>16, <3>1, <3>2 DEF Given
  <2>3. LinesRight(t, x)
    <3>1. ASSUME NEW m, m # l
          PROVE  Made(x, m) = Made(v, m)
      BY <1>8, <1>9, <1>11, <3>1 DEF Made, OnOrderItem
    <3>2. Made(x, l) = new
      BY <1>7, <1>8, <1>9, <1>11 DEF Made, OnOrderItem
    <3> QED BY <1>5, <1>6, <1>13, <3>1, <3>2 DEF LinesRight
  <2>4. SpareRight(t, x)
    <3>1. ASSUME NEW i \in new, NEW f \in x.wrote \cap Fulfilment
          PROVE  x.fulfilments[f].item # i
      <4>1. Given(v, f)
        BY <1>4, <1>5, <1>16 DEF SubmissionRight
      <4> QED BY <1>9, <1>11, <4>1 DEF Given
    <3> QED BY <1>7, <1>11, <1>13, <3>1 DEF SpareRight, OnOrderItem
  <2> QED BY <2>1, <2>2, <2>3, <2>4, <1>13 DEF SubmissionRight
<1>18. WorkerRight(t, x)
  BY <1>4, <1>13, <1>14, <1>15, <1>17 DEF WorkerRight, ReceiptRight, FulfilmentRight
<1>19. Quiet(w, t, x)
  <2>1. tx' = [tx EXCEPT ![w] = Creating(v, l, new)]
    BY <1>2, <1>6 DEF Creating
  <2> QED BY <2>1, <1>6, <1>10, <1>12 DEF Quiet, Become, IInv
<1>20. ASSUME NEW u \in Worker, u # w
       PROVE  Wrote(u) \cap x.wrote = {}
  <2>1. Wrote(u) \cap v.wrote = {}
    BY <1>2, <1>4, <1>20 DEF IInv, TypeOK, Wrote
  <2> QED BY <2>1, <1>8, <1>11, <1>20 DEF Writable
<1>21. x \in Transaction \cup {Closed} /\ t.op \in {"submit PO", "receive"}
  BY <1>4, <1>11, <1>13
<1> HIDE DEF Quiet
<1> QED BY <1>13, <1>18, <1>19, <1>20, <1>21, QuietRight

LEMMA ListFulfilmentsRight ==
    ASSUME IInv, NEW w \in Worker, ListFulfilments(w)
    PROVE  IInv'
<1>1. PICK o : o = task[w]
  OBVIOUS
<1>2. PICK v : v = tx[w]
  OBVIOUS
<1>3. o \in Task /\ WorkerRight(o, v) /\ o.step = "waiting"
  BY <1>1, <1>2, TaskTyped DEF IInv, ListFulfilments, At
<1>4. o.op = "submit PO" /\ o.order \in PurchaseOrder /\ v # Closed
  BY <1>3, StepTells DEF WorkerRight
<1>5. PICK ids : ids = First(o.ordered[o.line], Unassigned(o.line))
  OBVIOUS
<1>6. /\ ids \in SUBSET Fulfilment
      /\ \A f \in ids : /\ fulfilments[f].status = "LIVE" /\ fulfilments[f].item = NoItem
                        /\ fulfilments[f].purchaseLine = o.line
  BY <1>5, FirstOf DEF Unassigned
<1>7. PICK t : t = [o EXCEPT !.step = "assign", !.waiting = ids]
  OBVIOUS
<1>8. /\ t \in Task /\ t.op = o.op /\ t.step = "assign" /\ t.order = o.order
      /\ t.line = o.line /\ t.spare = o.spare /\ t.pending = o.pending
      /\ t.ordered = o.ordered /\ t.waiting = ids
  BY <1>3, <1>6, <1>7 DEF Task
<1>9. WorkerRight(t, v)
  <2>1. RequestRight(t, v)
    BY <1>4, <1>8 DEF RequestRight
  <2>2. SubmissionRight(o, v) /\ LinesRight(o, v) /\ SpareRight(o, v)
    BY <1>3, <1>4 DEF WorkerRight, SubmissionRight
  <2>3. LinesRight(t, v) /\ SpareRight(t, v)
    BY <2>2, <1>8 DEF LinesRight, SpareRight
  <2>4. SubmissionRight(t, v)
    BY <2>2, <2>3, <1>4, <1>6, <1>8 DEF SubmissionRight
  <2> QED BY <2>1, <2>4, <1>3, <1>4, <1>8 DEF WorkerRight, ReceiptRight, FulfilmentRight
<1>10. Become(w, t) /\ Local
  BY <1>1, <1>5, <1>7 DEF ListFulfilments
<1>11. t.op = task[w].op /\ WorkerRight(t, tx[w])
  BY <1>1, <1>2, <1>8, <1>9
<1> QED BY <1>8, <1>10, <1>11, LocalRight
Held(doc, i) == [doc EXCEPT !.item = i, !.reserved = FALSE]

\* The transaction v in which fulfilment f has been given item i.
Giving(v, f, i) ==
    [v EXCEPT !.wrote = @ \cup {f},
              !.fulfilments[f] = [@ EXCEPT !.item = i, !.reserved = FALSE]]

LEMMA GivingIs ==
    ASSUME NEW v \in Transaction, NEW f \in Fulfilment, NEW i \in Item,
           NEW x, x = Giving(v, f, i)
    PROVE  /\ x \in Transaction /\ x # Closed
           /\ x.stale = v.stale /\ x.wrote = v.wrote \cup {f}
           /\ x.inventory = v.inventory
           /\ x.fulfilments[f] = Held(v.fulfilments[f], i)
           /\ \A g \in Fulfilment : g # f => x.fulfilments[g] = v.fulfilments[g]
<1>1. PICK doc : doc = [v.fulfilments[f] EXCEPT !.item = i, !.reserved = FALSE]
  OBVIOUS
<1>2. PICK all : all = [v.fulfilments EXCEPT ![f] = doc]
  OBVIOUS
<1>3. v.fulfilments \in [Fulfilment -> FulfilmentDoc] /\ v.wrote \in SUBSET Doc
  BY DEF Transaction
<1>4. v.fulfilments[f] \in FulfilmentDoc
  BY <1>3
<1>5. doc \in FulfilmentDoc
  BY <1>1, <1>4 DEF FulfilmentDoc
<1>6. all \in [Fulfilment -> FulfilmentDoc] /\ all[f] = doc
      /\ \A g \in Fulfilment \ {f} : all[g] = v.fulfilments[g]
  BY <1>2, <1>3, <1>5
<1>7. v.wrote \cup {f} \in SUBSET Doc
  BY <1>3 DEF Doc
<1>8. x = [v EXCEPT !.wrote = v.wrote \cup {f}, !.fulfilments = all]
  <2>1. x = [v EXCEPT !.wrote = v.wrote \cup {f}, !.fulfilments[f] = doc]
    BY <1>1 DEF Giving
  <2> QED BY <2>1, <1>2
<1>9. /\ x \in Transaction
      /\ x.stale = v.stale /\ x.wrote = v.wrote \cup {f}
      /\ x.inventory = v.inventory /\ x.fulfilments = all
  BY <1>6, <1>7, <1>8 DEF Transaction
<1> QED BY <1>1, <1>6, <1>9, ClosedAssumption DEF Held

LEMMA AssignOnOrderRight ==
    ASSUME IInv, NEW w \in Worker, AssignOnOrder(w)
    PROVE  IInv'
<1>1. PICK o : o = task[w]
  OBVIOUS
<1>2. PICK v : v = tx[w]
  OBVIOUS
<1>3. o \in Task /\ WorkerRight(o, v) /\ o.step = "assign" /\ v \in Transaction \cup {Closed}
  BY <1>1, <1>2, TaskTyped, OpenTyped DEF IInv, AssignOnOrder, At
<1>4. o.op = "submit PO" /\ o.order \in PurchaseOrder /\ v # Closed /\ v \in Transaction
  BY <1>3, StepTells DEF WorkerRight
<1>5. SubmissionRight(o, v) /\ LinesRight(o, v) /\ SpareRight(o, v)
  BY <1>3, <1>4 DEF WorkerRight, SubmissionRight
<1>6. PICK f \in o.waiting, i \in o.spare :
        LET done == [o EXCEPT !.waiting = @ \ {f}, !.spare = @ \ {i}] IN
        IF v.fulfilments[f].status # "LIVE"
        THEN Become(w, done) /\ Local
        ELSE IF Conflict(w, f) THEN Retry(w)
        ELSE /\ tx' = [tx EXCEPT ![w].wrote = @ \cup {f},
                   ![w].fulfilments[f] = [@ EXCEPT !.item = i, !.reserved = FALSE]]
             /\ Become(w, done)
             /\ UNCHANGED db
  BY <1>1, <1>2, FirstOf DEF AssignOnOrder
<1>7. f \in Fulfilment /\ i \in Item /\ o.waiting \in SUBSET Fulfilment /\ o.spare \in SUBSET Item
  BY <1>3, <1>6 DEF Task
<1>8. PICK t : t = [o EXCEPT !.waiting = @ \ {f}, !.spare = @ \ {i}]
  OBVIOUS
<1>9. /\ t \in Task /\ t.op = o.op /\ t.step = "assign" /\ t.order = o.order
      /\ t.line = o.line /\ t.pending = o.pending /\ t.ordered = o.ordered
      /\ t.waiting = o.waiting \ {f} /\ t.spare = o.spare \ {i}
  <2>1. t = [o EXCEPT !.waiting = o.waiting \ {f}, !.spare = o.spare \ {i}]
    BY <1>3, <1>8 DEF Task
  <2> QED BY <1>3, <1>7, <2>1 DEF Task
<1>10. CASE v.fulfilments[f].status # "LIVE"
  <2>1. Become(w, t) /\ Local
    BY <1>6, <1>8, <1>10
  <2>2. WorkerRight(t, v)
    <3>1. RequestRight(t, v)
      BY <1>4, <1>9 DEF RequestRight
    <3>2. LinesRight(t, v) /\ SpareRight(t, v)
      BY <1>5, <1>9 DEF LinesRight, SpareRight
    <3>3. SubmissionRight(t, v)
      BY <1>3, <1>4, <1>5, <1>9, <3>2 DEF SubmissionRight
    <3> QED BY <1>3, <1>4, <1>9, <3>1, <3>3 DEF WorkerRight, ReceiptRight, FulfilmentRight
  <2>3. t.op = task[w].op /\ WorkerRight(t, tx[w])
    BY <1>1, <1>2, <1>9, <2>2
  <2> QED BY <1>9, <2>1, <2>3, LocalRight
<1>11. CASE v.fulfilments[f].status = "LIVE" /\ Conflict(w, f)
  BY <1>1, <1>4, <1>6, <1>11, RetryRight
<1>12. CASE v.fulfilments[f].status = "LIVE" /\ ~Conflict(w, f)
  <2>1. f \notin v.stale /\ Writable(w, f)
    BY <1>2, <1>4, <1>12 DEF Conflict
  <2>2. /\ fulfilments[f].status = "LIVE" /\ fulfilments[f].item = NoItem
        /\ fulfilments[f].purchaseLine = o.line
    BY <1>3, <1>4, <1>5, <1>6, <2>1 DEF SubmissionRight
  <2>3. PICK x : x = Giving(v, f, i)
    OBVIOUS
  <2>4. /\ x \in Transaction /\ x # Closed
        /\ x.stale = v.stale /\ x.wrote = v.wrote \cup {f}
        /\ x.inventory = v.inventory
        /\ x.fulfilments[f] = Held(v.fulfilments[f], i)
        /\ \A g \in Fulfilment : g # f => x.fulfilments[g] = v.fulfilments[g]
    <3>1. v \in Transaction /\ f \in Fulfilment /\ i \in Item
      BY <1>4, <1>7
    <3> QED BY <3>1, <2>3, GivingIs
  <2>5. \A j \in Item : j \in x.wrote <=> j \in v.wrote
    BY <1>7, <2>4, IdAssumption
  <2>6. \A m : Made(x, m) = Made(v, m)
    BY <2>4, <2>5 DEF Made
  <2>7. fulfilments[f] \in FulfilmentDoc /\ v.fulfilments[f] \in FulfilmentDoc
    BY <1>4, <1>7 DEF IInv, TypeOK, Transaction
  <2>8. x.fulfilments[f] = [fulfilments[f] EXCEPT !.item = i, !.reserved = FALSE]
        /\ x.fulfilments[f].item = i
    <3>1. CASE f \in v.wrote
      <4>1. v.fulfilments[f] = [fulfilments[f] EXCEPT !.item = v.fulfilments[f].item,
                                                      !.reserved = FALSE]
        BY <1>4, <1>5, <1>7, <3>1 DEF SubmissionRight, Given
      <4> QED BY <2>4, <2>7, <4>1 DEF FulfilmentDoc, Held
    <3>2. CASE f \notin v.wrote
      <4>1. v.fulfilments[f] = fulfilments[f]
        BY <1>3, <1>4, <1>7, <2>1, <3>2 DEF WorkerRight, SnapshotRight
      <4> QED BY <2>4, <2>7, <4>1 DEF FulfilmentDoc, Held
    <3> QED BY <3>1, <3>2
  <2>9. i \in v.wrote /\ v.inventory[i].line = o.line
        /\ \A g \in v.wrote \cap Fulfilment : v.fulfilments[g].item # i
    BY <1>5, <1>6 DEF SpareRight
  <2>10. ASSUME NEW g \in x.wrote \cap Fulfilment
         PROVE  Given(x, g)
    <3>1. CASE g = f
      <4>1. x.fulfilments[g] = [fulfilments[g] EXCEPT !.item = x.fulfilments[g].item,
                                                      !.reserved = FALSE]
        BY <2>8, <3>1
      <4>2. /\ x.fulfilments[g].item \in x.wrote \cap Item
            /\ x.inventory[x.fulfilments[g].item].line = fulfilments[g].purchaseLine
        BY <1>7, <2>2, <2>4, <2>8, <2>9, <3>1
      <4>3. \A h \in x.wrote \cap Fulfilment :
               h # g => x.fulfilments[h].item # x.fulfilments[g].item
        BY <2>4, <2>8, <2>9, <3>1
      <4> QED BY <2>2, <3>1, <4>1, <4>2, <4>3 DEF Given
    <3>2. CASE g # f
      <4>1. g \in v.wrote /\ Given(v, g) /\ x.fulfilments[g] = v.fulfilments[g]
        BY <1>4, <1>5, <2>4, <3>2 DEF SubmissionRight
      <4>2. \A h \in x.wrote \cap Fulfilment :
               h # g => x.fulfilments[h].item # x.fulfilments[g].item
        <5> TAKE h \in x.wrote \cap Fulfilment
        <5>1. CASE h = f
          BY <2>8, <2>9, <4>1, <5>1
        <5>2. CASE h # f
          BY <2>4, <4>1, <5>2 DEF Given
        <5> QED BY <5>1, <5>2
      <4> QED BY <2>4, <4>1, <4>2 DEF Given
    <3> QED BY <3>1, <3>2
  <2>11. LinesRight(t, x)
    BY <1>5, <1>9, <2>6 DEF LinesRight
  <2>12. SpareRight(t, x)
    <3>1. ASSUME NEW j \in t.spare, NEW g \in x.wrote \cap Fulfilment
          PROVE  x.fulfilments[g].item # j
      <4>1. j # i /\ j \in o.spare
        BY <1>9, <3>1
      <4>2. CASE g = f
        BY <2>8, <4>1, <4>2
      <4>3. CASE g # f
        BY <1>5, <2>4, <4>1, <4>3 DEF SpareRight
      <4> QED BY <4>2, <4>3
    <3> QED BY <1>5, <1>9, <2>4, <3>1 DEF SpareRight
  <2>13. SubmissionRight(t, x)
    <3>1. \A j \in x.wrote \cap Item :
              /\ inventory[j].status = "NONE"
              /\ x.inventory[j].line \in PurchaseLine
              /\ PurchaseOrderOf[x.inventory[j].line] = t.order
              /\ x.inventory[j] = OnOrderItem(x.inventory[j].line)
      <4> TAKE j \in x.wrote \cap Item
      <4>1. j \in v.wrote \cap Item /\ x.inventory[j] = v.inventory[j]
        BY <2>4, <2>5
      <4> QED BY <1>4, <1>5, <1>9, <4>1 DEF SubmissionRight
    <3>2. \A g \in t.waiting : g \notin x.stale =>
                  /\ fulfilments[g].status = "LIVE" /\ fulfilments[g].item = NoItem
                  /\ fulfilments[g].purchaseLine = t.line
      BY <1>3, <1>4, <1>5, <1>9, <2>4 DEF SubmissionRight
    <3> QED BY <1>9, <2>10, <2>11, <2>12, <3>1, <3>2 DEF SubmissionRight
  <2>14. WorkerRight(t, x)
    <3>1. RequestRight(t, x)
      BY <1>4, <1>9, <2>4 DEF RequestRight
    <3>2. SnapshotRight(x)
      BY <1>3, <1>4, <2>4, <2>5 DEF WorkerRight, SnapshotRight
    <3> QED BY <1>4, <1>9, <2>13, <3>1, <3>2 DEF WorkerRight, ReceiptRight, FulfilmentRight
  <2>15. Quiet(w, t, x)
    <3>1. tx' = [tx EXCEPT ![w] = Giving(v, f, i)]
      BY <1>2, <1>6, <1>12 DEF Giving
    <3> QED BY <3>1, <1>6, <1>8, <1>12, <2>3 DEF Quiet, Become, IInv
  <2>16. ASSUME NEW u \in Worker, u # w
         PROVE  Wrote(u) \cap x.wrote = {}
    <3>1. Wrote(u) \cap v.wrote = {}
      BY <1>2, <1>4, <2>16 DEF IInv, TypeOK, Wrote
    <3> QED BY <3>1, <2>1, <2>4, <2>16 DEF Writable
  <2>17. x \in Transaction \cup {Closed} /\ t.op \in {"submit PO", "receive"}
    BY <1>4, <1>9, <2>4
  <2> HIDE DEF Quiet
  <2> QED BY <1>9, <2>14, <2>15, <2>16, <2>17, QuietRight
<1> QED BY <1>10, <1>11, <1>12
-------------------------------------------------------------------------------
(***************************************************************************)
(* Steps that write to the database.                                       *)
(***************************************************************************)
LEMMA IdleRightNext == WorkerRight(Idle, Closed)'
BY DEF WorkerRight, RequestRight, SnapshotRight, SubmissionRight, ReceiptRight,
       FulfilmentRight, Idle

LEMMA CommittedIs ==
    ASSUME IInv, NEW w \in Worker, NEW ds, Committed(w, ds)
    PROVE  /\ DOMAIN tx' = Worker /\ tx'[w] = Closed
           /\ \A u \in Worker \ {w} : tx'[u] = Later(tx[u], ds)
BY DEF Committed, Later

LEMMA WrittenAlone ==
    ASSUME IInv, NEW w \in Worker, tx[w] # Closed, NEW u \in Worker, u # w
    PROVE  Wrote(u) \cap tx[w].wrote = {}
BY DEF IInv, TypeOK, Wrote

\* What a submission commits.
LEMMA SubmissionIs ==
    ASSUME IInv, NEW w \in Worker, CommitSubmission(w),
           NEW o, o = task[w], NEW v, v = tx[w]
    PROVE  /\ o \in Task /\ o.op = "submit PO" /\ o.step \in {"lines", "assign"} /\ o.pending = {}
           /\ v # Closed /\ v \in Transaction
           /\ WorkerRight(o, v)
<1>1. o \in Task /\ WorkerRight(o, v) /\ v \in Transaction \cup {Closed}
  BY TaskTyped, OpenTyped DEF IInv
<1>2. o.op = "submit PO" /\ o.step \in {"lines", "assign"} /\ o.pending = {}
  BY DEF CommitSubmission, NextLine, At
<1>3. v # Closed
  BY <1>1, <1>2 DEF WorkerRight, RequestRight
<1> QED BY <1>1, <1>2, <1>3

Committing(o, v) ==
    /\ o.order \in PurchaseOrder
    /\ \A i \in v.wrote \cap Item :
          /\ inventory[i].status = "NONE"
          /\ v.inventory[i].line \in PurchaseLine
          /\ PurchaseOrderOf[v.inventory[i].line] = o.order
          /\ v.inventory[i] = OnOrderItem(v.inventory[i].line)
    /\ \A f \in v.wrote \cap Fulfilment : Given(v, f)
    /\ \A l \in PurchaseLine : Cardinality(Made(v, l)) = o.ordered[l]

LEMMA SubmissionCommits ==
    ASSUME NEW o \in Task, NEW v \in Transaction, WorkerRight(o, v), v # Closed,
           o.op = "submit PO", o.step \in {"lines", "assign"}, o.pending = {}
    PROVE  Committing(o, v)
<1>1. SubmissionRight(o, v) /\ LinesRight(o, v) /\ o.order \in PurchaseOrder
  BY DEF WorkerRight, SubmissionRight, RequestRight
<1>2. \A l \in PurchaseLine : Cardinality(Made(v, l)) = o.ordered[l]
  BY <1>1 DEF LinesRight
<1> QED BY <1>1, <1>2 DEF SubmissionRight, Committing

LEMMA CommitSubmissionRight ==
    ASSUME IInv, NEW w \in Worker, CommitSubmission(w)
    PROVE  IInv'
<1>1. PICK o : o = task[w]
  OBVIOUS
<1>2. PICK v : v = tx[w]
  OBVIOUS
<1>3. v # Closed /\ v \in Transaction /\ Committing(o, v)
  <2>1. /\ o \in Task /\ o.op = "submit PO" /\ o.step \in {"lines", "assign"} /\ o.pending = {}
        /\ v # Closed /\ v \in Transaction /\ WorkerRight(o, v)
    BY <1>1, <1>2, SubmissionIs
  <2> QED BY <2>1, SubmissionCommits
<1>4. /\ o.order \in PurchaseOrder
      /\ \A i \in v.wrote \cap Item :
              /\ inventory[i].status = "NONE"
              /\ v.inventory[i].line \in PurchaseLine
              /\ PurchaseOrderOf[v.inventory[i].line] = o.order
              /\ v.inventory[i] = OnOrderItem(v.inventory[i].line)
      /\ \A f \in v.wrote \cap Fulfilment : Given(v, f)
  BY <1>3 DEF Committing
<1>5. v.wrote \in SUBSET Doc /\ v.fulfilments \in [Fulfilment -> FulfilmentDoc]
      /\ v.inventory \in [Item -> InventoryDoc]
  BY <1>3 DEF Transaction
<1>6. /\ fulfilments' = [f \in Fulfilment |->
             IF f \in v.wrote THEN v.fulfilments[f] ELSE fulfilments[f]]
      /\ inventory' = [i \in Item |-> IF i \in v.wrote THEN v.inventory[i] ELSE inventory[i]]
      /\ purchaseOrders' = [purchaseOrders EXCEPT ![o.order] = "SUBMITTED"]
      /\ UNCHANGED <<purchaseLines, salesOrders, salesLines, calls>>
      /\ Committed(w, v.wrote)
      /\ task' = [task EXCEPT ![w] = Idle]
  BY <1>1, <1>2 DEF CommitSubmission, FulfilmentsAfter, InventoryAfter, Become
<1>7. /\ \A f \in Fulfilment : f \in v.wrote => fulfilments'[f] = v.fulfilments[f]
      /\ \A f \in Fulfilment : f \notin v.wrote => fulfilments'[f] = fulfilments[f]
      /\ \A i \in Item : i \in v.wrote => inventory'[i] = v.inventory[i]
      /\ \A i \in Item : i \notin v.wrote => inventory'[i] = inventory[i]
  BY <1>6
<1>8. Step(w, v.wrote)
  <2>1. ASSUME NEW u \in Worker \ {w}
        PROVE  /\ task'[u] = task[u] /\ tx'[u] = Later(tx[u], v.wrote)
               /\ Wrote(u) \cap v.wrote = {}
    <3>1. task'[u] = task[u]
      BY <1>6, TaskTyped
    <3> QED BY <3>1, <1>2, <1>3, <1>6, CommittedIs, WrittenAlone
  <2>2. ASSUME NEW f \in Fulfilment, fulfilments[f].status # "NONE"
        PROVE  /\ fulfilments'[f].status # "NONE"
               /\ fulfilments'[f].salesLine = fulfilments[f].salesLine
    <3>1. CASE f \in v.wrote
      <4>1. fulfilments[f] \in FulfilmentDoc /\ Given(v, f)
        BY <1>4, <3>1 DEF IInv, TypeOK
      <4>2. v.fulfilments[f].status = fulfilments[f].status
            /\ v.fulfilments[f].salesLine = fulfilments[f].salesLine
        <5>1. PICK i : v.fulfilments[f] = [fulfilments[f] EXCEPT !.item = i, !.reserved = FALSE]
          BY <4>1 DEF Given
        <5> QED BY <4>1, <5>1 DEF FulfilmentDoc
      <4> QED BY <1>7, <2>2, <3>1, <4>2
    <3>2. CASE f \notin v.wrote
      BY <1>7, <2>2, <3>2
    <3> QED BY <3>1, <3>2
  <2> QED BY <1>7, <2>1, <2>2 DEF Step
<1>9. Documents'
  <2>1. purchaseOrders' \in [PurchaseOrder -> {"DRAFT", "SUBMITTED"}]
    BY <1>6 DEF IInv, TypeOK
  <2>2. fulfilments' \in [Fulfilment -> FulfilmentDoc] /\ inventory' \in [Item -> InventoryDoc]
    BY <1>5, <1>6 DEF IInv, TypeOK
  <2> QED BY <1>6, <2>1, <2>2 DEF IInv, TypeOK, Documents
<1>10. DbRight'
  <2>1. \A p \in PurchaseOrder : purchaseOrders[p] = "SUBMITTED" \/ p = o.order =>
            purchaseOrders'[p] = "SUBMITTED"
    BY <1>6 DEF IInv, TypeOK
  <2>2. ASSUME NEW i \in Item, inventory'[i].status # "NONE"
        PROVE  /\ inventory'[i].line \in PurchaseLine
               /\ purchaseOrders'[PurchaseOrderOf[inventory'[i].line]] = "SUBMITTED"
    <3>1. CASE i \in v.wrote
      BY <1>4, <1>7, <2>1, <3>1
    <3>2. CASE i \notin v.wrote
      <4>1. inventory[i].line \in PurchaseLine
            /\ purchaseOrders[PurchaseOrderOf[inventory[i].line]] = "SUBMITTED"
        BY <1>7, <2>2, <3>2 DEF IInv, DbRight
      <4> QED BY <1>7, <2>1, <3>2, <4>1, OrderAssumption
    <3> QED BY <3>1, <3>2
  <2>3. ASSUME NEW f \in Fulfilment, fulfilments'[f].item # NoItem
        PROVE  inventory'[fulfilments'[f].item].status # "NONE"
    <3>1. CASE f \in v.wrote
      <4>1. PICK i \in v.wrote \cap Item : i = v.fulfilments[f].item
        BY <1>4, <3>1 DEF Given
      <4>2. PICK l : inventory'[i] = OnOrderItem(l)
        BY <1>4, <1>7
      <4> QED BY <1>7, <3>1, <4>1, <4>2 DEF OnOrderItem
    <3>2. CASE f \notin v.wrote
      <4>1. fulfilments[f].item # NoItem /\ fulfilments'[f] = fulfilments[f]
        BY <1>7, <2>3, <3>2
      <4>2. fulfilments[f].item \in Item
        BY <4>1 DEF IInv, TypeOK, FulfilmentDoc
      <4>3. inventory[fulfilments[f].item].status # "NONE"
        BY <4>1 DEF IInv, DbRight
      <4> QED BY <1>4, <1>7, <4>1, <4>2, <4>3
    <3> QED BY <3>1, <3>2
  <2> QED BY <2>2, <2>3 DEF DbRight
<1>11. Closed \in Transaction \cup {Closed} /\ DOMAIN tx' = Worker /\ tx'[w] = Closed
  BY <1>6, CommittedIs
<1> QED BY <1>5, <1>6, <1>8, <1>9, <1>10, <1>11, IdleRight, IdleRightNext, StepRight

(***************************************************************************)
(* What others do with a document is one step.  Their requests stay as     *)
(* they are, or move on to t.                                              *)
(***************************************************************************)
LEMMA WriteRight ==
    ASSUME IInv, NEW w \in Worker, NEW t \in Task, NEW d \in Doc,
           tx[w] = Closed, Writable(w, d), Committed(w, {d}),
           task' = [task EXCEPT ![w] = t],
           \A f \in Fulfilment : f # d => fulfilments'[f] = fulfilments[f],
           \A i \in Item : i # d => inventory'[i] = inventory[i],
           \A f \in Fulfilment : fulfilments[f].status # "NONE" =>
              /\ fulfilments'[f].status # "NONE"
              /\ fulfilments'[f].salesLine = fulfilments[f].salesLine,
           Documents', DbRight', WorkerRight(t, Closed)'
    PROVE  IInv'
<1>1. {d} \in SUBSET Doc /\ Closed \in Transaction \cup {Closed}
  OBVIOUS
<1>2. Step(w, {d})
  <2>1. ASSUME NEW u \in Worker \ {w}
        PROVE  /\ task'[u] = task[u] /\ tx'[u] = Later(tx[u], {d})
               /\ Wrote(u) \cap {d} = {}
    BY TaskTyped, CommittedIs DEF Writable, IInv
  <2> QED BY <2>1 DEF Step
<1>3. DOMAIN tx' = Worker /\ tx'[w] = Closed
  BY CommittedIs
<1> QED BY <1>1, <1>2, <1>3, StepRight
LEMMA WritePurchaseLineRight ==
    ASSUME IInv, NEW w \in Worker, WritePurchaseLine(w)
    PROVE  IInv'
<1>1. /\ task[w] = Idle /\ Counted(w)
      /\ UNCHANGED <<purchaseOrders, salesOrders, salesLines, fulfilments, inventory, task, tx>>
  BY DEF WritePurchaseLine, Counted
<1>2. purchaseLines' \in [PurchaseLine -> Quantity \cup {NoLine}]
  BY DEF WritePurchaseLine, IInv, TypeOK
<1>3. Documents'
  BY <1>1, <1>2, CallsCounted DEF IInv, TypeOK, Documents
<1>4. tx[w] = Closed /\ task' = [task EXCEPT ![w] = Idle]
  BY <1>1, IdleClosed
<1> QED BY <1>1, <1>3, <1>4, IdleRight, AsideRight

LEMMA SoftDeleteSalesOrderRight ==
    ASSUME IInv, NEW w \in Worker, SoftDeleteSalesOrder(w)
    PROVE  IInv'
<1>1. /\ task[w] = Idle /\ Counted(w)
      /\ UNCHANGED <<purchaseOrders, purchaseLines, salesLines, fulfilments, inventory, task, tx>>
  BY DEF SoftDeleteSalesOrder, Counted
<1>2. salesOrders' \in [SalesOrder -> [status : {"DRAFT", "SUBMITTED"}, deleted : BOOLEAN]]
  <2>1. PICK s \in SalesOrder : salesOrders' = [salesOrders EXCEPT ![s].deleted = TRUE]
    BY DEF SoftDeleteSalesOrder
  <2>2. PICK doc : doc = [salesOrders[s] EXCEPT !.deleted = TRUE]
    OBVIOUS
  <2>3. doc \in [status : {"DRAFT", "SUBMITTED"}, deleted : BOOLEAN]
    BY <2>2 DEF IInv, TypeOK
  <2>4. salesOrders' = [salesOrders EXCEPT ![s] = doc]
    BY <2>1, <2>2
  <2> QED BY <2>3, <2>4 DEF IInv, TypeOK
<1>3. Documents'
  BY <1>1, <1>2, CallsCounted DEF IInv, TypeOK, Documents
<1>4. tx[w] = Closed /\ task' = [task EXCEPT ![w] = Idle]
  BY <1>1, IdleClosed
<1> QED BY <1>1, <1>3, <1>4, IdleRight, AsideRight

LEMMA SoftDeleteSalesLineRight ==
    ASSUME IInv, NEW w \in Worker, SoftDeleteSalesLine(w)
    PROVE  IInv'
<1>1. /\ task[w] = Idle /\ Counted(w)
      /\ UNCHANGED <<purchaseOrders, purchaseLines, salesOrders, fulfilments, inventory, task, tx>>
  BY DEF SoftDeleteSalesLine, Counted
<1>2. salesLines' \subseteq SalesLine
  BY DEF SoftDeleteSalesLine, IInv, TypeOK
<1>3. Documents'
  BY <1>1, <1>2, CallsCounted DEF IInv, TypeOK, Documents
<1>4. tx[w] = Closed /\ task' = [task EXCEPT ![w] = Idle]
  BY <1>1, IdleClosed
<1> QED BY <1>1, <1>3, <1>4, IdleRight, AsideRight

LEMMA UpdateSalesOrderStatusRight ==
    ASSUME IInv, NEW w \in Worker, UpdateSalesOrderStatus(w)
    PROVE  IInv'
<1>1. tx[w] = Closed
  BY TaskTyped, StepTells DEF IInv, WorkerRight, UpdateSalesOrderStatus, At
<1>2. /\ task' = [task EXCEPT ![w] = Idle]
      /\ UNCHANGED <<purchaseOrders, purchaseLines, salesLines, fulfilments, inventory, tx, calls>>
  BY DEF UpdateSalesOrderStatus, Become
<1>3. salesOrders' \in [SalesOrder -> [status : {"DRAFT", "SUBMITTED"}, deleted : BOOLEAN]]
  BY DEF UpdateSalesOrderStatus, IInv, TypeOK
<1>4. Documents'
  BY <1>2, <1>3 DEF IInv, TypeOK, Documents
<1> QED BY <1>1, <1>2, <1>4, IdleRight, AsideRight

LEMMA GetSalesOrderRight ==
    ASSUME IInv, NEW w \in Worker, GetSalesOrder(w)
    PROVE  IInv'
<1>1. CASE Throw(w)
  BY <1>1, ThrowRight
<1>2. CASE ~Throw(w)
  <2>1. PICK o : o = task[w]
    OBVIOUS
  <2>2. PICK v : v = tx[w]
    OBVIOUS
  <2>3. o \in Task /\ WorkerRight(o, v) /\ o.step = "look"
    BY <2>1, <2>2, TaskTyped DEF IInv, GetSalesOrder, At
  <2>4. o.op = "submit SO" /\ v = Closed
    BY <2>3, StepTells DEF WorkerRight
  <2>5. PICK l \in o.pending : Become(w, [o EXCEPT !.step = "create", !.line = l]) /\ Local
    BY <1>2, <2>1 DEF GetSalesOrder
  <2>6. PICK t : t = [o EXCEPT !.step = "create", !.line = l]
    OBVIOUS
  <2>7. /\ t \in Task /\ t.op = o.op /\ t.step = "create" /\ t.line = l
        /\ t.pending = o.pending /\ t.listed = o.listed
    <3>1. l \in PurchaseLine \cup SalesLine \cup {NoLine}
      BY <2>3, <2>5 DEF Task
    <3> QED BY <2>3, <2>6, <3>1 DEF Task
  <2>8. WorkerRight(t, v)
    BY <2>3, <2>4, <2>5, <2>7 DEF WorkerRight, RequestRight, SnapshotRight, SubmissionRight,
                                 ReceiptRight, FulfilmentRight
  <2>9. Become(w, t) /\ t.op = task[w].op /\ WorkerRight(t, tx[w])
    BY <2>1, <2>2, <2>5, <2>6, <2>7, <2>8
  <2> QED BY <2>5, <2>7, <2>9, LocalRight
<1> QED BY <1>1, <1>2

\* A fulfilment is made, changed or deleted.
LEMMA UpdateFulfilmentRight ==
    ASSUME IInv, NEW w \in Worker, NEW f \in Fulfilment, NEW doc \in FulfilmentDoc,
           UpdateFulfilment(w, f, doc), doc.status # "NONE",
           doc.salesLine = fulfilments[f].salesLine,
           doc.item # NoItem => inventory[doc.item].status # "NONE"
    PROVE  IInv'
<1>1. /\ Counted(w) /\ Writable(w, f) /\ Committed(w, {f})
      /\ fulfilments' = [fulfilments EXCEPT ![f] = doc]
      /\ UNCHANGED <<purchaseOrders, purchaseLines, salesOrders, salesLines, inventory, task>>
  BY DEF UpdateFulfilment
<1>2. tx[w] = Closed /\ task' = [task EXCEPT ![w] = Idle]
  BY <1>1, IdleClosed DEF Counted
<1>3. /\ fulfilments' \in [Fulfilment -> FulfilmentDoc] /\ fulfilments'[f] = doc
      /\ \A g \in Fulfilment : g # f => fulfilments'[g] = fulfilments[g]
  BY <1>1 DEF IInv, TypeOK
<1>4. Documents'
  BY <1>1, <1>3, CallsCounted DEF IInv, TypeOK, Documents
<1>5. DbRight'
  BY <1>1, <1>3 DEF IInv, DbRight
<1>6. \A g \in Fulfilment : fulfilments[g].status # "NONE" =>
          /\ fulfilments'[g].status # "NONE"
          /\ fulfilments'[g].salesLine = fulfilments[g].salesLine
  BY <1>3
<1>7. f \in Doc /\ \A i \in Item : i # f => inventory'[i] = inventory[i]
  BY <1>1 DEF Doc
<1> QED BY <1>1, <1>2, <1>3, <1>4, <1>5, <1>6, <1>7, IdleRight, IdleRightNext, WriteRight

LEMMA AssignInventoryRight ==
    ASSUME IInv, NEW w \in Worker, AssignInventory(w)
    PROVE  IInv'
<1>1. PICK f \in Fulfilment, i \in Item :
        /\ InStock(i)
        /\ UpdateFulfilment(w, f, [fulfilments[f] EXCEPT
               !.item = i, !.reserved = TRUE, !.purchaseLine = inventory[i].line])
  BY DEF AssignInventory
<1>2. PICK doc : doc = [fulfilments[f] EXCEPT
               !.item = i, !.reserved = TRUE, !.purchaseLine = inventory[i].line]
  OBVIOUS
<1>3. fulfilments[f] \in FulfilmentDoc /\ inventory[i] \in InventoryDoc
      /\ fulfilments[f].status = "LIVE"
  BY <1>1 DEF IInv, TypeOK, UpdateFulfilment
<1>4. /\ doc \in FulfilmentDoc /\ doc.status = "LIVE" /\ doc.item = i
      /\ doc.salesLine = fulfilments[f].salesLine
  BY <1>2, <1>3 DEF FulfilmentDoc, InventoryDoc
<1>5. inventory[i].status # "NONE"
  BY <1>1 DEF InStock
<1> QED BY <1>1, <1>2, <1>4, <1>5, UpdateFulfilmentRight

LEMMA UnassignInventoryRight ==
    ASSUME IInv, NEW w \in Worker, UnassignInventory(w)
    PROVE  IInv'
<1>1. PICK f \in Fulfilment :
          UpdateFulfilment(w, f, [fulfilments[f] EXCEPT !.item = NoItem, !.reserved = FALSE])
  BY DEF UnassignInventory
<1>2. PICK doc : doc = [fulfilments[f] EXCEPT !.item = NoItem, !.reserved = FALSE]
  OBVIOUS
<1>3. fulfilments[f] \in FulfilmentDoc /\ fulfilments[f].status = "LIVE"
  BY <1>1 DEF IInv, TypeOK, UpdateFulfilment
<1>4. /\ doc \in FulfilmentDoc /\ doc.status = "LIVE" /\ doc.item = NoItem
      /\ doc.salesLine = fulfilments[f].salesLine
  BY <1>2, <1>3 DEF FulfilmentDoc
<1> QED BY <1>1, <1>2, <1>4, UpdateFulfilmentRight

LEMMA SetPurchaseOrderLineItemIdRight ==
    ASSUME IInv, NEW w \in Worker, SetPurchaseOrderLineItemId(w)
    PROVE  IInv'
<1>1. PICK f \in Fulfilment, l \in PurchaseLine \cup {NoLine} :
          UpdateFulfilment(w, f, [fulfilments[f] EXCEPT !.purchaseLine = l])
  BY DEF SetPurchaseOrderLineItemId
<1>2. PICK doc : doc = [fulfilments[f] EXCEPT !.purchaseLine = l]
  OBVIOUS
<1>3. fulfilments[f] \in FulfilmentDoc /\ fulfilments[f].status = "LIVE"
  BY <1>1 DEF IInv, TypeOK, UpdateFulfilment
<1>4. /\ doc \in FulfilmentDoc /\ doc.status = "LIVE" /\ doc.item = fulfilments[f].item
      /\ doc.salesLine = fulfilments[f].salesLine
  BY <1>2, <1>3 DEF FulfilmentDoc
<1>5. doc.item # NoItem => inventory[doc.item].status # "NONE"
  BY <1>4 DEF IInv, DbRight
<1> QED BY <1>1, <1>2, <1>4, <1>5, UpdateFulfilmentRight

LEMMA DeleteFulfilmentRight ==
    ASSUME IInv, NEW w \in Worker, DeleteFulfilment(w)
    PROVE  IInv'
<1>1. PICK f \in Fulfilment :
          UpdateFulfilment(w, f, [fulfilments[f] EXCEPT !.status = "DELETED"])
  BY DEF DeleteFulfilment
<1>2. PICK doc : doc = [fulfilments[f] EXCEPT !.status = "DELETED"]
  OBVIOUS
<1>3. fulfilments[f] \in FulfilmentDoc
  BY DEF IInv, TypeOK
<1>4. /\ doc \in FulfilmentDoc /\ doc.status = "DELETED" /\ doc.item = fulfilments[f].item
      /\ doc.salesLine = fulfilments[f].salesLine
  BY <1>2, <1>3 DEF FulfilmentDoc
<1>5. doc.item # NoItem => inventory[doc.item].status # "NONE"
  BY <1>4 DEF IInv, DbRight
<1> QED BY <1>1, <1>2, <1>4, <1>5, UpdateFulfilmentRight
LEMMA CreateFulfilmentRight ==
    ASSUME IInv, NEW w \in Worker, CreateFulfilment(w)
    PROVE  IInv'
<1>1. PICK o : o = task[w]
  OBVIOUS
<1>2. o \in Task /\ WorkerRight(o, tx[w]) /\ o.step = "create"
  BY <1>1, TaskTyped DEF IInv, CreateFulfilment, At
<1>3. o.op = "submit SO" /\ tx[w] = Closed
  BY <1>2, StepTells DEF WorkerRight
<1>4. o.line \in o.pending /\ o.pending \subseteq o.listed /\ FulfilmentRight(o)
  BY <1>2, <1>3 DEF WorkerRight, RequestRight
<1>5. o.listed \subseteq SalesLine
  BY <1>2 DEF Task
<1>6. PICK f \in {g \in Fulfilment : fulfilments[g].status = "NONE"} :
        /\ fulfilments' = [fulfilments EXCEPT
               ![f] = [NoFulfilment EXCEPT !.status = "LIVE", !.salesLine = o.line]]
        /\ Committed(w, {f})
  BY <1>1, FirstOf DEF CreateFulfilment
<1>7. PICK doc : doc = [NoFulfilment EXCEPT !.status = "LIVE", !.salesLine = o.line]
  OBVIOUS
<1>8. doc \in FulfilmentDoc /\ doc.status = "LIVE" /\ doc.salesLine = o.line
      /\ doc.item = NoItem
  <2>1. o.line \in SalesLine
    BY <1>4, <1>5
  <2> QED BY <1>7, <2>1 DEF FulfilmentDoc, NoFulfilment
<1>9. /\ fulfilments' \in [Fulfilment -> FulfilmentDoc] /\ fulfilments'[f] = doc
      /\ \A g \in Fulfilment : g # f => fulfilments'[g] = fulfilments[g]
  BY <1>6, <1>7, <1>8 DEF IInv, TypeOK
<1>10. PICK t : t = [o EXCEPT !.step = "look", !.pending = @ \ {o.line}]
  OBVIOUS
<1>11. /\ t \in Task /\ t.op = o.op /\ t.step = "look" /\ t.listed = o.listed
       /\ t.pending = o.pending \ {o.line}
  <2>1. t = [o EXCEPT !.step = "look", !.pending = o.pending \ {o.line}]
    BY <1>2, <1>10 DEF Task
  <2>2. o.pending \ {o.line} \in SUBSET (PurchaseLine \cup SalesLine)
    BY <1>2 DEF Task
  <2> QED BY <1>2, <2>1, <2>2 DEF Task
<1>12. /\ task' = [task EXCEPT ![w] = t]
       /\ UNCHANGED <<purchaseOrders, purchaseLines, salesOrders, salesLines, inventory, calls>>
  BY <1>1, <1>10 DEF CreateFulfilment, Become
<1>13. WorkerRight(t, Closed)'
  <2>1. FulfilmentRight(t)'
    <3>1. ASSUME NEW l \in t.listed \ t.pending
          PROVE  \E g \in Fulfilment :
                    fulfilments'[g].status # "NONE" /\ fulfilments'[g].salesLine = l
      <4>1. CASE l = o.line
        BY <1>8, <1>9, <4>1
      <4>2. CASE l # o.line
        <5>1. PICK g \in Fulfilment :
                  fulfilments[g].status # "NONE" /\ fulfilments[g].salesLine = l
          BY <1>3, <1>4, <1>11, <4>2 DEF FulfilmentRight
        <5>2. g # f
          BY <1>6, <5>1
        <5> QED BY <1>9, <5>1, <5>2
      <4> QED BY <4>1, <4>2
    <3> QED BY <3>1 DEF FulfilmentRight
  <2>2. RequestRight(t, Closed)'
    BY <1>3, <1>4, <1>11 DEF RequestRight
  <2> QED BY <1>3, <1>11, <2>1, <2>2 DEF WorkerRight, SnapshotRight, SubmissionRight,
                                         ReceiptRight
<1>14. Writable(w, f)
  <2> SUFFICES ASSUME NEW u \in Worker, tx[u] # Closed, f \in tx[u].wrote
               PROVE  FALSE
    BY DEF Writable, Wrote
  <2>1. PICK q : q = task[u]
    OBVIOUS
  <2>2. PICK v : v = tx[u]
    OBVIOUS
  <2>3. q \in Task /\ WorkerRight(q, v) /\ v # Closed /\ f \in v.wrote
    BY <2>1, <2>2, TaskTyped DEF IInv
  <2>4. q.op \in {"submit PO", "receive"}
    BY <2>3, StepTells DEF WorkerRight
  <2>5. CASE q.op = "submit PO"
    BY <1>6, <2>3, <2>5 DEF WorkerRight, SubmissionRight, Given
  <2>6. CASE q.op = "receive"
    <3>1. f \in q.items /\ q.items \subseteq Item
      BY <2>3, <2>6 DEF WorkerRight, ReceiptRight, Task
    <3> QED BY <1>6, <3>1, IdAssumption
  <2> QED BY <2>4, <2>5, <2>6
<1>15. Documents'
  BY <1>9, <1>12 DEF IInv, TypeOK, Documents
<1>16. DbRight'
  BY <1>8, <1>9, <1>12 DEF IInv, DbRight
<1>17. \A g \in Fulfilment : fulfilments[g].status # "NONE" =>
          /\ fulfilments'[g].status # "NONE"
          /\ fulfilments'[g].salesLine = fulfilments[g].salesLine
  BY <1>6, <1>9
<1>18. f \in Doc /\ \A i \in Item : i # f => inventory'[i] = inventory[i]
  BY <1>6, <1>12 DEF Doc
<1> QED BY <1>3, <1>6, <1>9, <1>11, <1>12, <1>13, <1>14, <1>15, <1>16, <1>17, <1>18, WriteRight

LEMMA DeleteInventoryRight ==
    ASSUME IInv, NEW w \in Worker, DeleteInventory(w)
    PROVE  IInv'
<1>1. PICK i \in Item :
        /\ InStock(i) /\ Writable(w, i)
        /\ inventory' = [inventory EXCEPT ![i].status = "DELETED"]
        /\ Committed(w, {i})
  BY DEF DeleteInventory
<1>2. PICK doc : doc = [inventory[i] EXCEPT !.status = "DELETED"]
  OBVIOUS
<1>3. inventory[i] \in InventoryDoc
  BY DEF IInv, TypeOK
<1>4. doc \in InventoryDoc /\ doc.status = "DELETED" /\ doc.line = inventory[i].line
  BY <1>2, <1>3 DEF InventoryDoc
<1>5. inventory' = [inventory EXCEPT ![i] = doc]
  BY <1>1, <1>2
<1>6. /\ inventory' \in [Item -> InventoryDoc] /\ inventory'[i] = doc
      /\ \A j \in Item : j # i => inventory'[j] = inventory[j]
  BY <1>4, <1>5 DEF IInv, TypeOK
<1>7. /\ Counted(w)
      /\ UNCHANGED <<purchaseOrders, purchaseLines, salesOrders, salesLines, fulfilments, task>>
  BY DEF DeleteInventory
<1>8. tx[w] = Closed /\ task' = [task EXCEPT ![w] = Idle]
  BY <1>7, IdleClosed DEF Counted
<1>9. Documents'
  BY <1>6, <1>7, CallsCounted DEF IInv, TypeOK, Documents
<1>10. inventory[i].status # "NONE"
  BY <1>1 DEF InStock
<1>11. \A j \in Item : /\ inventory'[j].status # "NONE" <=> inventory[j].status # "NONE"
                       /\ inventory'[j].line = inventory[j].line
  BY <1>4, <1>6, <1>10
<1>12. DbRight'
  <2>1. \A f \in Fulfilment : fulfilments[f].item # NoItem => fulfilments[f].item \in Item
    BY DEF IInv, TypeOK, FulfilmentDoc
  <2> QED BY <1>7, <1>11, <2>1 DEF IInv, DbRight
<1>13. i \in Doc /\ \A f \in Fulfilment : fulfilments'[f] = fulfilments[f]
  BY <1>7 DEF Doc
<1> QED BY <1>1, <1>6, <1>8, <1>9, <1>12, <1>13, IdleRight, IdleRightNext, WriteRight
-------------------------------------------------------------------------------
(***************************************************************************)
(* The receipt of items.                                                   *)
(***************************************************************************)
LEMMA GetInventoryRight ==
    ASSUME IInv, NEW w \in Worker, GetInventory(w)
    PROVE  IInv'
<1>1. CASE Throw(w)
  BY <1>1, ThrowRight
<1>2. CASE ~Throw(w)
  <2>1. PICK o : o = task[w]
    OBVIOUS
  <2>2. PICK v : v = tx[w]
    OBVIOUS
  <2>3. o \in Task /\ WorkerRight(o, v) /\ o.step = "begin" /\ o.op = "receive"
    BY <2>1, <2>2, TaskTyped DEF IInv, GetInventory, At
  <2>4. PICK i \in o.left : Become(w, [o EXCEPT !.step = "receive", !.item = i]) /\ Local
    BY <1>2, <2>1, FirstOf DEF GetInventory
  <2>5. PICK t : t = [o EXCEPT !.step = "receive", !.item = i]
    OBVIOUS
  <2>6. /\ t \in Task /\ t.op = o.op /\ t.step = "receive" /\ t.item = i
        /\ t.items = o.items /\ t.left = o.left
    <3>1. i \in Item \cup {NoItem}
      BY <2>3, <2>4 DEF Task
    <3> QED BY <2>3, <2>5, <3>1 DEF Task
  <2>7. WorkerRight(t, v)
    BY <2>3, <2>4, <2>6 DEF WorkerRight, RequestRight, SubmissionRight,
                            ReceiptRight, FulfilmentRight
  <2>8. Become(w, t) /\ t.op = task[w].op /\ WorkerRight(t, tx[w])
    BY <2>1, <2>2, <2>4, <2>5, <2>6, <2>7
  <2> QED BY <2>4, <2>6, <2>8, LocalRight
<1> QED BY <1>1, <1>2

\* The transaction v in which item i has been received.
Receiving(v, i) == [v EXCEPT !.wrote = @ \cup {i}, !.inventory[i].status = "RECEIVED"]

Received(doc) == [doc EXCEPT !.status = "RECEIVED"]

LEMMA ReceivingIs ==
    ASSUME NEW v \in Transaction, NEW i \in Item, NEW x, x = Receiving(v, i)
    PROVE  /\ x \in Transaction /\ x # Closed
           /\ x.stale = v.stale /\ x.wrote = v.wrote \cup {i}
           /\ x.fulfilments = v.fulfilments
           /\ x.inventory[i] = Received(v.inventory[i])
           /\ \A j \in Item : j # i => x.inventory[j] = v.inventory[j]
<1>1. PICK doc : doc = [v.inventory[i] EXCEPT !.status = "RECEIVED"]
  OBVIOUS
<1>2. PICK all : all = [v.inventory EXCEPT ![i] = doc]
  OBVIOUS
<1>3. v.inventory \in [Item -> InventoryDoc] /\ v.wrote \in SUBSET Doc
  BY DEF Transaction
<1>4. v.inventory[i] \in InventoryDoc
  BY <1>3
<1>5. doc \in InventoryDoc
  BY <1>1, <1>4 DEF InventoryDoc
<1>6. all \in [Item -> InventoryDoc] /\ all[i] = doc
      /\ \A j \in Item : j # i => all[j] = v.inventory[j]
  BY <1>2, <1>3, <1>5
<1>7. v.wrote \cup {i} \in SUBSET Doc
  BY <1>3 DEF Doc
<1>8. x = [v EXCEPT !.wrote = v.wrote \cup {i}, !.inventory = all]
  <2>1. x = [v EXCEPT !.wrote = v.wrote \cup {i}, !.inventory[i] = doc]
    BY <1>1 DEF Receiving
  <2> QED BY <2>1, <1>2
<1>9. /\ x \in Transaction
      /\ x.stale = v.stale /\ x.wrote = v.wrote \cup {i}
      /\ x.fulfilments = v.fulfilments /\ x.inventory = all
  BY <1>6, <1>7, <1>8 DEF Transaction
<1> QED BY <1>1, <1>6, <1>9, ClosedAssumption DEF Received

LEMMA MarkInventoryReceivedRight ==
    ASSUME IInv, NEW w \in Worker, MarkInventoryReceived(w)
    PROVE  IInv'
<1>1. PICK o : o = task[w]
  OBVIOUS
<1>2. o \in Task /\ WorkerRight(o, tx[w]) /\ o.step = "receive"
  BY <1>1, TaskTyped DEF IInv, MarkInventoryReceived, At
<1>3. o.op = "receive" /\ o.item \in o.left /\ o.left \subseteq o.items /\ o.items \subseteq Item
      /\ o.items # {}
  BY <1>2, StepTells DEF WorkerRight, RequestRight, Task
<1>4. PICK i \in o.left : i = o.item
  BY <1>3
<1>5. i \in Item
  BY <1>3
<1>6. CASE Conflict(w, i)
  BY <1>1, <1>3, <1>4, <1>6, RetryRight DEF MarkInventoryReceived
<1>7. CASE Throw(w)
  BY <1>7, ThrowRight
<1>8. CASE ~Conflict(w, i) /\ ~Throw(w)
  <2>1. PICK v : v = IF tx[w] = Closed THEN Snapshot ELSE tx[w]
    OBVIOUS
  <2>2. /\ v \in Transaction /\ i \notin v.stale /\ SnapshotRight(v)
        /\ v.wrote = o.items \ o.left
        /\ \A j \in v.wrote : InStock(j) /\ v.inventory[j] = Received(inventory[j])
    <3>1. CASE tx[w] = Closed
      <4>1. /\ v \in Transaction /\ v.stale = {} /\ v.wrote = {}
            /\ v.fulfilments = fulfilments /\ v.inventory = inventory
        <5>1. v = Snapshot
          BY <2>1, <3>1
        <5> QED BY <5>1 DEF IInv, TypeOK, Snapshot, Transaction
      <4>2. o.left = o.items
        BY <1>2, <1>3, <3>1 DEF WorkerRight, ReceiptRight
      <4> QED BY <4>1, <4>2 DEF SnapshotRight
    <3>2. CASE tx[w] # Closed
      <4>1. v = tx[w]
        BY <2>1, <3>2
      <4>2. v \in Transaction
        BY <3>2, <4>1, OpenTyped DEF IInv
      <4>3. i \notin v.stale
        BY <1>8, <3>2, <4>1 DEF Conflict
      <4>4. SnapshotRight(v) /\ ReceiptRight(o, v)
        BY <1>2, <4>1 DEF WorkerRight
      <4> QED BY <1>3, <3>2, <4>1, <4>2, <4>3, <4>4 DEF ReceiptRight, Received
    <3> QED BY <3>1, <3>2
  <2>3. /\ v.inventory[i].status \in {"ON_ORDER", "RECEIVED"}
        /\ tx' = [tx EXCEPT ![w] = [v EXCEPT !.wrote = @ \cup {i},
                                             !.inventory[i].status = "RECEIVED"]]
        /\ Become(w, [o EXCEPT !.step = "begin", !.left = @ \ {i}])
        /\ UNCHANGED db
    BY <1>1, <1>4, <1>8, <2>1 DEF MarkInventoryReceived
  <2>4. PICK x : x = Receiving(v, i)
    OBVIOUS
  <2>5. /\ x \in Transaction /\ x # Closed
        /\ x.stale = v.stale /\ x.wrote = v.wrote \cup {i}
        /\ x.fulfilments = v.fulfilments
        /\ x.inventory[i] = Received(v.inventory[i])
        /\ \A j \in Item : j # i => x.inventory[j] = v.inventory[j]
    <3>1. v \in Transaction /\ i \in Item
      BY <1>5, <2>2
    <3> QED BY <3>1, <2>4, ReceivingIs
  <2>6. i \notin v.wrote /\ v.inventory[i] = inventory[i]
    <3>1. i \notin v.wrote
      BY <2>2
    <3>2. v # Closed
      BY <2>2, ClosedAssumption
    <3> QED BY <1>5, <2>2, <3>1, <3>2 DEF SnapshotRight
  <2>7. PICK t : t = [o EXCEPT !.step = "begin", !.left = @ \ {i}]
    OBVIOUS
  <2>8. /\ t \in Task /\ t.op = o.op /\ t.step = "begin" /\ t.items = o.items
        /\ t.left = o.left \ {i}
    <3>1. t = [o EXCEPT !.step = "begin", !.left = o.left \ {i}]
      BY <1>2, <2>7 DEF Task
    <3>2. o.left \ {i} \in SUBSET Item
      BY <1>3
    <3> QED BY <1>2, <3>1, <3>2 DEF Task
  <2>9. WorkerRight(t, x)
    <3>1. RequestRight(t, x)
      BY <1>3, <2>8 DEF RequestRight
    <3>2. SnapshotRight(x)
      <4>1. v # Closed
        BY <2>2, ClosedAssumption
      <4> QED BY <2>2, <2>5, <4>1 DEF SnapshotRight
    <3>3. ReceiptRight(t, x)
      <4>1. x.wrote = t.items \ t.left
        BY <1>3, <2>2, <2>5, <2>8
      <4>2. ASSUME NEW j \in x.wrote
            PROVE  InStock(j) /\ x.inventory[j] = [inventory[j] EXCEPT !.status = "RECEIVED"]
        <5>1. CASE j = i
          BY <2>3, <2>5, <2>6, <5>1 DEF InStock, Received
        <5>2. CASE j # i
          <6>1. j \in v.wrote /\ j \in Item
            BY <1>3, <2>2, <2>5, <5>2
          <6> QED BY <2>2, <2>5, <5>2, <6>1 DEF Received
        <5> QED BY <5>1, <5>2
      <4> QED BY <2>5, <4>1, <4>2 DEF ReceiptRight
    <3> QED BY <1>3, <2>8, <3>1, <3>2, <3>3 DEF WorkerRight, SubmissionRight, FulfilmentRight
  <2>10. Quiet(w, t, x)
    <3>1. tx' = [tx EXCEPT ![w] = x]
      BY <2>3, <2>4 DEF Receiving
    <3> QED BY <3>1, <2>3, <2>7 DEF Quiet, Become, IInv
  <2>11. ASSUME NEW u \in Worker, u # w
         PROVE  Wrote(u) \cap x.wrote = {}
    <3>1. Wrote(u) \cap v.wrote = {}
      <4>1. CASE tx[w] = Closed
        BY <2>1, <4>1 DEF Snapshot
      <4>2. CASE tx[w] # Closed
        BY <2>1, <2>11, <4>2, WrittenAlone
      <4> QED BY <4>1, <4>2
    <3>2. i \notin Wrote(u)
      BY <1>8, <2>11 DEF Conflict, Writable
    <3> QED BY <3>1, <3>2, <2>5
  <2>12. x \in Transaction \cup {Closed} /\ t.op \in {"submit PO", "receive"}
    BY <1>3, <2>5, <2>8
  <2> HIDE DEF Quiet
  <2> QED BY <2>8, <2>9, <2>10, <2>11, <2>12, QuietRight
<1> QED BY <1>6, <1>7, <1>8

\* What a receipt commits.
LEMMA ReceiptCommits ==
    ASSUME IInv, NEW w \in Worker, CommitReceipt(w)
    PROVE  /\ tx[w] # Closed /\ tx[w].wrote = task[w].items /\ task[w].items \subseteq Item
           /\ task[w].op = "receive"
           /\ \A i \in tx[w].wrote : InStock(i) /\ inventory'[i] = Received(inventory[i])
           /\ \A i \in Item : i \notin tx[w].wrote => inventory'[i] = inventory[i]
           /\ inventory' \in [Item -> InventoryDoc]
<1>1. PICK o : o = task[w]
  OBVIOUS
<1>2. PICK v : v = tx[w]
  OBVIOUS
<1>3. o \in Task /\ WorkerRight(o, v) /\ o.op = "receive" /\ o.left = {}
      /\ v \in Transaction \cup {Closed}
  BY <1>1, <1>2, TaskTyped, OpenTyped DEF IInv, CommitReceipt
<1>4. v # Closed /\ v.wrote = o.items /\ o.items \subseteq Item
      /\ \A i \in v.wrote : InStock(i) /\ v.inventory[i] = Received(inventory[i])
  BY <1>3 DEF WorkerRight, RequestRight, ReceiptRight, Received, Task
<1>5. inventory' = [i \in Item |-> IF i \in v.wrote THEN v.inventory[i] ELSE inventory[i]]
  BY <1>2 DEF CommitReceipt, InventoryAfter
<1>6. v.inventory \in [Item -> InventoryDoc]
  BY <1>3, <1>4 DEF Transaction
<1>7. inventory' \in [Item -> InventoryDoc]
  BY <1>5, <1>6 DEF IInv, TypeOK
<1> QED BY <1>1, <1>2, <1>3, <1>4, <1>5, <1>7

LEMMA CommitReceiptRight ==
    ASSUME IInv, NEW w \in Worker, CommitReceipt(w)
    PROVE  IInv'
<1>1. PICK ds : ds = tx[w].wrote
  OBVIOUS
<1>2. /\ tx[w] # Closed /\ ds \subseteq Item
      /\ \A i \in ds : InStock(i) /\ inventory'[i] = Received(inventory[i])
      /\ \A i \in Item : i \notin ds => inventory'[i] = inventory[i]
      /\ inventory' \in [Item -> InventoryDoc]
  BY <1>1, ReceiptCommits
<1>3. /\ Committed(w, ds) /\ task' = [task EXCEPT ![w] = Idle]
      /\ UNCHANGED <<purchaseOrders, purchaseLines, salesOrders, salesLines, fulfilments, calls>>
  BY <1>1 DEF CommitReceipt, Become
<1>4. ds \in SUBSET Doc
  BY <1>2 DEF Doc
<1>5. Step(w, ds)
  <2>1. ASSUME NEW u \in Worker \ {w}
        PROVE  /\ task'[u] = task[u] /\ tx'[u] = Later(tx[u], ds)
               /\ Wrote(u) \cap ds = {}
    <3>1. task'[u] = task[u]
      BY <1>3, TaskTyped DEF IInv
    <3> QED BY <3>1, <1>1, <1>2, <1>3, CommittedIs, WrittenAlone
  <2> QED BY <1>2, <1>3, <2>1 DEF Step
<1>6. Documents'
  BY <1>2, <1>3 DEF IInv, TypeOK, Documents
<1>7. \A i \in Item : /\ inventory'[i].status # "NONE" <=> inventory[i].status # "NONE"
                      /\ inventory'[i].line = inventory[i].line
  <2> TAKE i \in Item
  <2>1. inventory[i] \in InventoryDoc
    BY DEF IInv, TypeOK
  <2>2. CASE i \in ds
    BY <1>2, <2>1, <2>2 DEF InStock, Received, InventoryDoc
  <2> QED BY <1>2, <2>2
<1>8. DbRight'
  <2>1. \A f \in Fulfilment : fulfilments[f].item # NoItem => fulfilments[f].item \in Item
    BY DEF IInv, TypeOK, FulfilmentDoc
  <2> QED BY <1>3, <1>7, <2>1 DEF IInv, DbRight
<1>9. Closed \in Transaction \cup {Closed} /\ DOMAIN tx' = Worker /\ tx'[w] = Closed
  BY <1>3, CommittedIs
<1> QED BY <1>3, <1>4, <1>5, <1>6, <1>8, <1>9, IdleRight, IdleRightNext, StepRight
-------------------------------------------------------------------------------
(***************************************************************************)
(* The invariant.                                                          *)
(***************************************************************************)
LEMMA InitRight == Init => IInv
<1> SUFFICES ASSUME Init PROVE IInv
  OBVIOUS
<1>1. \A w \in Worker : task[w] = Idle /\ tx[w] = Closed
  BY DEF Init
<1>2. fulfilments \in [Fulfilment -> FulfilmentDoc]
      /\ \A f \in Fulfilment : fulfilments[f].item = NoItem
  <2>1. PICK line \in [Waiting -> PurchaseLine] :
          fulfilments = [f \in Fulfilment |->
            IF f \in Waiting THEN [NoFulfilment EXCEPT !.status = "LIVE",
                                                      !.purchaseLine = line[f]]
                             ELSE NoFulfilment]
    BY DEF Init
  <2>2. ASSUME NEW f \in Fulfilment
        PROVE  fulfilments[f] \in FulfilmentDoc /\ fulfilments[f].item = NoItem
    <3>1. CASE f \in Waiting
      <4>1. PICK l \in PurchaseLine : l = line[f]
        BY <3>1
      <4>2. fulfilments[f] = [NoFulfilment EXCEPT !.status = "LIVE", !.purchaseLine = l]
        BY <2>1, <3>1, <4>1
      <4> QED BY <4>2 DEF NoFulfilment, FulfilmentDoc
    <3>2. CASE f \notin Waiting
      <4>1. fulfilments[f] = NoFulfilment
        BY <2>1, <3>2
      <4> QED BY <4>1 DEF NoFulfilment, FulfilmentDoc
    <3> QED BY <3>1, <3>2
  <2> QED BY <2>1, <2>2
<1>3. inventory \in [Item -> InventoryDoc] /\ \A i \in Item : inventory[i].status = "NONE"
  BY DEF Init, InventoryDoc
<1>4. /\ purchaseOrders \in [PurchaseOrder -> {"DRAFT", "SUBMITTED"}]
      /\ purchaseLines \in [PurchaseLine -> Quantity \cup {NoLine}]
      /\ salesOrders \in [SalesOrder -> [status : {"DRAFT", "SUBMITTED"}, deleted : BOOLEAN]]
      /\ salesLines \subseteq SalesLine /\ calls \in 0 .. MaxCalls
  <2>1. calls \in 0 .. MaxCalls
    <3>1. 0 \in 0 .. MaxCalls
      BY BoundsAssumption
    <3>2. calls = 0
      BY DEF Init
    <3> QED BY <3>1, <3>2
  <2>2. purchaseLines \in [PurchaseLine -> Quantity]
    BY DEF Init
  <2>3. purchaseLines \in [PurchaseLine -> Quantity \cup {NoLine}]
    BY <2>2
  <2>4. /\ purchaseOrders \in [PurchaseOrder -> {"DRAFT", "SUBMITTED"}]
        /\ salesOrders \in [SalesOrder -> [status : {"DRAFT", "SUBMITTED"}, deleted : BOOLEAN]]
    BY DEF Init
  <2>5. salesLines \subseteq SalesLine
    BY DEF Init
  <2> QED BY <2>1, <2>3, <2>4, <2>5
<1>5. task \in [Worker -> Task] /\ DOMAIN tx = Worker
  BY IdleRight DEF Init
<1>6. TypeOK
  BY <1>1, <1>2, <1>3, <1>4, <1>5 DEF TypeOK
<1>7. DbRight
  BY <1>2, <1>3 DEF DbRight
<1> QED BY <1>1, <1>5, <1>6, <1>7, IdleRight DEF IInv

LEMMA NextRight == IInv /\ [Next]_vars => IInv'
<1> SUFFICES ASSUME IInv, [Next]_vars PROVE IInv'
  OBVIOUS
<1>1. CASE UNCHANGED vars
  <2>1. UNCHANGED <<purchaseOrders, purchaseLines, salesOrders, salesLines, fulfilments,
                    inventory, task, tx, calls>>
    BY <1>1 DEF vars, db
  <2>2. CASE Worker = {}
    <3>1. TypeOK' /\ DbRight'
      BY <2>1, <2>2 DEF IInv, TypeOK, DbRight
    <3> QED BY <2>1, <2>2, <3>1 DEF IInv
  <2>3. CASE Worker # {}
    <3>1. PICK w \in Worker : TRUE
      BY <2>3
    <3>2. Become(w, task[w]) /\ Local
      BY <2>1, TaskTyped DEF Become, Local, db, IInv
    <3>3. task[w] \in Task /\ WorkerRight(task[w], tx[w])
      BY TaskTyped DEF IInv
    <3> QED BY <3>2, <3>3, LocalRight
  <2> QED BY <2>2, <2>3
<1>2. CASE Next
  <2>1. PICK w \in Worker :
        \/ SubmitPurchaseOrder(w) \/ UpdatePurchaseOrderStatus(w) \/ ListLineItems(w)
        \/ CreateInventory(w) \/ ListFulfilments(w) \/ AssignOnOrder(w)
        \/ CommitSubmission(w) \/ WritePurchaseLine(w)
        \/ SubmitSalesOrder(w) \/ GetSalesOrder(w) \/ CreateFulfilment(w)
        \/ UpdateSalesOrderStatus(w) \/ SoftDeleteSalesOrder(w) \/ SoftDeleteSalesLine(w)
        \/ AssignInventory(w) \/ UnassignInventory(w)
        \/ SetPurchaseOrderLineItemId(w) \/ DeleteFulfilment(w)
        \/ BulkMarkInventoryReceived(w) \/ GetInventory(w) \/ MarkInventoryReceived(w)
        \/ CommitReceipt(w) \/ DeleteInventory(w)
        \/ TransientFault(w) \/ Abort(w)
    BY <1>2 DEF Next
  <2>2. CASE SubmitPurchaseOrder(w) BY <2>2, SubmitPurchaseOrderRight
  <2>3. CASE UpdatePurchaseOrderStatus(w) BY <2>3, UpdatePurchaseOrderStatusRight
  <2>4. CASE ListLineItems(w) BY <2>4, ListLineItemsRight
  <2>5. CASE CreateInventory(w) BY <2>5, CreateInventoryRight
  <2>6. CASE ListFulfilments(w) BY <2>6, ListFulfilmentsRight
  <2>7. CASE AssignOnOrder(w) BY <2>7, AssignOnOrderRight
  <2>8. CASE CommitSubmission(w) BY <2>8, CommitSubmissionRight
  <2>9. CASE WritePurchaseLine(w) BY <2>9, WritePurchaseLineRight
  <2>10. CASE SubmitSalesOrder(w) BY <2>10, SubmitSalesOrderRight
  <2>11. CASE GetSalesOrder(w) BY <2>11, GetSalesOrderRight
  <2>12. CASE CreateFulfilment(w) BY <2>12, CreateFulfilmentRight
  <2>13. CASE UpdateSalesOrderStatus(w) BY <2>13, UpdateSalesOrderStatusRight
  <2>14. CASE SoftDeleteSalesOrder(w) BY <2>14, SoftDeleteSalesOrderRight
  <2>15. CASE SoftDeleteSalesLine(w) BY <2>15, SoftDeleteSalesLineRight
  <2>16. CASE AssignInventory(w) BY <2>16, AssignInventoryRight
  <2>17. CASE UnassignInventory(w) BY <2>17, UnassignInventoryRight
  <2>18. CASE SetPurchaseOrderLineItemId(w) BY <2>18, SetPurchaseOrderLineItemIdRight
  <2>19. CASE DeleteFulfilment(w) BY <2>19, DeleteFulfilmentRight
  <2>20. CASE BulkMarkInventoryReceived(w) BY <2>20, BulkMarkInventoryReceivedRight
  <2>21. CASE GetInventory(w) BY <2>21, GetInventoryRight
  <2>22. CASE MarkInventoryReceived(w) BY <2>22, MarkInventoryReceivedRight
  <2>23. CASE CommitReceipt(w) BY <2>23, CommitReceiptRight
  <2>24. CASE DeleteInventory(w) BY <2>24, DeleteInventoryRight
  <2>25. CASE TransientFault(w)
    <3>1. task[w].op \in {"submit PO", "receive"}
      BY <2>25, TaskTyped, StepTells DEF TransientFault, IInv, WorkerRight
    <3> QED BY <2>25, <3>1, RetryRight DEF TransientFault
  <2>26. CASE Abort(w) BY <2>26, ThrowRight DEF Abort
  <2> QED BY <2>1, <2>2, <2>3, <2>4, <2>5, <2>6, <2>7, <2>8, <2>9, <2>10, <2>11, <2>12, <2>13,
             <2>14, <2>15, <2>16, <2>17, <2>18, <2>19, <2>20, <2>21, <2>22, <2>23, <2>24,
             <2>25, <2>26
<1> QED BY <1>1, <1>2

LEMMA Invariance == Spec => []IInv
BY InitRight, NextRight, PTL DEF Spec

(***************************************************************************)
(* Orders, fulfilments, inventory, requests and their transactions have    *)
(* their types; no document is written by two open transactions; inventory *)
(* is of submitted orders only, for any orders, line items and workers.    *)
(***************************************************************************)
THEOREM TypeCorrect == Spec => []TypeOK
<1>1. IInv => TypeOK
  BY DEF IInv
<1> QED BY <1>1, Invariance, PTL
-------------------------------------------------------------------------------
(***************************************************************************)
(* Which steps change a document.                                          *)
(***************************************************************************)
LEMMA Unchanging ==
    ASSUME NEW w, Throw(w) \/ Retry(w) \/ Local
    PROVE  UNCHANGED <<purchaseOrders, salesOrders, fulfilments, inventory>>
BY DEF Throw, Retry, Local, db

LEMMA Requesting ==
    ASSUME NEW w,
           \/ SubmitPurchaseOrder(w) \/ SubmitSalesOrder(w) \/ BulkMarkInventoryReceived(w)
           \/ ListLineItems(w) \/ ListFulfilments(w)
    PROVE  Local
BY DEF SubmitPurchaseOrder, SubmitSalesOrder, BulkMarkInventoryReceived, Request,
       ListLineItems, ListFulfilments

LEMMA Trying ==
    ASSUME NEW w,
           \/ UpdatePurchaseOrderStatus(w) \/ CreateInventory(w) \/ AssignOnOrder(w)
           \/ GetSalesOrder(w) \/ GetInventory(w) \/ MarkInventoryReceived(w)
           \/ TransientFault(w) \/ Abort(w)
    PROVE  UNCHANGED <<purchaseOrders, salesOrders, fulfilments, inventory>>
<1>1. CASE UpdatePurchaseOrderStatus(w)
  BY <1>1, Unchanging DEF UpdatePurchaseOrderStatus, db
<1>2. CASE CreateInventory(w)
  BY <1>2 DEF CreateInventory, db
<1>3. CASE AssignOnOrder(w)
  BY <1>3, Unchanging DEF AssignOnOrder, db
<1>4. CASE GetSalesOrder(w) \/ GetInventory(w)
  BY <1>4, Unchanging DEF GetSalesOrder, GetInventory
<1>5. CASE MarkInventoryReceived(w)
  BY <1>5, Unchanging DEF MarkInventoryReceived, db
<1>6. CASE TransientFault(w) \/ Abort(w)
  BY <1>6, Unchanging DEF TransientFault, Abort
<1> QED BY <1>1, <1>2, <1>3, <1>4, <1>5, <1>6

\* The steps on a fulfilment that is there.
Updating(w) ==
    AssignInventory(w) \/ UnassignInventory(w) \/ SetPurchaseOrderLineItemId(w)
        \/ DeleteFulfilment(w)

LEMMA UpdatingIs ==
    ASSUME NEW w, Updating(w)
    PROVE  UNCHANGED <<purchaseOrders, salesOrders, inventory>>
BY DEF Updating, AssignInventory, UnassignInventory, SetPurchaseOrderLineItemId,
       DeleteFulfilment, UpdateFulfilment

LEMMA Changes ==
    ASSUME [Next]_vars
    PROVE  \/ UNCHANGED <<purchaseOrders, salesOrders, fulfilments, inventory>>
           \/ \E w \in Worker :
                 \/ CommitSubmission(w) \/ CommitReceipt(w) \/ DeleteInventory(w)
                 \/ CreateFulfilment(w) \/ Updating(w)
                 \/ UpdateSalesOrderStatus(w) \/ SoftDeleteSalesOrder(w)
<1>1. CASE UNCHANGED vars
  BY <1>1 DEF vars, db
<1>2. ASSUME NEW w \in Worker, WritePurchaseLine(w) \/ SoftDeleteSalesLine(w)
      PROVE  UNCHANGED <<purchaseOrders, salesOrders, fulfilments, inventory>>
  BY <1>2 DEF WritePurchaseLine, SoftDeleteSalesLine
<1>3. ASSUME NEW w \in Worker,
             \/ SubmitPurchaseOrder(w) \/ SubmitSalesOrder(w) \/ BulkMarkInventoryReceived(w)
             \/ ListLineItems(w) \/ ListFulfilments(w)
      PROVE  UNCHANGED <<purchaseOrders, salesOrders, fulfilments, inventory>>
  <2>1. Local
    BY <1>3, Requesting
  <2> QED BY <2>1 DEF Local, db
<1>4. CASE Next
  <2>1. PICK w \in Worker :
        \/ UNCHANGED <<purchaseOrders, salesOrders, fulfilments, inventory>>
        \/ CommitSubmission(w) \/ CommitReceipt(w) \/ DeleteInventory(w)
        \/ CreateFulfilment(w) \/ Updating(w)
        \/ UpdateSalesOrderStatus(w) \/ SoftDeleteSalesOrder(w)
    BY <1>4, <1>2, <1>3, Trying DEF Next, Updating
  <2> QED BY <2>1
<1> QED BY <1>1, <1>4

\* What a submission leaves, for the items and fulfilments that it wrote and the others.
LEMMA SubmissionLeaves ==
    ASSUME IInv, NEW w \in Worker, CommitSubmission(w)
    PROVE  \E v \in Transaction :
              /\ Committing(task[w], v)
              /\ \A f \in Fulfilment : f \in v.wrote => fulfilments'[f] = v.fulfilments[f]
              /\ \A f \in Fulfilment : f \notin v.wrote => fulfilments'[f] = fulfilments[f]
              /\ \A i \in Item : i \in v.wrote => inventory'[i] = v.inventory[i]
              /\ \A i \in Item : i \notin v.wrote => inventory'[i] = inventory[i]
<1>1. PICK o : o = task[w]
  OBVIOUS
<1>2. PICK v : v = tx[w]
  OBVIOUS
<1>3. /\ o \in Task /\ o.op = "submit PO" /\ o.step \in {"lines", "assign"} /\ o.pending = {}
      /\ v # Closed /\ v \in Transaction /\ WorkerRight(o, v)
  BY <1>1, <1>2, SubmissionIs
<1>4. Committing(o, v)
  BY <1>3, SubmissionCommits
<1>5. /\ fulfilments' = [f \in Fulfilment |->
             IF f \in v.wrote THEN v.fulfilments[f] ELSE fulfilments[f]]
      /\ inventory' = [i \in Item |-> IF i \in v.wrote THEN v.inventory[i] ELSE inventory[i]]
  BY <1>2 DEF CommitSubmission, FulfilmentsAfter, InventoryAfter
<1>6. /\ \A f \in Fulfilment : f \in v.wrote => fulfilments'[f] = v.fulfilments[f]
      /\ \A f \in Fulfilment : f \notin v.wrote => fulfilments'[f] = fulfilments[f]
      /\ \A i \in Item : i \in v.wrote => inventory'[i] = v.inventory[i]
      /\ \A i \in Item : i \notin v.wrote => inventory'[i] = inventory[i]
  BY <1>5
<1> QED BY <1>1, <1>3, <1>4, <1>6

\* Who else changes inventory, and to what.
LEMMA DeletionIs ==
    ASSUME IInv, NEW w \in Worker, DeleteInventory(w)
    PROVE  /\ task' = task /\ UNCHANGED fulfilments
           /\ \A i \in Item : inventory'[i] # inventory[i] =>
                 inventory[i].status # "NONE" /\ inventory'[i].status = "DELETED"
<1>1. PICK i \in Item : InStock(i) /\ inventory' = [inventory EXCEPT ![i].status = "DELETED"]
  BY DEF DeleteInventory
<1>2. PICK doc : doc = [inventory[i] EXCEPT !.status = "DELETED"]
  OBVIOUS
<1>3. doc.status = "DELETED"
  BY <1>2 DEF IInv, TypeOK, InventoryDoc
<1>4. inventory' = [inventory EXCEPT ![i] = doc]
  BY <1>1, <1>2
<1>5. /\ inventory'[i] = doc
      /\ \A j \in Item : j # i => inventory'[j] = inventory[j]
  BY <1>4 DEF IInv, TypeOK
<1>6. inventory[i].status # "NONE"
  BY <1>1 DEF InStock
<1> QED BY <1>3, <1>5, <1>6 DEF DeleteInventory

LEMMA ReceiptIs ==
    ASSUME IInv, NEW w \in Worker, CommitReceipt(w)
    PROVE  /\ task[w].op = "receive" /\ task' = [task EXCEPT ![w] = Idle]
           /\ task[w].items \subseteq Item /\ UNCHANGED fulfilments
           /\ \A i \in task[w].items : InStock(i) /\ inventory'[i].status = "RECEIVED"
           /\ \A i \in Item : i \notin task[w].items => inventory'[i] = inventory[i]
<1>1. PICK ds : ds = task[w].items
  OBVIOUS
<1>2. /\ task[w].op = "receive" /\ ds \subseteq Item
      /\ \A i \in ds : InStock(i) /\ inventory'[i] = Received(inventory[i])
      /\ \A i \in Item : i \notin ds => inventory'[i] = inventory[i]
  BY <1>1, ReceiptCommits
<1>3. \A i \in ds : inventory'[i].status = "RECEIVED"
  <2> TAKE i \in ds
  <2>1. inventory[i] \in InventoryDoc
    BY <1>2 DEF IInv, TypeOK
  <2> QED BY <1>2, <2>1 DEF Received, InventoryDoc
<1> QED BY <1>1, <1>2, <1>3 DEF CommitReceipt, Become

LEMMA OnOrderIs ==
    ASSUME NEW l
    PROVE  OnOrderItem(l).status = "ON_ORDER" /\ OnOrderItem(l).line = l
BY DEF OnOrderItem

\* The items that a submission makes, as seen from outside.
LEMMA NewItems ==
    ASSUME IInv, NEW w \in Worker, CommitSubmission(w), NEW new,
           new = {i \in Item : inventory[i].status = "NONE" /\ inventory'[i].status # "NONE"}
    PROVE  /\ \A i \in new : inventory'[i].status = "ON_ORDER"
           /\ \A l \in PurchaseLine :
                Cardinality({i \in new : inventory'[i].line = l}) = task[w].ordered[l]
<1>1. PICK v \in Transaction :
              /\ Committing(task[w], v)
              /\ \A i \in Item : i \in v.wrote => inventory'[i] = v.inventory[i]
              /\ \A i \in Item : i \notin v.wrote => inventory'[i] = inventory[i]
  BY SubmissionLeaves
<1>2. \A i \in v.wrote \cap Item :
        inventory[i].status = "NONE" /\ v.inventory[i].status = "ON_ORDER"
  <2> TAKE i \in v.wrote \cap Item
  <2>1. inventory[i].status = "NONE" /\ v.inventory[i] = OnOrderItem(v.inventory[i].line)
    BY <1>1 DEF Committing
  <2>2. PICK m : v.inventory[i] = OnOrderItem(m)
    BY <2>1
  <2> QED BY <2>1, <2>2, OnOrderIs
<1>3. new = v.wrote \cap Item
  BY <1>1, <1>2
<1>4. \A i \in new : inventory'[i] = v.inventory[i]
  BY <1>1, <1>3
<1>5. ASSUME NEW l \in PurchaseLine
      PROVE  Cardinality({i \in new : inventory'[i].line = l}) = task[w].ordered[l]
  <2>1. {i \in new : inventory'[i].line = l} = Made(v, l)
    BY <1>3, <1>4 DEF Made
  <2> QED BY <1>1, <2>1 DEF Committing
<1> QED BY <1>2, <1>3, <1>4, <1>5

LEMMA SubmittedIs ==
    ASSUME IInv, [Next]_vars, NEW w \in Worker, Submitted(w)
    PROVE  CommitSubmission(w)
<1>1. /\ task[w].op = "submit PO" /\ task'[w] = Idle
      /\ inventory' # inventory \/ purchaseOrders' # purchaseOrders
  BY DEF Submitted
<1>2. Idle.op = "idle"
  BY DEF Idle
<1>3. PICK u \in Worker :
         \/ CommitSubmission(u) \/ CommitReceipt(u) \/ DeleteInventory(u)
         \/ CreateFulfilment(u) \/ Updating(u)
         \/ UpdateSalesOrderStatus(u) \/ SoftDeleteSalesOrder(u)
  BY <1>1, Changes
<1>4. CASE CommitSubmission(u)
  <2>1. task' = [task EXCEPT ![u] = Idle]
    BY <1>4 DEF CommitSubmission, Become
  <2>2. u = w
    BY <1>1, <1>2, <2>1, TaskTyped DEF IInv
  <2> QED BY <1>4, <2>2
<1>5. CASE CommitReceipt(u)
  <2>1. task[u].op = "receive" /\ task' = [task EXCEPT ![u] = Idle]
    BY <1>5, ReceiptIs
  <2> QED BY <1>1, <1>2, <2>1, TaskTyped DEF IInv
<1>6. CASE DeleteInventory(u)
  BY <1>1, <1>2, <1>6, DeletionIs
<1>7. CASE Updating(u)
  BY <1>1, <1>7, UpdatingIs
<1>8. CASE CreateFulfilment(u) \/ UpdateSalesOrderStatus(u) \/ SoftDeleteSalesOrder(u)
  BY <1>1, <1>8 DEF CreateFulfilment, UpdateSalesOrderStatus, SoftDeleteSalesOrder
<1> QED BY <1>3, <1>4, <1>5, <1>6, <1>7, <1>8

\* The step in which inventory comes into being is a submission.
LEMMA NewBySubmission ==
    ASSUME IInv, [Next]_vars, NEW i \in Item,
           inventory[i].status = "NONE", inventory'[i].status # "NONE"
    PROVE  \E w \in Worker : CommitSubmission(w)
<1>1. inventory' # inventory /\ inventory'[i] # inventory[i]
  OBVIOUS
<1>2. PICK u \in Worker :
         \/ CommitSubmission(u) \/ CommitReceipt(u) \/ DeleteInventory(u)
         \/ CreateFulfilment(u) \/ Updating(u)
         \/ UpdateSalesOrderStatus(u) \/ SoftDeleteSalesOrder(u)
  BY <1>1, Changes
<1>3. CASE CommitReceipt(u)
  <2>1. i \in task[u].items
    BY <1>1, <1>3, ReceiptIs
  <2>2. InStock(i)
    BY <1>3, <2>1, ReceiptIs
  <2> QED BY <2>2 DEF InStock
<1>4. CASE DeleteInventory(u)
  BY <1>1, <1>4, DeletionIs
<1>5. CASE Updating(u)
  BY <1>1, <1>5, UpdatingIs
<1>6. CASE CreateFulfilment(u) \/ UpdateSalesOrderStatus(u) \/ SoftDeleteSalesOrder(u)
  BY <1>1, <1>6 DEF CreateFulfilment, UpdateSalesOrderStatus, SoftDeleteSalesOrder
<1> QED BY <1>2, <1>3, <1>4, <1>5, <1>6

\* So is the step in which the status of an order changes.
LEMMA OrderBySubmission ==
    ASSUME IInv, [Next]_vars, purchaseOrders' # purchaseOrders
    PROVE  \E w \in Worker : CommitSubmission(w)
<1>1. PICK u \in Worker :
         \/ CommitSubmission(u) \/ CommitReceipt(u) \/ DeleteInventory(u)
         \/ CreateFulfilment(u) \/ Updating(u)
         \/ UpdateSalesOrderStatus(u) \/ SoftDeleteSalesOrder(u)
  BY Changes
<1>2. CASE CommitReceipt(u) \/ DeleteInventory(u)
  BY <1>2 DEF CommitReceipt, DeleteInventory
<1>3. CASE Updating(u)
  BY <1>3, UpdatingIs
<1>4. CASE CreateFulfilment(u) \/ UpdateSalesOrderStatus(u) \/ SoftDeleteSalesOrder(u)
  BY <1>4 DEF CreateFulfilment, UpdateSalesOrderStatus, SoftDeleteSalesOrder
<1> QED BY <1>1, <1>2, <1>3, <1>4

(***************************************************************************)
(* Inventory of a purchase order appears in the step that makes the order  *)
(* SUBMITTED, and then all that was listed of it: a submission is never    *)
(* seen in part, whatever is written, retried or aborted beside it.        *)
(***************************************************************************)
THEOREM SubmissionsAreWhole == Spec => SubmissionIsWhole
<1>1. ASSUME IInv, [Next]_vars
      PROVE  LET new == {i \in Item : inventory[i].status = "NONE"
                                        /\ inventory'[i].status # "NONE"} IN
             /\ new # {} \/ purchaseOrders' # purchaseOrders =>
                  \E w \in Worker : Submitted(w)
             /\ \A w \in Worker : Submitted(w) =>
                  /\ purchaseOrders'[task[w].order] = "SUBMITTED"
                  /\ \A i \in new : inventory'[i].status = "ON_ORDER"
                  /\ \A l \in PurchaseLine :
                       Cardinality({i \in new : inventory'[i].line = l}) = task[w].ordered[l]
  <2>1. PICK new : new = {i \in Item : inventory[i].status = "NONE"
                                         /\ inventory'[i].status # "NONE"}
    OBVIOUS
  <2>2. ASSUME NEW i \in new
        PROVE  \E w \in Worker : Submitted(w)
    <3>1. i \in Item /\ inventory[i].status = "NONE" /\ inventory'[i].status # "NONE"
      BY <2>1, <2>2
    <3>2. PICK w \in Worker : CommitSubmission(w)
      BY <1>1, <3>1, NewBySubmission
    <3>3. task'[w] = Idle
      BY <1>1, <3>2, TaskTyped DEF IInv, CommitSubmission, Become
    <3> QED BY <3>1, <3>2, <3>3 DEF Submitted, CommitSubmission
  <2>3. ASSUME NEW w \in Worker, Submitted(w)
        PROVE  /\ purchaseOrders'[task[w].order] = "SUBMITTED"
               /\ \A i \in new : inventory'[i].status = "ON_ORDER"
               /\ \A l \in PurchaseLine :
                    Cardinality({i \in new : inventory'[i].line = l}) = task[w].ordered[l]
    <3>1. CommitSubmission(w)
      BY <1>1, <2>3, SubmittedIs
    <3>2. task[w].order \in PurchaseOrder
      BY <1>1, <3>1, SubmissionLeaves DEF Committing
    <3>3. purchaseOrders'[task[w].order] = "SUBMITTED"
      BY <1>1, <3>1, <3>2 DEF CommitSubmission, IInv, TypeOK
    <3> QED BY <1>1, <2>1, <3>1, <3>3, NewItems
  <2>4. ASSUME purchaseOrders' # purchaseOrders
        PROVE  \E w \in Worker : Submitted(w)
    <3>1. PICK w \in Worker : CommitSubmission(w)
      BY <1>1, <2>4, OrderBySubmission
    <3>2. task'[w] = Idle
      BY <1>1, <3>1, TaskTyped DEF IInv, CommitSubmission, Become
    <3> QED BY <2>4, <3>1, <3>2 DEF Submitted, CommitSubmission
  <2> QED BY <2>1, <2>2, <2>3, <2>4
<1> QED BY <1>1, Invariance, PTL DEF Spec, SubmissionIsWhole

(***************************************************************************)
(* What the steps do to the items of fulfilments.                          *)
(***************************************************************************)
LEMMA SubmissionGives ==
    ASSUME IInv, NEW w \in Worker, CommitSubmission(w), NEW f \in Fulfilment, NEW i \in Item,
           fulfilments[f].item # i, fulfilments'[f].item = i
    PROVE  /\ fulfilments[f].status = "LIVE" /\ fulfilments[f].item = NoItem
           /\ inventory'[i] = OnOrderItem(fulfilments[f].purchaseLine)
           /\ \A g \in Fulfilment \ {f} : fulfilments'[g].item # i
<1>1. PICK v \in Transaction :
              /\ Committing(task[w], v)
              /\ \A g \in Fulfilment : g \in v.wrote => fulfilments'[g] = v.fulfilments[g]
              /\ \A g \in Fulfilment : g \notin v.wrote => fulfilments'[g] = fulfilments[g]
              /\ \A j \in Item : j \in v.wrote => inventory'[j] = v.inventory[j]
  BY SubmissionLeaves
<1>2. f \in v.wrote
  BY <1>1
<1>3. Given(v, f) /\ v.fulfilments[f].item = i
  BY <1>1, <1>2 DEF Committing
<1>4. /\ fulfilments[f].status = "LIVE" /\ fulfilments[f].item = NoItem
      /\ i \in v.wrote /\ v.inventory[i].line = fulfilments[f].purchaseLine
      /\ \A g \in v.wrote \cap Fulfilment : g # f => v.fulfilments[g].item # i
  BY <1>3 DEF Given
<1>5. inventory[i].status = "NONE" /\ v.inventory[i] = OnOrderItem(v.inventory[i].line)
  BY <1>1, <1>4 DEF Committing
<1>6. inventory'[i] = OnOrderItem(fulfilments[f].purchaseLine)
  BY <1>1, <1>4, <1>5
<1>7. ASSUME NEW g \in Fulfilment, g # f
      PROVE  fulfilments'[g].item # i
  <2>1. CASE g \in v.wrote
    BY <1>1, <1>4, <1>7, <2>1
  <2>2. CASE g \notin v.wrote
    <3>1. i # NoItem
      BY IdAssumption
    <3>2. fulfilments[g].item # i
      BY <1>5, <3>1 DEF IInv, DbRight
    <3> QED BY <1>1, <2>2, <3>2
  <2> QED BY <2>1, <2>2
<1> QED BY <1>4, <1>6, <1>7

LEMMA UpdateSetsOne ==
    ASSUME IInv, NEW w, NEW f \in Fulfilment, NEW doc, UpdateFulfilment(w, f, doc)
    PROVE  fulfilments'[f] = doc /\ \A g \in Fulfilment : g # f => fulfilments'[g] = fulfilments[g]
BY DEF IInv, TypeOK, UpdateFulfilment

\* A request gives an item to a fulfilment only with a reservation.
LEMMA RequestsReserve ==
    ASSUME IInv, NEW w \in Worker, Updating(w), NEW f \in Fulfilment,
           fulfilments'[f].item # fulfilments[f].item
    PROVE  fulfilments'[f].item = NoItem \/ fulfilments'[f].reserved
<1>1. fulfilments \in [Fulfilment -> FulfilmentDoc]
  BY DEF IInv, TypeOK
<1>2. CASE AssignInventory(w)
  <2>1. PICK g \in Fulfilment, j \in Item :
          UpdateFulfilment(w, g, [fulfilments[g] EXCEPT
             !.item = j, !.reserved = TRUE, !.purchaseLine = inventory[j].line])
    BY <1>2 DEF AssignInventory
  <2>2. PICK doc : doc = [fulfilments[g] EXCEPT
             !.item = j, !.reserved = TRUE, !.purchaseLine = inventory[j].line]
    OBVIOUS
  <2>3. doc.reserved
    BY <1>1, <2>2 DEF FulfilmentDoc
  <2>4. UpdateFulfilment(w, g, doc)
    BY <2>1, <2>2
  <2> QED BY <2>3, <2>4, UpdateSetsOne
<1>3. CASE UnassignInventory(w)
  <2>1. PICK g \in Fulfilment :
          UpdateFulfilment(w, g, [fulfilments[g] EXCEPT !.item = NoItem, !.reserved = FALSE])
    BY <1>3 DEF UnassignInventory
  <2>2. PICK doc : doc = [fulfilments[g] EXCEPT !.item = NoItem, !.reserved = FALSE]
    OBVIOUS
  <2>3. doc.item = NoItem
    BY <1>1, <2>2 DEF FulfilmentDoc
  <2>4. UpdateFulfilment(w, g, doc)
    BY <2>1, <2>2
  <2> QED BY <2>3, <2>4, UpdateSetsOne
<1>4. CASE SetPurchaseOrderLineItemId(w)
  <2>1. PICK g \in Fulfilment, l \in PurchaseLine \cup {NoLine} :
          UpdateFulfilment(w, g, [fulfilments[g] EXCEPT !.purchaseLine = l])
    BY <1>4 DEF SetPurchaseOrderLineItemId
  <2>2. PICK doc : doc = [fulfilments[g] EXCEPT !.purchaseLine = l]
    OBVIOUS
  <2>3. doc.item = fulfilments[g].item
    BY <1>1, <2>2 DEF FulfilmentDoc
  <2>4. UpdateFulfilment(w, g, doc)
    BY <2>1, <2>2
  <2> QED BY <2>3, <2>4, UpdateSetsOne
<1>5. CASE DeleteFulfilment(w)
  <2>1. PICK g \in Fulfilment :
          UpdateFulfilment(w, g, [fulfilments[g] EXCEPT !.status = "DELETED"])
    BY <1>5 DEF DeleteFulfilment
  <2>2. PICK doc : doc = [fulfilments[g] EXCEPT !.status = "DELETED"]
    OBVIOUS
  <2>3. doc.item = fulfilments[g].item
    BY <1>1, <2>2 DEF FulfilmentDoc
  <2>4. UpdateFulfilment(w, g, doc)
    BY <2>1, <2>2
  <2> QED BY <2>3, <2>4, UpdateSetsOne
<1> QED BY <1>2, <1>3, <1>4, <1>5 DEF Updating

LEMMA CreatedIsEmpty ==
    ASSUME IInv, NEW w \in Worker, CreateFulfilment(w), NEW f \in Fulfilment,
           fulfilments'[f] # fulfilments[f]
    PROVE  fulfilments'[f].item = NoItem
<1>1. PICK g \in Fulfilment, l \in {task[w].line} :
        fulfilments' = [fulfilments EXCEPT
            ![g] = [NoFulfilment EXCEPT !.status = "LIVE", !.salesLine = l]]
  BY FirstOf DEF CreateFulfilment
<1>2. PICK doc : doc = [NoFulfilment EXCEPT !.status = "LIVE", !.salesLine = l]
  OBVIOUS
<1>3. doc.item = NoItem
  BY <1>2 DEF NoFulfilment
<1>4. fulfilments' = [fulfilments EXCEPT ![g] = doc]
  BY <1>1, <1>2
<1>5. fulfilments'[f] = doc
  BY <1>4 DEF IInv, TypeOK
<1> QED BY <1>3, <1>5

(***************************************************************************)
(* An item that a fulfilment gets without a reservation is one that the    *)
(* submission makes in that step, of the line item the fulfilment names,   *)
(* for a fulfilment that has none; no other fulfilment has it.             *)
(***************************************************************************)
THEOREM AssignmentsKept == Spec => AssignmentKept
<1>1. ASSUME IInv, [Next]_vars
      PROVE  \A f \in Fulfilment, i \in Item :
               fulfilments[f].item # i /\ fulfilments'[f].item = i /\ ~fulfilments'[f].reserved =>
                 /\ fulfilments[f].status = "LIVE" /\ fulfilments[f].item = NoItem
                 /\ inventory'[i] = OnOrderItem(fulfilments[f].purchaseLine)
                 /\ \A g \in Fulfilment \ {f} : fulfilments'[g].item # i
  <2> SUFFICES ASSUME NEW f \in Fulfilment, NEW i \in Item,
                      fulfilments[f].item # i, fulfilments'[f].item = i,
                      ~fulfilments'[f].reserved
               PROVE  /\ fulfilments[f].status = "LIVE" /\ fulfilments[f].item = NoItem
                      /\ inventory'[i] = OnOrderItem(fulfilments[f].purchaseLine)
                      /\ \A g \in Fulfilment \ {f} : fulfilments'[g].item # i
    OBVIOUS
  <2>1. i # NoItem
    BY IdAssumption
  <2>2. fulfilments' # fulfilments /\ fulfilments'[f] # fulfilments[f]
    OBVIOUS
  <2>3. PICK w \in Worker :
           \/ CommitSubmission(w) \/ CommitReceipt(w) \/ DeleteInventory(w)
           \/ CreateFulfilment(w) \/ Updating(w)
           \/ UpdateSalesOrderStatus(w) \/ SoftDeleteSalesOrder(w)
    BY <1>1, <2>2, Changes
  <2>4. CASE CommitSubmission(w)
    BY <1>1, <2>4, SubmissionGives
  <2>5. CASE Updating(w)
    BY <1>1, <2>1, <2>5, RequestsReserve
  <2>6. CASE CreateFulfilment(w)
    BY <1>1, <2>1, <2>2, <2>6, CreatedIsEmpty
  <2>7. CASE \/ CommitReceipt(w) \/ DeleteInventory(w)
             \/ UpdateSalesOrderStatus(w) \/ SoftDeleteSalesOrder(w)
    BY <1>1, <2>2, <2>7, ReceiptIs, DeletionIs DEF UpdateSalesOrderStatus, SoftDeleteSalesOrder
  <2> QED BY <2>3, <2>4, <2>5, <2>6, <2>7
<1> QED BY <1>1, Invariance, PTL DEF Spec, AssignmentKept

(***************************************************************************)
(* The items of a request are received in one step, if at all, and none of *)
(* them was deleted after it was looked at.                                *)
(***************************************************************************)
THEOREM ItemsReceivedTogether == Spec => ReceivedTogether
<1>1. ASSUME IInv, [Next]_vars
      PROVE  \A i \in Item :
               inventory[i].status # "RECEIVED" /\ inventory'[i].status = "RECEIVED" =>
                 \E w \in Worker :
                   /\ task[w].op = "receive" /\ i \in task[w].items
                   /\ \A j \in task[w].items : InStock(j) /\ inventory'[j].status = "RECEIVED"
  <2> SUFFICES ASSUME NEW i \in Item, inventory[i].status # "RECEIVED",
                      inventory'[i].status = "RECEIVED"
               PROVE  \E w \in Worker :
                        /\ task[w].op = "receive" /\ i \in task[w].items
                        /\ \A j \in task[w].items :
                              InStock(j) /\ inventory'[j].status = "RECEIVED"
    OBVIOUS
  <2>1. inventory' # inventory /\ inventory'[i] # inventory[i]
    OBVIOUS
  <2>2. PICK w \in Worker :
           \/ CommitSubmission(w) \/ CommitReceipt(w) \/ DeleteInventory(w)
           \/ CreateFulfilment(w) \/ Updating(w)
           \/ UpdateSalesOrderStatus(w) \/ SoftDeleteSalesOrder(w)
    BY <1>1, <2>1, Changes
  <2>3. CASE CommitReceipt(w)
    <3>1. i \in task[w].items
      BY <1>1, <2>1, <2>3, ReceiptIs
    <3> QED BY <1>1, <2>3, <3>1, ReceiptIs
  <2>4. CASE CommitSubmission(w)
    <3>1. PICK v \in Transaction :
             /\ Committing(task[w], v)
             /\ \A j \in Item : j \in v.wrote => inventory'[j] = v.inventory[j]
             /\ \A j \in Item : j \notin v.wrote => inventory'[j] = inventory[j]
      BY <1>1, <2>4, SubmissionLeaves
    <3>2. PICK l : inventory'[i] = OnOrderItem(l)
      BY <2>1, <3>1 DEF Committing
    <3> QED BY <3>2, OnOrderIs
  <2>5. CASE DeleteInventory(w)
    BY <1>1, <2>1, <2>5, DeletionIs
  <2>6. CASE Updating(w)
    BY <2>1, <2>6, UpdatingIs
  <2>7. CASE CreateFulfilment(w) \/ UpdateSalesOrderStatus(w) \/ SoftDeleteSalesOrder(w)
    BY <2>1, <2>7 DEF CreateFulfilment, UpdateSalesOrderStatus, SoftDeleteSalesOrder
  <2> QED BY <2>2, <2>3, <2>4, <2>5, <2>6, <2>7
<1> QED BY <1>1, Invariance, PTL DEF Spec, ReceivedTogether

(***************************************************************************)
(* A sales order becomes SUBMITTED only when each line item that its       *)
(* submission listed has had a fulfilment, whatever is deleted beside it.  *)
(***************************************************************************)
THEOREM FulfilledFirst == Spec => FulfilledBeforeSubmitted
<1>1. ASSUME IInv, [Next]_vars
      PROVE  \A s \in SalesOrder :
               salesOrders[s].status # "SUBMITTED" /\ salesOrders'[s].status = "SUBMITTED" =>
                 \E w \in Worker : /\ task[w].order = s /\ task'[w] # task[w]
                                   /\ \A l \in task[w].listed : \E f \in Fulfilment :
                                         /\ fulfilments[f].status # "NONE"
                                         /\ fulfilments[f].salesLine = l
  <2> SUFFICES ASSUME NEW s \in SalesOrder, salesOrders[s].status # "SUBMITTED",
                      salesOrders'[s].status = "SUBMITTED"
               PROVE  \E w \in Worker : /\ task[w].order = s /\ task'[w] # task[w]
                                        /\ \A l \in task[w].listed : \E f \in Fulfilment :
                                              /\ fulfilments[f].status # "NONE"
                                              /\ fulfilments[f].salesLine = l
    OBVIOUS
  <2>1. salesOrders' # salesOrders
    OBVIOUS
  <2>2. salesOrders \in [SalesOrder -> [status : {"DRAFT", "SUBMITTED"}, deleted : BOOLEAN]]
    BY <1>1 DEF IInv, TypeOK
  <2>3. PICK w \in Worker :
           \/ CommitSubmission(w) \/ CommitReceipt(w) \/ DeleteInventory(w)
           \/ CreateFulfilment(w) \/ Updating(w)
           \/ UpdateSalesOrderStatus(w) \/ SoftDeleteSalesOrder(w)
    BY <1>1, <2>1, Changes
  <2>4. CASE UpdateSalesOrderStatus(w)
    <3>1. PICK o : o = task[w]
      OBVIOUS
    <3>2. PICK v : v = tx[w]
      OBVIOUS
    <3>3. /\ o \in Task /\ WorkerRight(o, v) /\ o.step = "look" /\ o.pending = {}
          /\ salesOrders' = [salesOrders EXCEPT ![o.order].status = "SUBMITTED"]
      BY <1>1, <2>4, <3>1, <3>2, TaskTyped DEF IInv, UpdateSalesOrderStatus, At
    <3>4. o.order = s
      BY <2>2, <3>3
    <3>5. o.op = "submit SO"
      BY <3>3, StepTells DEF WorkerRight
    <3>6. \A l \in o.listed : \E f \in Fulfilment :
             fulfilments[f].status # "NONE" /\ fulfilments[f].salesLine = l
      BY <3>3, <3>5 DEF WorkerRight, FulfilmentRight
    <3>7. task'[w] = Idle
      BY <1>1, <2>4, TaskTyped DEF IInv, UpdateSalesOrderStatus, Become
    <3>8. Idle.op = "idle"
      BY DEF Idle
    <3>9. task'[w] # task[w]
      BY <3>1, <3>5, <3>7, <3>8
    <3> QED BY <3>1, <3>4, <3>6, <3>9
  <2>5. CASE SoftDeleteSalesOrder(w)
    <3>1. PICK z \in SalesOrder : salesOrders' = [salesOrders EXCEPT ![z].deleted = TRUE]
      BY <2>5 DEF SoftDeleteSalesOrder
    <3>2. salesOrders'[s].status = salesOrders[s].status
      BY <2>2, <3>1
    <3> QED BY <3>2
  <2>6. CASE Updating(w)
    BY <2>1, <2>6, UpdatingIs
  <2>7. CASE CommitSubmission(w) \/ CommitReceipt(w) \/ DeleteInventory(w) \/ CreateFulfilment(w)
    BY <2>1, <2>7 DEF CommitSubmission, CommitReceipt, DeleteInventory, CreateFulfilment
  <2> QED BY <2>3, <2>4, <2>5, <2>6, <2>7
<1> QED BY <1>1, Invariance, PTL DEF Spec, FulfilledBeforeSubmitted
===============================================================================
