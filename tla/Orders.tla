--------------------------------- MODULE Orders ---------------------------------
(***************************************************************************)
(* Purchase and sales orders (services/purchase_orders, sales_orders) and  *)
(* what their submission makes: inventory on order, given at once to the   *)
(* rental fulfilments that wait for it, and the fulfilments themselves.    *)
(*                                                                         *)
(* submitPurchaseOrder is one transaction, but lists line items and        *)
(* fulfilments without its session; submitSalesOrder is a transaction for  *)
(* each fulfilment and then one write of the order.  Items are received    *)
(* in one transaction, each looked up without the session.                 *)
(*                                                                         *)
(* Transactions are those of EventStore: an open one knows which documents *)
(* were committed since its snapshot ("stale") and what it has written.    *)
(* A request that is a single transaction on one document is one step.     *)
(***************************************************************************)
EXTENDS Integers, FiniteSets

CONSTANTS
    Worker,       \* concurrent requests
    Submitter,    \* bound: the workers whose requests submit and receive
    PurchaseOrder, SalesOrder,
    PurchaseLine, SalesLine,  \* ids of line items
    PurchaseOrderOf,          \* [PurchaseLine -> PurchaseOrder]
    SalesOrderOf,             \* [SalesLine -> SalesOrder]
    Quantity,     \* quantities that requests give to a purchase line
    Fulfilment,   \* bound: ids of rental fulfilments, in order of creation
    Waiting,      \* fulfilments there at the start, of other sales orders
    Item,         \* bound: ids of inventory, in order of creation
    NoLine, NoItem, NoOrder, Closed,
    MaxCalls,     \* bound: requests
    MaxTries      \* bound: withTransaction's 120 s of retries, in tries

Doc == PurchaseOrder \cup Fulfilment \cup Item

ASSUME WorkerAssumption == Submitter \subseteq Worker
ASSUME OrderAssumption ==
    /\ PurchaseOrderOf \in [PurchaseLine -> PurchaseOrder]
    /\ SalesOrderOf \in [SalesLine -> SalesOrder]
    /\ NoLine \notin PurchaseLine \cup SalesLine \cup Nat
    /\ NoOrder \notin PurchaseOrder \cup SalesOrder
    /\ Quantity \subseteq Nat
ASSUME IdAssumption ==
    /\ IsFiniteSet(Item) /\ IsFiniteSet(Fulfilment)
    /\ Item \subseteq Nat /\ Fulfilment \subseteq Nat /\ Item \cap Fulfilment = {}
    /\ PurchaseOrder \cap (Item \cup Fulfilment) = {}
    /\ NoItem \notin Item /\ Waiting \subseteq Fulfilment
ASSUME BoundsAssumption == MaxCalls \in Nat /\ MaxTries \in Nat

VARIABLES
    purchaseOrders,  \* [PurchaseOrder -> status]
    purchaseLines,   \* [PurchaseLine -> quantity, NoLine: DRAFT or not there]
    salesOrders,     \* [SalesOrder -> [status, deleted]]
    salesLines,      \* the sales order line items that are not deleted
    fulfilments,     \* [Fulfilment -> FulfilmentDoc], committed
    inventory,       \* [Item -> InventoryDoc], committed
    task,            \* [Worker -> what it is doing]
    tx,              \* [Worker -> its open transaction]
    calls            \* requests so far

db == <<purchaseOrders, purchaseLines, salesOrders, salesLines, fulfilments, inventory>>
vars == <<db, task, tx, calls>>

\* reserved: a reservation was made with the assignment.
FulfilmentDoc == [status : {"NONE", "LIVE", "DELETED"},
                  salesLine : SalesLine \cup {NoLine},
                  purchaseLine : PurchaseLine \cup {NoLine},
                  item : Item \cup {NoItem},
                  reserved : BOOLEAN]

InventoryDoc == [status : {"NONE", "ON_ORDER", "RECEIVED", "DELETED"},
                 line : PurchaseLine \cup {NoLine}]

\* The documents of the snapshot, with those written.
Transaction == [stale : SUBSET Doc, wrote : SUBSET Doc,
                fulfilments : [Fulfilment -> FulfilmentDoc],
                inventory : [Item -> InventoryDoc]]

ASSUME ClosedAssumption == Closed \notin Transaction

Task == [op : {"idle", "submit PO", "submit SO", "receive"},
         step : {"idle", "begin", "list", "lines", "waiting", "assign", "look",
                 "create", "receive"},
         order : PurchaseOrder \cup SalesOrder \cup {NoOrder},
         ordered : [PurchaseLine -> Nat],  \* items to be made, as listed
         listed : SUBSET SalesLine,        \* line items of the sales order
         pending : SUBSET (PurchaseLine \cup SalesLine),  \* still to be done
         line : PurchaseLine \cup SalesLine \cup {NoLine},
         spare : SUBSET Item,         \* createdInventoryIds
         waiting : SUBSET Fulfilment, \* fulfilments listed for them
         items : SUBSET Item,         \* to be received
         left : SUBSET Item,          \* of these, those still to be done
         item : Item \cup {NoItem},
         tries : Nat]                 \* runs of the callback so far

Idle == [op |-> "idle", step |-> "idle", order |-> NoOrder,
         ordered |-> [l \in PurchaseLine |-> 0], listed |-> {}, pending |-> {},
         line |-> NoLine, spare |-> {}, waiting |-> {}, items |-> {}, left |-> {},
         item |-> NoItem, tries |-> 0]

NoFulfilment == [status |-> "NONE", salesLine |-> NoLine, purchaseLine |-> NoLine,
                 item |-> NoItem, reserved |-> FALSE]

Init ==
    /\ purchaseOrders = [p \in PurchaseOrder |-> "DRAFT"]
    /\ purchaseLines \in [PurchaseLine -> Quantity]
    /\ salesOrders = [s \in SalesOrder |-> [status |-> "DRAFT", deleted |-> FALSE]]
    /\ salesLines = SalesLine
    /\ \E line \in [Waiting -> PurchaseLine] :
        fulfilments = [f \in Fulfilment |->
            IF f \in Waiting THEN [NoFulfilment EXCEPT !.status = "LIVE",
                                                      !.purchaseLine = line[f]]
                             ELSE NoFulfilment]
    /\ inventory = [i \in Item |-> [status |-> "NONE", line |-> NoLine]]
    /\ task = [w \in Worker |-> Idle]
    /\ tx = [w \in Worker |-> Closed]
    /\ calls = 0
-------------------------------------------------------------------------------
At(w, step) == task[w].step = step

Become(w, t) == task' = [task EXCEPT ![w] = t] /\ UNCHANGED calls
Goto(w, step) == Become(w, [task[w] EXCEPT !.step = step])

\* A step that writes nothing to the database.
Local == UNCHANGED <<db, tx>>

Counted(w) == task[w] = Idle /\ calls < MaxCalls /\ calls' = calls + 1

Request(w, t) ==
    w \in Submitter /\ Counted(w) /\ task' = [task EXCEPT ![w] = t] /\ Local

Wrote(v) == IF tx[v] = Closed THEN {} ELSE tx[v].wrote

\* No other open transaction has written the document.
Writable(w, d) == \A v \in Worker \ {w} : d \notin Wrote(v)

\* Mutant of Conflict: only writes that are not committed are noticed.
ConflictWithOpen(w, d) == ~Writable(w, d)

\* WriteConflict: the document was written since the snapshot, or is being.
Conflict(w, d) == (tx[w] # Closed /\ d \in tx[w].stale) \/ ~Writable(w, d)

\* w commits writes of the documents ds, and has no transaction afterwards.
Committed(w, ds) ==
    tx' = [v \in Worker |-> IF v = w \/ tx[v] = Closed THEN Closed
                            ELSE [tx[v] EXCEPT !.stale = @ \cup ds]]

Snapshot == [stale |-> {}, wrote |-> {}, fulfilments |-> fulfilments,
             inventory |-> inventory]

Throw(w) == Become(w, Idle) /\ tx' = [tx EXCEPT ![w] = Closed] /\ UNCHANGED db

\* withTransaction starts the callback again, or gives up.
Retry(w) ==
    IF task[w].tries < MaxTries
    THEN /\ Become(w, [Idle EXCEPT !.op = task[w].op, !.step = "begin",
                          !.order = task[w].order, !.items = task[w].items,
                          !.left = task[w].items, !.tries = task[w].tries + 1])
         /\ tx' = [tx EXCEPT ![w] = Closed]
         /\ UNCHANGED db
    ELSE Throw(w)

\* The first n of the ids, in order.
First(n, ids) == {i \in ids : Cardinality({j \in ids : j < i}) < n}

\* Ids that no document has, nor one that w has written.
FreeItems(w) == {i \in Item : inventory[i].status = "NONE" /\ tx[w].inventory[i].status = "NONE"
                                /\ Writable(w, i)}
-------------------------------------------------------------------------------
(***************************************************************************)
(* submitPurchaseOrder.  Neither the order's status nor its deletion is    *)
(* looked at.  The write of the status is the first of the transaction.    *)
(***************************************************************************)
SubmitPurchaseOrder(w) ==
    \E p \in PurchaseOrder :
        Request(w, [Idle EXCEPT !.op = "submit PO", !.step = "begin", !.order = p])

UpdatePurchaseOrderStatus(w) ==
    /\ At(w, "begin") /\ task[w].op = "submit PO"
    /\ IF Writable(w, task[w].order)
       THEN /\ tx' = [tx EXCEPT ![w] = [Snapshot EXCEPT !.wrote = {task[w].order}]]
            /\ Goto(w, "list")
            /\ UNCHANGED db
       ELSE Retry(w)

\* po_quantity || 1
OnOrder(l) ==
    IF purchaseLines[l] = NoLine THEN 0
    ELSE IF purchaseLines[l] = 0 THEN 1 ELSE purchaseLines[l]

\* The line items that are not DRAFT, read without the session.
ListLineItems(w) ==
    /\ At(w, "list")
    /\ LET lines == {l \in PurchaseLine : /\ PurchaseOrderOf[l] = task[w].order
                                          /\ purchaseLines[l] # NoLine}
       IN Become(w, [task[w] EXCEPT !.step = "lines", !.pending = lines,
              !.ordered = [l \in PurchaseLine |-> IF l \in lines THEN OnOrder(l) ELSE 0]])
    /\ Local

OnOrderItem(l) == [status |-> "ON_ORDER", line |-> l]

NextLine(w) == At(w, "lines") \/ (At(w, "assign") /\ task[w].waiting = {})

\* Mutant of CreateInventory: the session is not passed on.
CreateWithoutSession(w) ==
    /\ NextLine(w)
    /\ \E l \in task[w].pending :
        LET n == task[w].ordered[l]
            new == First(n, FreeItems(w))
        IN /\ Cardinality(new) = n
           /\ inventory' = [i \in Item |-> IF i \in new THEN OnOrderItem(l) ELSE inventory[i]]
           /\ Become(w, [task[w] EXCEPT !.step = "waiting", !.line = l, !.spare = new,
                            !.pending = @ \ {l}])
    /\ UNCHANGED <<purchaseOrders, purchaseLines, salesOrders, salesLines, fulfilments, tx>>

\* For one line item, its quantity of items.
CreateInventory(w) ==
    /\ NextLine(w)
    /\ \E l \in task[w].pending :
        LET n == task[w].ordered[l]
            new == First(n, FreeItems(w))
        IN /\ Cardinality(new) = n
           /\ tx' = [tx EXCEPT ![w].wrote = @ \cup new,
                  ![w].inventory = [i \in Item |-> IF i \in new THEN OnOrderItem(l) ELSE @[i]]]
           /\ Become(w, [task[w] EXCEPT !.step = "waiting", !.line = l, !.spare = new,
                            !.pending = @ \ {l}])
           /\ UNCHANGED db

Unassigned(l) == {f \in Fulfilment :
    fulfilments[f].status = "LIVE" /\ fulfilments[f].purchaseLine = l
        /\ fulfilments[f].item = NoItem}

\* listRentalFulfilments: no more than the quantity, again without the session.
ListFulfilments(w) ==
    /\ At(w, "waiting")
    /\ LET l == task[w].line IN
       Become(w, [task[w] EXCEPT !.step = "assign",
                     !.waiting = First(task[w].ordered[l], Unassigned(l))])
    /\ Local

\* The item leaves createdInventoryIds in any case.  A fulfilment that is not in
\* the snapshot is an error, which is logged.  A WriteConflict is logged, too,
\* but it has aborted the transaction: what comes next starts it again.
AssignOnOrder(w) ==
    /\ At(w, "assign")
    /\ \E f \in First(1, task[w].waiting), i \in First(1, task[w].spare) :
        LET done == [task[w] EXCEPT !.waiting = @ \ {f}, !.spare = @ \ {i}] IN
        IF tx[w].fulfilments[f].status # "LIVE"
        THEN Become(w, done) /\ Local
        ELSE IF Conflict(w, f) THEN Retry(w)
        ELSE /\ tx' = [tx EXCEPT ![w].wrote = @ \cup {f},
                   ![w].fulfilments[f] = [@ EXCEPT !.item = i, !.reserved = FALSE]]
             /\ Become(w, done)
             /\ UNCHANGED db

FulfilmentsAfter(w) == [f \in Fulfilment |->
    IF f \in tx[w].wrote THEN tx[w].fulfilments[f] ELSE fulfilments[f]]
InventoryAfter(w) == [i \in Item |->
    IF i \in tx[w].wrote THEN tx[w].inventory[i] ELSE inventory[i]]

\* The commit, which is sent once more afterwards; if that fails, the caller
\* sees an error, and may submit the order again.
CommitSubmission(w) ==
    /\ task[w].op = "submit PO" /\ NextLine(w) /\ task[w].pending = {}
    /\ purchaseOrders' = [purchaseOrders EXCEPT ![task[w].order] = "SUBMITTED"]
    /\ fulfilments' = FulfilmentsAfter(w)
    /\ inventory' = InventoryAfter(w)
    /\ Committed(w, tx[w].wrote)
    /\ Become(w, Idle)
    /\ UNCHANGED <<purchaseLines, salesOrders, salesLines>>

\* createPurchaseOrderLineItem, patchPurchaseOrderLineItem, softDelete...
WritePurchaseLine(w) ==
    /\ Counted(w)
    /\ \E l \in PurchaseLine, q \in Quantity \cup {NoLine} :
        purchaseLines' = [purchaseLines EXCEPT ![l] = q]
    /\ UNCHANGED <<purchaseOrders, salesOrders, salesLines, fulfilments, inventory, task, tx>>
-------------------------------------------------------------------------------
(***************************************************************************)
(* The resolver submitSalesOrder.                                          *)
(***************************************************************************)
LinesOf(s) == {l \in salesLines : SalesOrderOf[l] = s}

SubmitSalesOrder(w) ==
    \E s \in SalesOrder :
        /\ ~salesOrders[s].deleted
        /\ Request(w, [Idle EXCEPT !.op = "submit SO", !.step = "look", !.order = s,
                          !.listed = LinesOf(s), !.pending = LinesOf(s)])

\* The order must not be deleted; the line item may be.
GetSalesOrder(w) ==
    /\ At(w, "look")
    /\ \E l \in task[w].pending :
        IF salesOrders[task[w].order].deleted THEN Throw(w)
        ELSE Become(w, [task[w] EXCEPT !.step = "create", !.line = l]) /\ Local

\* createFulfilmentFromSalesOrderItem; others of the line item are not looked for.
CreateFulfilment(w) ==
    /\ At(w, "create")
    /\ \E f \in First(1, {g \in Fulfilment : fulfilments[g].status = "NONE"}) :
        /\ fulfilments' = [fulfilments EXCEPT
               ![f] = [NoFulfilment EXCEPT !.status = "LIVE", !.salesLine = task[w].line]]
        /\ Committed(w, {f})
    /\ Become(w, [task[w] EXCEPT !.step = "look", !.pending = @ \ {task[w].line}])
    /\ UNCHANGED <<purchaseOrders, purchaseLines, salesOrders, salesLines, inventory>>

\* Mutant of UpdateSalesOrderStatus: the fulfilments are not awaited.
SubmitFirst(w) ==
    /\ At(w, "look")
    /\ salesOrders' = [salesOrders EXCEPT ![task[w].order].status = "SUBMITTED"]
    /\ Become(w, Idle)
    /\ UNCHANGED <<purchaseOrders, purchaseLines, salesLines, fulfilments, inventory, tx>>

\* submitSalesOrder of the service
UpdateSalesOrderStatus(w) ==
    /\ At(w, "look") /\ task[w].pending = {}
    /\ salesOrders' = [salesOrders EXCEPT ![task[w].order].status = "SUBMITTED"]
    /\ Become(w, Idle)
    /\ UNCHANGED <<purchaseOrders, purchaseLines, salesLines, fulfilments, inventory, tx>>

SoftDeleteSalesOrder(w) ==
    /\ Counted(w)
    /\ \E s \in SalesOrder : salesOrders' = [salesOrders EXCEPT ![s].deleted = TRUE]
    /\ UNCHANGED <<purchaseOrders, purchaseLines, salesLines, fulfilments, inventory, task, tx>>

SoftDeleteSalesLine(w) ==
    /\ Counted(w)
    /\ \E l \in salesLines : salesLines' = salesLines \ {l}
    /\ UNCHANGED <<purchaseOrders, purchaseLines, salesOrders, fulfilments, inventory, task, tx>>
-------------------------------------------------------------------------------
(***************************************************************************)
(* What else is done with a fulfilment: each one transaction on it.        *)
(***************************************************************************)
UpdateFulfilment(w, f, doc) ==
    /\ Counted(w)
    /\ fulfilments[f].status = "LIVE" /\ Writable(w, f)
    /\ fulfilments' = [fulfilments EXCEPT ![f] = doc]
    /\ Committed(w, {f})
    /\ UNCHANGED <<purchaseOrders, purchaseLines, salesOrders, salesLines, inventory, task>>

InStock(i) == inventory[i].status \in {"ON_ORDER", "RECEIVED"}

\* assignInventoryToRentalFulfilmentWithReservation, as in Reservations.
AssignInventory(w) ==
    \E f \in Fulfilment, i \in Item :
        /\ InStock(i)
        /\ UpdateFulfilment(w, f, [fulfilments[f] EXCEPT
               !.item = i, !.reserved = TRUE, !.purchaseLine = inventory[i].line])

\* It throws when there is no reservation to delete.
UnassignInventory(w) ==
    \E f \in Fulfilment :
        /\ fulfilments[f].item # NoItem /\ fulfilments[f].reserved
        /\ UpdateFulfilment(w, f, [fulfilments[f] EXCEPT
               !.item = NoItem, !.reserved = FALSE])

SetPurchaseOrderLineItemId(w) ==
    \E f \in Fulfilment, l \in PurchaseLine \cup {NoLine} :
        UpdateFulfilment(w, f, [fulfilments[f] EXCEPT !.purchaseLine = l])

DeleteFulfilment(w) ==
    \E f \in Fulfilment :
        UpdateFulfilment(w, f, [fulfilments[f] EXCEPT !.status = "DELETED"])
-------------------------------------------------------------------------------
(***************************************************************************)
(* bulkMarkInventoryReceived: for each id a look without the session, then *)
(* the event in the transaction, whose snapshot the first event takes.     *)
(***************************************************************************)
BulkMarkInventoryReceived(w) ==
    \E ids \in SUBSET Item :
        /\ \A i \in ids : inventory[i].status # "NONE"
        /\ ids # {}
        /\ Request(w, [Idle EXCEPT !.op = "receive", !.step = "begin",
                          !.items = ids, !.left = ids])

GetInventory(w) ==
    /\ At(w, "begin") /\ task[w].op = "receive"
    /\ \E i \in First(1, task[w].left) :
        IF InStock(i) THEN Become(w, [task[w] EXCEPT !.step = "receive", !.item = i]) /\ Local
        ELSE Throw(w)

\* Mutant of MarkInventoryReceived: the session is not passed on.
ReceiveWithoutSession(w) ==
    /\ At(w, "receive")
    /\ LET i == task[w].item IN
       IF ~InStock(i) THEN Throw(w)
       ELSE /\ inventory' = [inventory EXCEPT ![i].status = "RECEIVED"]
            /\ tx' = [tx EXCEPT ![w] = Snapshot]
            /\ Become(w, [task[w] EXCEPT !.step = "begin", !.left = @ \ {i}])
            /\ UNCHANGED <<purchaseOrders, purchaseLines, salesOrders, salesLines, fulfilments>>

MarkInventoryReceived(w) ==
    /\ At(w, "receive")
    /\ LET i == task[w].item
           t == IF tx[w] = Closed THEN Snapshot ELSE tx[w]
       IN IF Conflict(w, i) THEN Retry(w)
          ELSE IF t.inventory[i].status \notin {"ON_ORDER", "RECEIVED"} THEN Throw(w)
          ELSE /\ tx' = [tx EXCEPT ![w] = [t EXCEPT !.wrote = @ \cup {i},
                                                     !.inventory[i].status = "RECEIVED"]]
               /\ Become(w, [task[w] EXCEPT !.step = "begin", !.left = @ \ {i}])
               /\ UNCHANGED db

CommitReceipt(w) ==
    /\ At(w, "begin") /\ task[w].op = "receive" /\ task[w].left = {}
    /\ inventory' = InventoryAfter(w)
    /\ Committed(w, tx[w].wrote)
    /\ Become(w, Idle)
    /\ UNCHANGED <<purchaseOrders, purchaseLines, salesOrders, salesLines, fulfilments>>

\* Fulfilments that have the item keep it.
DeleteInventory(w) ==
    /\ Counted(w)
    /\ \E i \in Item :
        /\ InStock(i) /\ Writable(w, i)
        /\ inventory' = [inventory EXCEPT ![i].status = "DELETED"]
        /\ Committed(w, {i})
    /\ UNCHANGED <<purchaseOrders, purchaseLines, salesOrders, salesLines, fulfilments, task>>
-------------------------------------------------------------------------------
\* A transient error, within withTransaction.
TransientFault(w) == tx[w] # Closed /\ Retry(w)

\* An awaited call throws, or the process dies.
Abort(w) == task[w] # Idle /\ Throw(w)

Next ==
    \E w \in Worker :
        \/ SubmitPurchaseOrder(w) \/ UpdatePurchaseOrderStatus(w) \/ ListLineItems(w)
        \/ CreateInventory(w) \/ ListFulfilments(w) \/ AssignOnOrder(w)
        \/ CommitSubmission(w) \/ WritePurchaseLine(w)
        \/ SubmitSalesOrder(w) \/ GetSalesOrder(w) \/ CreateFulfilment(w)
        \/ UpdateSalesOrderStatus(w) \/ SoftDeleteSalesOrder(w) \/ SoftDeleteSalesLine(w)
        \/ AssignInventory(w) \/ UnassignInventory(w)
        \/ SetPurchaseOrderLineItemId(w) \/ DeleteFulfilment(w)
        \/ BulkMarkInventoryReceived(w) \/ GetInventory(w) \/ MarkInventoryReceived(w)
        \/ CommitReceipt(w) \/ DeleteInventory(w)
        \/ TransientFault(w) \/ Abort(w)

Spec == Init /\ [][Next]_vars
-------------------------------------------------------------------------------
(***************************************************************************)
(* Documents, requests and transactions have their types; a document that  *)
(* has been written is written by one open transaction; only submitted     *)
(* orders have inventory.                                                  *)
(***************************************************************************)
TypeOK ==
    /\ purchaseOrders \in [PurchaseOrder -> {"DRAFT", "SUBMITTED"}]
    /\ purchaseLines \in [PurchaseLine -> Quantity \cup {NoLine}]
    /\ salesOrders \in [SalesOrder -> [status : {"DRAFT", "SUBMITTED"}, deleted : BOOLEAN]]
    /\ salesLines \subseteq SalesLine
    /\ fulfilments \in [Fulfilment -> FulfilmentDoc]
    /\ inventory \in [Item -> InventoryDoc]
    /\ task \in [Worker -> Task]
    /\ \A w \in Worker : tx[w] # Closed =>
          /\ tx[w] \in Transaction
          /\ task[w].op \in {"submit PO", "receive"}
          /\ \A v \in Worker \ {w} : Wrote(v) \cap Wrote(w) = {}
    /\ \A i \in Item : inventory[i].status # "NONE" =>
          purchaseOrders[PurchaseOrderOf[inventory[i].line]] = "SUBMITTED"
    /\ calls \in 0 .. MaxCalls

(***************************************************************************)
(* "Start a transaction to ensure atomicity": an order becomes SUBMITTED   *)
(* in the step in which its inventory appears, all of it, for every line   *)
(* item the number that was listed; neither comes without the other.  The  *)
(* code lets an order be submitted again, and then makes all of it again.  *)
(***************************************************************************)
Submitted(w) ==
    /\ task[w].op = "submit PO" /\ task'[w] = Idle
    /\ inventory' # inventory \/ purchaseOrders' # purchaseOrders

SubmissionIsWhole ==
    [][LET new == {i \in Item : inventory[i].status = "NONE" /\ inventory'[i].status # "NONE"} IN
       /\ new # {} \/ purchaseOrders' # purchaseOrders => \E w \in Worker : Submitted(w)
       /\ \A w \in Worker : Submitted(w) =>
            /\ purchaseOrders'[task[w].order] = "SUBMITTED"
            /\ \A i \in new : inventory'[i].status = "ON_ORDER"
            /\ \A l \in PurchaseLine :
                 Cardinality({i \in new : inventory'[i].line = l}) = task[w].ordered[l]]_vars

(***************************************************************************)
(* What a submission gives to a fulfilment is its own, of the line item    *)
(* that the fulfilment names when the submission commits; and it takes no  *)
(* item away, though it looked for fulfilments without an item long before.*)
(***************************************************************************)
AssignmentKept ==
    [][\A f \in Fulfilment, i \in Item :
          fulfilments[f].item # i /\ fulfilments'[f].item = i /\ ~fulfilments'[f].reserved =>
            /\ fulfilments[f].status = "LIVE" /\ fulfilments[f].item = NoItem
            /\ inventory'[i] = OnOrderItem(fulfilments[f].purchaseLine)
            /\ \A g \in Fulfilment \ {f} : fulfilments'[g].item # i]_vars

(***************************************************************************)
(* "fails transactionally when one item cannot be marked as received": the *)
(* items of a request are received in one step, none of them deleted since *)
(* it was looked at.                                                       *)
(***************************************************************************)
ReceivedTogether ==
    [][\A i \in Item : inventory[i].status # "RECEIVED" /\ inventory'[i].status = "RECEIVED" =>
          \E w \in Worker :
            /\ task[w].op = "receive" /\ i \in task[w].items
            /\ \A j \in task[w].items : InStock(j) /\ inventory'[j].status = "RECEIVED"]_vars

(***************************************************************************)
(* A sales order becomes SUBMITTED when each of its line items, as the     *)
(* request that writes it has listed them, has had its fulfilment: deleted *)
(* again, perhaps, or one of several when a submission that failed halfway *)
(* was tried again.                                                        *)
(***************************************************************************)
FulfilledBeforeSubmitted ==
    [][\A s \in SalesOrder :
          salesOrders[s].status # "SUBMITTED" /\ salesOrders'[s].status = "SUBMITTED" =>
            \E w \in Worker : /\ task[w].order = s /\ task'[w] # task[w]
                              /\ \A l \in task[w].listed : \E f \in Fulfilment :
                                    /\ fulfilments[f].status # "NONE"
                                    /\ fulfilments[f].salesLine = l]_vars
===============================================================================
