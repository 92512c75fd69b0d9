----------------------------- MODULE Reservations -----------------------------
(***************************************************************************)
(* Reservations of inventory (services/inventory) and the assignment of    *)
(* inventory to rental fulfilments (services/fulfilment, with the resolver *)
(* of graphql/schema/fulfilment.ts that takes it back).                    *)
(*                                                                         *)
(* An assignment reserves the item for the dates of the rental, in one     *)
(* transaction; whether the item is free is looked up outside of it.       *)
(* Taking an item back deletes the reservations and then writes the        *)
(* fulfilment, each in a transaction of its own.                           *)
(*                                                                         *)
(* Every database round trip is a step; between the steps other requests   *)
(* run.  A call on one event-sourced document in a transaction of its own  *)
(* is one step, as EventStore shows.                                       *)
(***************************************************************************)
EXTENDS Integers, FiniteSets

CONSTANTS
    Worker,      \* concurrent requests
    Fulfilment,  \* rental fulfilments, all of one company
    Item,        \* inventory
    Ordered,     \* the items that have a purchase order line item
    Date,        \* days that requests name
    CreatedAt,   \* the day on which the fulfilments were created
    NoDate,      \* not set
    NoItem,      \* not assigned
    None,        \* no transaction is open
    MaxCalls,    \* bound: requests
    MaxTries     \* bound: withTransaction's 120 s of retries, in tries

ASSUME ItemAssumption == Ordered \subseteq Item /\ NoItem \notin Item
ASSUME DateAssumption ==
    Date \subseteq Int /\ CreatedAt \in Int /\ NoDate \notin Int
ASSUME BoundsAssumption == MaxCalls \in Nat /\ MaxTries \in Nat

Day == Date \cup {CreatedAt}

\* purchaseOrderLineItem: the item whose line item the fulfilment names.
FulfilmentDoc == [live : BOOLEAN,
                  inventoryId : Item \cup {NoItem},
                  purchaseOrderLineItem : Ordered \cup {NoItem},
                  rentalStartDate : Date \cup {NoDate},
                  expectedRentalEndDate : Date \cup {NoDate}]

Reservation == [id : Nat, inventoryId : Item, fulfilmentId : Fulfilment,
                startDate : Day, endDate : Day]

VARIABLES
    fulfilments,   \* [Fulfilment -> FulfilmentDoc], committed
    version,       \* [Fulfilment -> committed writes of the document]
    reservations,  \* the documents of inventory_reservations
    made,          \* reservations so far, the deleted ones included
    allowed,       \* history: ids made with allowOverlappingReservations
    raced,         \* history: ids made after another request looked, see Races
    task,          \* [Worker -> what it is doing]
    view,          \* [Worker -> what its open transaction sees and has written]
    calls          \* requests so far

db == <<fulfilments, version, reservations, made, allowed, raced>>
vars == <<db, task, view, calls>>

Task == [op : {"idle", "assign", "reserve", "unassign", "start", "end"},
         step : {"idle", "read", "check", "reserve", "assign", "line", "commit",
                 "list", "delete", "unassign", "write"},
         fulfilment : Fulfilment \cup {NoItem},
         item : Item \cup {NoItem},
         startDate : Day \cup {NoDate},
         endDate : Day \cup {NoDate},
         allow : BOOLEAN,     \* allowOverlappingReservations
         tries : Nat,         \* runs of the callback so far
         pending : SUBSET Reservation,  \* to be looked up before deletion
         found : SUBSET Reservation,    \* to be deleted
         rejected : BOOLEAN]  \* one of the deletions has failed

View == [doc : FulfilmentDoc, version : Nat, reserved : BOOLEAN, wrote : BOOLEAN]

ASSUME NoneAssumption == None \notin View

Idle == [op |-> "idle", step |-> "idle", fulfilment |-> NoItem, item |-> NoItem,
         startDate |-> NoDate, endDate |-> NoDate, allow |-> FALSE, tries |-> 0,
         pending |-> {}, found |-> {}, rejected |-> FALSE]

\* The services check that a rental starts before it is expected to end.
InOrder(doc) ==
    doc.rentalStartDate # NoDate /\ doc.expectedRentalEndDate # NoDate
        => doc.rentalStartDate < doc.expectedRentalEndDate

Init ==
    /\ fulfilments \in [Fulfilment -> {d \in FulfilmentDoc :
            /\ d.live /\ InOrder(d)
            /\ d.inventoryId = NoItem /\ d.purchaseOrderLineItem = NoItem}]
    /\ version = [f \in Fulfilment |-> 0]
    /\ reservations = {}
    /\ made = 0
    /\ allowed = {}
    /\ raced = {}
    /\ task = [w \in Worker |-> Idle]
    /\ view = [w \in Worker |-> None]
    /\ calls = 0

At(w, op, step) == task[w].op = op /\ task[w].step = step

Become(w, t) == task' = [task EXCEPT ![w] = t] /\ UNCHANGED calls

Goto(w, step) == Become(w, [task[w] EXCEPT !.step = step])

\* Mutant of Done: the session is not ended.
DoneWithinSession(w) == Become(w, Idle) /\ UNCHANGED view

\* The request is over, and so is its transaction, if one is open.
Done(w) == Become(w, Idle) /\ view' = [view EXCEPT ![w] = None]

Throw(w) == Done(w) /\ UNCHANGED db

\* withTransaction starts the callback again, or gives up.
Retry(w) ==
    IF task[w].tries < MaxTries
    THEN /\ Become(w, [task[w] EXCEPT !.tries = @ + 1, !.step = "read"])
         /\ view' = [view EXCEPT ![w] = None]
         /\ UNCHANGED db
    ELSE Throw(w)

Request(w, t) ==
    /\ task[w] = Idle
    /\ calls < MaxCalls
    /\ calls' = calls + 1
    /\ task' = [task EXCEPT ![w] = t]
    /\ UNCHANGED <<db, view>>

Call(op, step, f) == [Idle EXCEPT !.op = op, !.step = step, !.fulfilment = f]

\* No open transaction of another worker has written the document.
Writable(w, f) == \A v \in Worker \ {w} :
    view[v] # None => ~(task[v].fulfilment = f /\ view[v].wrote)

\* A write of one fulfilment in a transaction of its own.
Update(f, doc) ==
    /\ fulfilments' = [fulfilments EXCEPT ![f] = doc]
    /\ version' = [version EXCEPT ![f] = @ + 1]
    /\ UNCHANGED <<reservations, made, allowed, raced>>

(***************************************************************************)
(* buildMongoFilter with both dates: the reservations that start in the    *)
(* range, end in it, or encompass it.                                      *)
(***************************************************************************)
\* Mutant: the third case of the filter is forgotten.
NotEncompassing(r, from, to) ==
    \/ r.startDate >= from /\ r.startDate <= to
    \/ r.endDate >= from /\ r.endDate <= to

InRange(r, from, to) ==
    \/ r.startDate >= from /\ r.startDate <= to
    \/ r.endDate >= from /\ r.endDate <= to
    \/ r.startDate <= from /\ r.endDate >= to

\* v has found the item free for its dates, which are met by these, and has yet
\* to reserve it.
FoundFree(v) ==
    /\ task[v].op \in {"assign", "reserve"} /\ ~task[v].allow
    /\ task[v].step \in {"reserve", "assign", "line", "commit"}

Races(v, item, from, to) ==
    /\ FoundFree(v) /\ task[v].item = item
    /\ InRange([startDate |-> from, endDate |-> to], task[v].startDate, task[v].endDate)

\* The new reservation of w's request, for the dates given.
AddReservation(w, from, to) ==
    /\ made' = made + 1
    /\ reservations' = reservations \cup
           {[id |-> made + 1, inventoryId |-> task[w].item,
             fulfilmentId |-> task[w].fulfilment,
             startDate |-> from, endDate |-> to]}
    /\ allowed' = IF task[w].allow THEN allowed \cup {made + 1} ELSE allowed
    /\ raced' = IF \E v \in Worker \ {w} : Races(v, task[w].item, from, to)
                THEN raced \cup {made + 1} ELSE raced
-------------------------------------------------------------------------------
\* The dates an assignment reserves.
StartOf(doc) ==
    IF doc.rentalStartDate # NoDate THEN doc.rentalStartDate ELSE CreatedAt
EndOf(doc) ==
    IF doc.expectedRentalEndDate # NoDate THEN doc.expectedRentalEndDate ELSE CreatedAt
-------------------------------------------------------------------------------
(***************************************************************************)
(* assignInventoryToRentalFulfilmentWithReservation, in one transaction.   *)
(***************************************************************************)
AssignInventory(w) ==
    \E f \in Fulfilment, i \in Item, allow \in BOOLEAN :
        /\ Request(w, [Call("assign", "read", f) EXCEPT !.item = i, !.allow = allow])

\* The first read with the session, which takes the snapshot.
ReadFulfilment(w) ==
    /\ At(w, "assign", "read")
    /\ LET f == task[w].fulfilment
           step == IF task[w].allow THEN "reserve" ELSE "check"
       IN IF ~fulfilments[f].live THEN Throw(w)
          ELSE /\ view' = [view EXCEPT ![w] =
                      [doc |-> fulfilments[f], version |-> version[f],
                       reserved |-> FALSE, wrote |-> FALSE]]
               /\ Become(w, [task[w] EXCEPT !.step = step,
                                !.startDate = StartOf(fulfilments[f]),
                                !.endDate = EndOf(fulfilments[f])])
               /\ UNCHANGED db

\* listInventoryReservations takes no session: it reads what is committed.
CheckOverlap(w) ==
    /\ task[w].step = "check"
    /\ IF \E r \in reservations : /\ r.inventoryId = task[w].item
                                  /\ InRange(r, task[w].startDate, task[w].endDate)
       THEN Throw(w)
       ELSE Goto(w, "reserve") /\ UNCHANGED <<db, view>>

\* Mutant of ReserveForAssignment: the session is not passed on.
ReserveWithoutSession(w) ==
    /\ At(w, "assign", "reserve")
    /\ AddReservation(w, task[w].startDate, task[w].endDate)
    /\ Goto(w, "assign")
    /\ UNCHANGED <<fulfilments, version, view>>

ReserveForAssignment(w) ==
    /\ At(w, "assign", "reserve")
    /\ view' = [view EXCEPT ![w].reserved = TRUE]
    /\ Goto(w, "assign")
    /\ UNCHANGED db

\* Mutant of Conflict: only writes that are not committed are noticed.
ConflictWithOpen(w) == ~Writable(w, task[w].fulfilment)

\* WriteConflict: the document was written since the snapshot, or is being.
Conflict(w) ==
    \/ version[task[w].fulfilment] # view[w].version
    \/ ~Writable(w, task[w].fulfilment)

\* Mutant: the read of the fulfilment was without the session, and so the
\* snapshot is taken only now.
AssignInventoryAsRead(w) ==
    /\ At(w, "assign", "assign")
    /\ Writable(w, task[w].fulfilment)
    /\ view' = [view EXCEPT ![w].doc =
                   [fulfilments[task[w].fulfilment] EXCEPT !.inventoryId = task[w].item]]
    /\ Goto(w, IF task[w].item \in Ordered THEN "line" ELSE "commit")
    /\ UNCHANGED db

AssignInventoryToFulfilment(w) ==
    /\ At(w, "assign", "assign")
    /\ IF Conflict(w) THEN Retry(w)
       ELSE /\ view' = [view EXCEPT ![w].doc.inventoryId = task[w].item,
                                    ![w].wrote = TRUE]
            /\ Goto(w, IF task[w].item \in Ordered THEN "line" ELSE "commit")
            /\ UNCHANGED db

SetPurchaseOrderLineItemId(w) ==
    /\ At(w, "assign", "line")
    /\ view' = [view EXCEPT ![w].doc.purchaseOrderLineItem = task[w].item]
    /\ Goto(w, "commit")
    /\ UNCHANGED db

CommitAssignment(w) ==
    /\ At(w, "assign", "commit")
    /\ fulfilments' = [fulfilments EXCEPT ![task[w].fulfilment] = view[w].doc]
    /\ version' = [version EXCEPT ![task[w].fulfilment] = @ + 1]
    /\ IF view[w].reserved
       THEN AddReservation(w, task[w].startDate, task[w].endDate)
       ELSE UNCHANGED <<reservations, made, allowed, raced>>
    /\ Done(w)
-------------------------------------------------------------------------------
(***************************************************************************)
(* createFulfilmentReservation as a request of its own, for dates given by *)
(* the caller; the fulfilment is not looked at.                            *)
(***************************************************************************)
CreateFulfilmentReservation(w) ==
    \E f \in Fulfilment, i \in Item, from \in Date, to \in Date :
        /\ Request(w, [Call("reserve", "check", f) EXCEPT
                          !.item = i, !.startDate = from, !.endDate = to])

ReserveDirectly(w) ==
    /\ At(w, "reserve", "reserve")
    /\ AddReservation(w, task[w].startDate, task[w].endDate)
    /\ Done(w)
    /\ UNCHANGED <<fulfilments, version>>
-------------------------------------------------------------------------------
(***************************************************************************)
(* The resolver unassignInventoryFromRentalFulfilment.                     *)
(***************************************************************************)
UnassignInventory(w) ==
    \E f \in Fulfilment : Request(w, Call("unassign", "read", f))

ReadForUnassign(w) ==
    /\ At(w, "unassign", "read")
    /\ LET doc == fulfilments[task[w].fulfilment] IN
       IF ~doc.live \/ doc.inventoryId = NoItem THEN Throw(w)
       ELSE /\ Become(w, [task[w] EXCEPT !.step = "list", !.item = doc.inventoryId])
            /\ UNCHANGED <<db, view>>

\* Mutant of ReservationsOf: the filter names the item only.
ReservationsOfItem(f, i) == {r \in reservations : r.inventoryId = i}

ReservationsOf(f, i) ==
    {r \in reservations : r.inventoryId = i /\ r.fulfilmentId = f}

\* deleteFulfilmentReservation
ListReservations(w) ==
    /\ At(w, "unassign", "list")
    /\ LET mine == ReservationsOf(task[w].fulfilment, task[w].item) IN
       IF mine = {} THEN Throw(w)
       ELSE /\ Become(w, [task[w] EXCEPT !.step = "delete", !.pending = mine])
            /\ UNCHANGED <<db, view>>

\* deleteReservation, for each at the same time: a read, and the event.
GetReservation(w) ==
    \E r \in task[w].pending :
        /\ Become(w, [task[w] EXCEPT
               !.pending = @ \ {r},
               !.found = IF r \in reservations THEN @ \cup {r} ELSE @])
        /\ UNCHANGED <<db, view>>

\* The event of a reservation that is gone throws.
DeleteReservation(w) ==
    \E r \in task[w].found :
        /\ Become(w, [task[w] EXCEPT !.found = @ \ {r},
                         !.rejected = @ \/ r \notin reservations])
        /\ reservations' = reservations \ {r}
        /\ UNCHANGED <<fulfilments, version, made, allowed, raced, view>>

\* Promise.all
AllDeleted(w) ==
    /\ At(w, "unassign", "delete")
    /\ task[w].pending = {} /\ task[w].found = {}
    /\ IF task[w].rejected THEN Throw(w)
       ELSE Goto(w, "unassign") /\ UNCHANGED <<db, view>>

UnassignInventoryFromFulfilment(w) ==
    /\ At(w, "unassign", "unassign")
    /\ LET f == task[w].fulfilment IN
       /\ Writable(w, f)
       /\ IF ~fulfilments[f].live THEN Throw(w)
          ELSE /\ Update(f, [fulfilments[f] EXCEPT !.inventoryId = NoItem])
               /\ Done(w)
-------------------------------------------------------------------------------
(***************************************************************************)
(* What else changes a fulfilment: its dates, looked at before the         *)
(* transaction that sets one, and its deletion.  RentalBilling has the     *)
(* details; none of them looks at reservations.                            *)
(***************************************************************************)
SetRentalStartDate(w) ==
    \E f \in Fulfilment, d \in Date :
        /\ fulfilments[f].live
        /\ InOrder([fulfilments[f] EXCEPT !.rentalStartDate = d])
        /\ Request(w, [Call("start", "write", f) EXCEPT !.startDate = d])

SetExpectedRentalEndDate(w) ==
    \E f \in Fulfilment, d \in Date :
        /\ fulfilments[f].live
        /\ InOrder([fulfilments[f] EXCEPT !.expectedRentalEndDate = d])
        /\ Request(w, [Call("end", "write", f) EXCEPT !.endDate = d])

WriteDate(w) ==
    /\ task[w].step = "write"
    /\ LET f == task[w].fulfilment IN
       /\ Writable(w, f)
       /\ IF ~fulfilments[f].live THEN Throw(w)
          ELSE /\ Update(f, IF task[w].op = "start"
                            THEN [fulfilments[f] EXCEPT
                                      !.rentalStartDate = task[w].startDate]
                            ELSE [fulfilments[f] EXCEPT
                                      !.expectedRentalEndDate = task[w].endDate])
               /\ Done(w)

DeleteFulfilment ==
    \E f \in Fulfilment :
        /\ fulfilments[f].live
        /\ \A v \in Worker : view[v] # None => ~(task[v].fulfilment = f /\ view[v].wrote)
        /\ calls < MaxCalls
        /\ calls' = calls + 1
        /\ Update(f, [fulfilments[f] EXCEPT !.live = FALSE])
        /\ UNCHANGED <<task, view>>
-------------------------------------------------------------------------------
\* A transient error, within withTransaction.
TransientFault(w) == view[w] # None /\ Retry(w)

\* An awaited call throws, an item does not exist, or the process dies.
Abort(w) == task[w] # Idle /\ Throw(w)

Next ==
    \/ DeleteFulfilment
    \/ \E w \in Worker :
        \/ AssignInventory(w) \/ ReadFulfilment(w) \/ CheckOverlap(w)
        \/ ReserveForAssignment(w) \/ AssignInventoryToFulfilment(w)
        \/ SetPurchaseOrderLineItemId(w) \/ CommitAssignment(w)
        \/ CreateFulfilmentReservation(w) \/ ReserveDirectly(w)
        \/ UnassignInventory(w) \/ ReadForUnassign(w) \/ ListReservations(w)
        \/ GetReservation(w) \/ DeleteReservation(w) \/ AllDeleted(w)
        \/ UnassignInventoryFromFulfilment(w)
        \/ SetRentalStartDate(w) \/ SetExpectedRentalEndDate(w) \/ WriteDate(w)
        \/ TransientFault(w) \/ Abort(w)

Spec == Init /\ [][Next]_vars
-------------------------------------------------------------------------------
(***************************************************************************)
(* Documents, requests and views have their types; each reservation has an *)
(* id of its own; only an assignment holds a transaction open.             *)
(***************************************************************************)
TypeOK ==
    /\ fulfilments \in [Fulfilment -> FulfilmentDoc]
    /\ version \in [Fulfilment -> Nat]
    /\ reservations \subseteq Reservation
    /\ made \in Nat
    /\ \A r \in reservations : r.id \in 1 .. made
    /\ \A r, q \in reservations : r.id = q.id => r = q
    /\ allowed \subseteq 1 .. made /\ raced \subseteq 1 .. made
    /\ task \in [Worker -> Task]
    /\ view \in [Worker -> View \cup {None}]
    /\ \A w \in Worker : view[w] # None => task[w].op = "assign"
    /\ calls \in 0 .. MaxCalls

\* The reservation ends no sooner than it starts.
Proper(r) == r.startDate <= r.endDate

\* Some day is in both.
Meet(r, q) == r.startDate <= q.endDate /\ q.startDate <= r.endDate

(***************************************************************************)
(* "Inventory ... is already reserved for the specified dates": no item is *)
(* reserved twice for one day, unless allowOverlappingReservations was     *)
(* given for one of the two.                                               *)
(***************************************************************************)
NotBookedTwice ==
    \A r, q \in reservations :
        /\ r # q /\ r.inventoryId = q.inventoryId
        /\ Proper(r) /\ Proper(q) /\ Meet(r, q)
        => {r.id, q.id} \cap allowed # {}

(***************************************************************************)
(* What the code does make sure of: of two reservations of an item for one *)
(* day one was allowed to overlap, or was made between the other request's *)
(* look at the reservations and its insert, which the code does not notice.*)
(* Reservations that were there at the look are found, whatever their      *)
(* dates, and whatever is assigned, retried, deleted or moved meanwhile.   *)
(***************************************************************************)
BookedTwiceByRaceOnly ==
    \A r, q \in reservations :
        /\ r # q /\ r.inventoryId = q.inventoryId
        /\ Proper(r) /\ Proper(q) /\ Meet(r, q)
        => {r.id, q.id} \cap (allowed \cup raced) # {}

(***************************************************************************)
(* An assignment is atomic: together with the item the fulfilment gets the *)
(* reservation, for the dates the rental has at that moment whatever       *)
(* changed meanwhile, and the line item the item was ordered by.           *)
(***************************************************************************)
AssignedAsReserved ==
    [][\A f \in Fulfilment :
        LET doc == fulfilments'[f] IN
        doc.inventoryId \notin {NoItem, fulfilments[f].inventoryId} =>
            /\ \E r \in reservations' \ reservations :
                  /\ r.inventoryId = doc.inventoryId /\ r.fulfilmentId = f
                  /\ r.startDate = StartOf(doc) /\ r.endDate = EndOf(doc)
            /\ doc.inventoryId \in Ordered =>
                  doc.purchaseOrderLineItem = doc.inventoryId]_vars

(***************************************************************************)
(* Nor does an assignment that fails or is tried again leave a reservation *)
(* behind: one appears with the item assigned, or on direct request.       *)
(***************************************************************************)
NothingHalfAssigned ==
    [][\A r \in reservations' \ reservations :
        \/ fulfilments'[r.fulfilmentId].inventoryId = r.inventoryId
        \/ \E w \in Worker : At(w, "reserve", "reserve") /\ task'[w] = Idle]_vars

(***************************************************************************)
(* A rental loses a reservation only when the item is taken from that very *)
(* rental.                                                                 *)
(***************************************************************************)
OnlyUnassignReleases ==
    [][\A r \in reservations \ reservations' :
        \E w \in Worker : /\ task[w].op = "unassign"
                          /\ task[w].fulfilment = r.fulfilmentId
                          /\ task[w].item = r.inventoryId]_vars

(***************************************************************************)
(* An assignment, which writes the fulfilment as it was at its snapshot,   *)
(* undoes neither a change of the dates nor a deletion in between.         *)
(***************************************************************************)
OthersNotUndone ==
    [][\A f \in Fulfilment :
        /\ fulfilments'[f].live => fulfilments[f].live
        /\ \/ /\ fulfilments'[f].rentalStartDate = fulfilments[f].rentalStartDate
              /\ fulfilments'[f].expectedRentalEndDate =
                     fulfilments[f].expectedRentalEndDate
           \/ \E w \in Worker : task[w].step = "write" /\ task[w].fulfilment = f]_vars
===============================================================================
