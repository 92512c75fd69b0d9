-------------------------- MODULE Reservations_proofs --------------------------
(***************************************************************************)
(* Proofs about Reservations for any workers, rentals, items and dates.    *)
(***************************************************************************)
EXTENDS Reservations, TLAPS
-------------------------------------------------------------------------------
(***************************************************************************)
(* The invariant, of a worker w whose request is t and whose transaction   *)
(* is v.  A request has, at each step, what the steps before it filled in. *)
(***************************************************************************)
RequestRight(w, t) ==
    /\ t.op = "idle" => t = Idle
    /\ t.op # "idle" => t.fulfilment \in Fulfilment
    /\ t.op \in {"assign", "reserve"} => t.item \in Item
    /\ t.op = "assign" =>
         t.step \in {"read", "check", "reserve", "assign", "line", "commit"}
    /\ t.op = "reserve" => /\ t.step \in {"check", "reserve"} /\ ~t.allow
                           /\ t.startDate \in Day /\ t.endDate \in Day
    /\ t.op = "unassign" => t.step \in {"read", "list", "delete", "unassign"}
    /\ t.op = "unassign" /\ t.step # "read" => t.item \in Item
    /\ t.op = "unassign" /\ t.step \in {"read", "list"} => t.pending = {} /\ t.found = {}
    /\ t.op = "start" => t.step = "write" /\ t.startDate \in Date
    /\ t.op = "end" => t.step = "write" /\ t.endDate \in Date

\* Reservations on their way to deletion are those of the request.
Releasing(t) ==
    \A r \in t.pending \cup t.found :
        t.op = "unassign" /\ r.fulfilmentId = t.fulfilment /\ r.inventoryId = t.item

\* The transaction of an assignment.
Assigning(t, v) ==
    /\ t.op # "assign" \/ t.step = "read" => v = None
    /\ t.op = "assign" /\ t.step # "read" =>
         /\ v \in View
         /\ t.startDate = StartOf(v.doc) /\ t.endDate = EndOf(v.doc)
         /\ v.wrote <=> t.step \in {"line", "commit"}
         /\ t.step \in {"assign", "line", "commit"} => v.reserved
         /\ t.step \in {"line", "commit"} => v.doc.inventoryId = t.item
         /\ t.step = "line" => t.item \in Ordered
         /\ t.step = "commit" /\ t.item \in Ordered =>
              v.doc.purchaseOrderLineItem = t.item

\* The snapshot is of the document as it is, unless it was written since.
SnapshotRight(t, v) ==
    v # None =>
       /\ v.version <= version[t.fulfilment]
       /\ v.version = version[t.fulfilment] =>
            /\ fulfilments[t.fulfilment].live
            /\ v.doc.rentalStartDate = fulfilments[t.fulfilment].rentalStartDate
            /\ v.doc.expectedRentalEndDate =
                  fulfilments[t.fulfilment].expectedRentalEndDate
       /\ v.wrote => v.version = version[t.fulfilment]

WorkerRight(w, t, v) == RequestRight(w, t) /\ Releasing(t) /\ Assigning(t, v)

\* No two open transactions have written one fulfilment.
WritersExclude ==
    \A w \in Worker :
        view[w] # None /\ view[w].wrote => Writable(w, task[w].fulfilment)

IInv ==
    /\ TypeOK
    /\ \A w \in Worker : WorkerRight(w, task[w], view[w])
    /\ \A w \in Worker : SnapshotRight(task[w], view[w])
    /\ WritersExclude

\* The reservations of an item that a range meets can be shared or were raced for.
Free(item, from, to) ==
    \A r \in reservations :
        r.inventoryId = item /\ InRange(r, from, to) => r.id \in allowed \cup raced

\* What a request is about to reserve is free.
Clear(w) ==
    FoundFree(w) => Free(task[w].item, task[w].startDate, task[w].endDate)

RacesOnly == BookedTwiceByRaceOnly /\ \A w \in Worker : Clear(w)
-------------------------------------------------------------------------------
\* The part of TypeOK about the collections.
DbOK ==
    /\ fulfilments \in [Fulfilment -> FulfilmentDoc]
    /\ version \in [Fulfilment -> Nat]
    /\ reservations \subseteq Reservation
    /\ made \in Nat
    /\ \A r \in reservations : r.id \in 1 .. made
    /\ \A r, q \in reservations : r.id = q.id => r = q
    /\ allowed \subseteq 1 .. made /\ raced \subseteq 1 .. made

(***************************************************************************)
(* Most steps change one worker's request and transaction: what they must  *)
(* show is that these are right and that other snapshots stay right.       *)
(***************************************************************************)
LEMMA OneWorker ==
    ASSUME IInv, NEW w \in Worker, NEW t \in Task, NEW v \in View \cup {None},
           task' = [task EXCEPT ![w] = t],
           view' = [view EXCEPT ![w] = v],
           DbOK', calls' \in 0 .. MaxCalls,
           WorkerRight(w, t, v),
           SnapshotRight(t, v)',
           v # None /\ v.wrote => Writable(w, t.fulfilment),
           \A u \in Worker \ {w} : SnapshotRight(task[u], view[u])'
    PROVE  IInv'
<1>1. task \in [Worker -> Task] /\ view \in [Worker -> View \cup {None}]
  BY DEF IInv, TypeOK
<1>2. /\ task'[w] = t /\ view'[w] = v
      /\ \A u \in Worker \ {w} : task'[u] = task[u] /\ view'[u] = view[u]
      /\ task' \in [Worker -> Task] /\ view' \in [Worker -> View \cup {None}]
  BY <1>1
<1>3. \A u \in Worker : WorkerRight(u, task'[u], view'[u])
  BY <1>2 DEF IInv
<1>4. \A u \in Worker : (\A x \in Worker : view'[x] # None => task'[x].op = "assign")
  BY <1>3 DEF WorkerRight, Assigning
<1>5. TypeOK'
  BY <1>2, <1>4 DEF TypeOK, DbOK
<1>6. \A u \in Worker : SnapshotRight(task[u], view[u])'
  BY <1>2 DEF SnapshotRight
<1>7. WritersExclude'
  BY <1>2 DEF IInv, WritersExclude, Writable
<1> QED BY <1>3, <1>5, <1>6, <1>7 DEF IInv

(***************************************************************************)
(* Snapshots stay right when no fulfilment is written, and when one is     *)
(* that no open transaction has written.                                   *)
(***************************************************************************)
LEMMA SnapshotsStay ==
    ASSUME IInv, NEW w \in Worker,
           \A u \in Worker \ {w} : task'[u] = task[u] /\ view'[u] = view[u],
           UNCHANGED <<fulfilments, version>>
    PROVE  \A u \in Worker \ {w} : SnapshotRight(task[u], view[u])'
BY DEF IInv, SnapshotRight

LEMMA SnapshotOutdated ==
    ASSUME IInv, NEW u \in Worker, NEW f \in Fulfilment, NEW doc,
           task'[u] = task[u] /\ view'[u] = view[u],
           view[u] # None => ~(task[u].fulfilment = f /\ view[u].wrote),
           fulfilments' = [fulfilments EXCEPT ![f] = doc],
           version' = [version EXCEPT ![f] = @ + 1]
    PROVE  SnapshotRight(task[u], view[u])'
<1> SUFFICES ASSUME view[u] # None
             PROVE  SnapshotRight(task[u], view[u])'
  BY DEF SnapshotRight
<1>1. /\ fulfilments \in [Fulfilment -> FulfilmentDoc]
      /\ version \in [Fulfilment -> Nat]
      /\ view[u] \in View
  BY DEF IInv, TypeOK
<1>2. view[u].version \in Nat
  BY <1>1 DEF View
<1>3. task[u].fulfilment \in Fulfilment
  BY DEF IInv, WorkerRight, RequestRight, Assigning
<1>4. SnapshotRight(task[u], view[u])
  BY DEF IInv
<1>5. CASE task[u].fulfilment = f
  <2>1. ~view[u].wrote
    BY <1>5
  <2>2. version'[f] = version[f] + 1 /\ view[u].version < version'[f]
    BY <1>1, <1>2, <1>4, <1>5 DEF SnapshotRight
  <2> QED BY <1>1, <1>2, <1>5, <2>1, <2>2 DEF SnapshotRight
<1>6. CASE task[u].fulfilment # f
  BY <1>1, <1>3, <1>4, <1>6 DEF SnapshotRight
<1> QED BY <1>5, <1>6

LEMMA IdleRight ==
    /\ Idle \in Task
    /\ \A w : WorkerRight(w, Idle, None)
    /\ SnapshotRight(Idle, None)
BY DEF Idle, Task, WorkerRight, RequestRight, Releasing, Assigning, SnapshotRight

\* A request that ends leaves nothing behind, whatever it has written.
LEMMA DoneStep ==
    ASSUME IInv, NEW w \in Worker, Done(w), DbOK',
           \A u \in Worker \ {w} : SnapshotRight(task[u], view[u])'
    PROVE  IInv'
<1>1. task' = [task EXCEPT ![w] = Idle] /\ view' = [view EXCEPT ![w] = None]
      /\ calls' = calls
  BY DEF Done, Become
<1>2. calls' \in 0 .. MaxCalls
  BY <1>1 DEF IInv, TypeOK
<1>3. SnapshotRight(Idle, None)'
  BY DEF SnapshotRight
<1> QED BY <1>1, <1>2, <1>3, IdleRight, OneWorker

\* The collections stay right when they stay as they are.
LEMMA DbStays ==
    ASSUME IInv, UNCHANGED db
    PROVE  DbOK' /\ UNCHANGED <<fulfilments, version>>
BY DEF IInv, TypeOK, DbOK, db

LEMMA OthersStay ==
    ASSUME IInv, NEW w \in Worker, NEW t, NEW v,
           task' = [task EXCEPT ![w] = t], view' = [view EXCEPT ![w] = v]
    PROVE  \A u \in Worker \ {w} : task'[u] = task[u] /\ view'[u] = view[u]
BY DEF IInv, TypeOK

LEMMA ThrowStep ==
    ASSUME IInv, NEW w \in Worker, Throw(w)
    PROVE  IInv'
<1>1. Done(w) /\ UNCHANGED db
  BY DEF Throw
<1>2. \A u \in Worker \ {w} : task'[u] = task[u] /\ view'[u] = view[u]
  BY <1>1, OthersStay DEF Done, Become
<1> QED BY <1>1, <1>2, DbStays, SnapshotsStay, DoneStep

\* A step of one request that changes no collection.
LEMMA QuietStep ==
    ASSUME IInv, NEW w \in Worker, NEW t \in Task, NEW v \in View \cup {None},
           task' = [task EXCEPT ![w] = t], view' = [view EXCEPT ![w] = v],
           UNCHANGED db, calls' \in 0 .. MaxCalls,
           WorkerRight(w, t, v), SnapshotRight(t, v),
           v # None /\ v.wrote => Writable(w, t.fulfilment)
    PROVE  IInv'
<1>1. \A u \in Worker \ {w} : SnapshotRight(task[u], view[u])'
  BY OthersStay, DbStays, SnapshotsStay
<1>2. SnapshotRight(t, v)'
  BY DEF SnapshotRight, db
<1> QED BY <1>1, <1>2, DbStays, OneWorker

LEMMA RetryStep ==
    ASSUME IInv, NEW w \in Worker, task[w].op = "assign", Retry(w)
    PROVE  IInv'
<1>1. CASE task[w].tries >= MaxTries
  BY <1>1, ThrowStep, BoundsAssumption DEF Retry, IInv, TypeOK, Task
<1>2. CASE task[w].tries < MaxTries
  <2> DEFINE t == [task[w] EXCEPT !.tries = @ + 1, !.step = "read"]
  <2>1. task[w] \in Task /\ WorkerRight(w, task[w], view[w])
    BY DEF IInv, TypeOK
  <2>2. t \in Task
    <3>1. task[w].tries + 1 \in Nat
      BY <2>1 DEF Task
    <3> QED BY <2>1, <3>1 DEF Task
  <2>3. WorkerRight(w, t, None) /\ SnapshotRight(t, None)
    BY <2>1 DEF WorkerRight, RequestRight, Releasing, Assigning, SnapshotRight, Task
  <2>4. task' = [task EXCEPT ![w] = t] /\ view' = [view EXCEPT ![w] = None]
        /\ UNCHANGED db /\ calls' = calls
    BY <1>2 DEF Retry, Become
  <2>5. calls' \in 0 .. MaxCalls
    BY <2>4 DEF IInv, TypeOK
  <2> QED BY <2>2, <2>3, <2>4, <2>5, QuietStep
<1> QED BY <1>1, <1>2, BoundsAssumption DEF IInv, TypeOK, Task

\* A write of one fulfilment ends the request it is part of.
LEMMA UpdateStep ==
    ASSUME IInv, NEW w \in Worker, NEW f \in Fulfilment, NEW doc \in FulfilmentDoc,
           Writable(w, f), Done(w), DbOK',
           fulfilments' = [fulfilments EXCEPT ![f] = doc],
           version' = [version EXCEPT ![f] = @ + 1]
    PROVE  IInv'
<1>1. \A u \in Worker \ {w} : task'[u] = task[u] /\ view'[u] = view[u]
  BY OthersStay DEF Done, Become
<1>2. \A u \in Worker \ {w} : SnapshotRight(task[u], view[u])'
  BY <1>1, SnapshotOutdated DEF Writable
<1> QED BY <1>2, DoneStep

LEMMA UpdateKeepsDb ==
    ASSUME IInv, NEW f \in Fulfilment, NEW doc \in FulfilmentDoc, Update(f, doc)
    PROVE  DbOK'
BY DEF IInv, TypeOK, DbOK, Update

LEMMA AddKeepsDb ==
    ASSUME IInv, NEW w \in Worker, NEW from \in Day, NEW to \in Day,
           task[w].fulfilment \in Fulfilment, task[w].item \in Item,
           AddReservation(w, from, to)
    PROVE  /\ made' \in Nat
           /\ reservations' \subseteq Reservation
           /\ \A r \in reservations' : r.id \in 1 .. made'
           /\ \A r, q \in reservations' : r.id = q.id => r = q
           /\ allowed' \subseteq 1 .. made' /\ raced' \subseteq 1 .. made'
<1> DEFINE new == [id |-> made + 1, inventoryId |-> task[w].item,
                   fulfilmentId |-> task[w].fulfilment,
                   startDate |-> from, endDate |-> to]
<1>1. /\ made \in Nat /\ reservations \subseteq Reservation
      /\ \A r \in reservations : r.id \in 1 .. made
      /\ \A r, q \in reservations : r.id = q.id => r = q
      /\ allowed \subseteq 1 .. made /\ raced \subseteq 1 .. made
  BY DEF IInv, TypeOK
<1>2. /\ made' = made + 1 /\ reservations' = reservations \cup {new}
      /\ allowed' \subseteq allowed \cup {made + 1} /\ raced' \subseteq raced \cup {made + 1}
  BY DEF AddReservation
<1>3. new \in Reservation /\ new.id = made + 1
  BY <1>1 DEF Reservation
<1> HIDE DEF new
<1>4. \A r \in reservations : r.id # new.id
  BY <1>1, <1>3
<1> QED BY <1>1, <1>2, <1>3, <1>4
-------------------------------------------------------------------------------
\* The steps that a request begins with.
LEMMA RequestStep ==
    ASSUME IInv, NEW w \in Worker, NEW t \in Task, Request(w, t),
           t.op # "idle", RequestRight(w, t), t.op = "assign" => t.step = "read",
           t.pending = {}, t.found = {}
    PROVE  IInv'
<1>1. task[w] = Idle /\ calls < MaxCalls /\ calls' = calls + 1
      /\ task' = [task EXCEPT ![w] = t] /\ UNCHANGED db /\ view' = view
  BY DEF Request
<1>2. view[w] = None
  BY <1>1 DEF IInv, WorkerRight, Assigning, Idle
<1>3. view' = [view EXCEPT ![w] = None]
  BY <1>1, <1>2 DEF IInv, TypeOK
<1>4. calls' \in 0 .. MaxCalls
  BY <1>1, BoundsAssumption DEF IInv, TypeOK
<1>5. WorkerRight(w, t, None) /\ SnapshotRight(t, None)
  BY DEF WorkerRight, Releasing, Assigning, SnapshotRight
<1> QED BY <1>1, <1>3, <1>4, <1>5, QuietStep

LEMMA RequestSteps ==
    ASSUME IInv, NEW w \in Worker,
           \/ AssignInventory(w) \/ CreateFulfilmentReservation(w) \/ UnassignInventory(w)
           \/ SetRentalStartDate(w) \/ SetExpectedRentalEndDate(w)
    PROVE  IInv'
<1>1. CASE AssignInventory(w)
  <2> PICK f \in Fulfilment, i \in Item, allow \in BOOLEAN :
        /\ Request(w, [Call("assign", "read", f) EXCEPT !.item = i, !.allow = allow])
    BY <1>1 DEF AssignInventory
  <2> DEFINE t == [Call("assign", "read", f) EXCEPT !.item = i, !.allow = allow]
  <2>1. t \in Task
    BY DEF Call, Idle, Task
  <2>2. /\ RequestRight(w, t) /\ t.pending = {} /\ t.found = {}
        /\ t.op = "assign" /\ t.step = "read"
    BY DEF Call, Idle, RequestRight
  <2> QED BY <2>1, <2>2, RequestStep
<1>2. CASE CreateFulfilmentReservation(w)
  <2> PICK f \in Fulfilment, i \in Item, from \in Date, to \in Date :
        /\ Request(w, [Call("reserve", "check", f) EXCEPT
                          !.item = i, !.startDate = from, !.endDate = to])
    BY <1>2 DEF CreateFulfilmentReservation
  <2> DEFINE t == [Call("reserve", "check", f) EXCEPT
                          !.item = i, !.startDate = from, !.endDate = to]
  <2>1. t \in Task
    BY DEF Call, Idle, Task, Day
  <2>2. RequestRight(w, t) /\ t.pending = {} /\ t.found = {} /\ t.op = "reserve"
    BY DEF Call, Idle, RequestRight, Day
  <2> QED BY <2>1, <2>2, RequestStep
<1>3. CASE UnassignInventory(w)
  <2> PICK f \in Fulfilment : Request(w, Call("unassign", "read", f))
    BY <1>3 DEF UnassignInventory
  <2> DEFINE t == Call("unassign", "read", f)
  <2>1. t \in Task
    BY DEF Call, Idle, Task
  <2>2. RequestRight(w, t) /\ t.pending = {} /\ t.found = {} /\ t.op = "unassign"
    BY DEF Call, Idle, RequestRight
  <2> QED BY <2>1, <2>2, RequestStep
<1>4. CASE SetRentalStartDate(w)
  <2> PICK f \in Fulfilment, d \in Date :
        Request(w, [Call("start", "write", f) EXCEPT !.startDate = d])
    BY <1>4 DEF SetRentalStartDate
  <2> DEFINE t == [Call("start", "write", f) EXCEPT !.startDate = d]
  <2>1. t \in Task
    BY DEF Call, Idle, Task, Day
  <2>2. RequestRight(w, t) /\ t.pending = {} /\ t.found = {} /\ t.op = "start"
    BY DEF Call, Idle, RequestRight
  <2> QED BY <2>1, <2>2, RequestStep
<1>5. CASE SetExpectedRentalEndDate(w)
  <2> PICK f \in Fulfilment, d \in Date :
        Request(w, [Call("end", "write", f) EXCEPT !.endDate = d])
    BY <1>5 DEF SetExpectedRentalEndDate
  <2> DEFINE t == [Call("end", "write", f) EXCEPT !.endDate = d]
  <2>1. t \in Task
    BY DEF Call, Idle, Task, Day
  <2>2. RequestRight(w, t) /\ t.pending = {} /\ t.found = {} /\ t.op = "end"
    BY DEF Call, Idle, RequestRight
  <2> QED BY <2>1, <2>2, RequestStep
<1> QED BY <1>1, <1>2, <1>3, <1>4, <1>5
-------------------------------------------------------------------------------
(***************************************************************************)
(* The steps of an assignment, of a reservation on its own, and of taking  *)
(* an item back.                                                           *)
(***************************************************************************)
LEMMA ReadFulfilmentStep ==
    ASSUME IInv, NEW w \in Worker, ReadFulfilment(w)
    PROVE  IInv'
<1> DEFINE f == task[w].fulfilment
           t == [task[w] EXCEPT !.step = IF task[w].allow THEN "reserve" ELSE "check",
                    !.startDate = StartOf(fulfilments[f]),
                    !.endDate = EndOf(fulfilments[f])]
           v == [doc |-> fulfilments[f], version |-> version[f],
                 reserved |-> FALSE, wrote |-> FALSE]
<1>1. /\ task[w] \in Task /\ WorkerRight(w, task[w], view[w])
      /\ task[w].op = "assign" /\ f \in Fulfilment
      /\ fulfilments[f] \in FulfilmentDoc /\ version[f] \in Nat
  BY DEF IInv, TypeOK, ReadFulfilment, At, WorkerRight, RequestRight
<1>2. CASE ~fulfilments[f].live
  BY <1>2, ThrowStep DEF ReadFulfilment
<1>3. CASE fulfilments[f].live
  <2>1. StartOf(fulfilments[f]) \in Day /\ EndOf(fulfilments[f]) \in Day
    BY <1>1 DEF StartOf, EndOf, Day, FulfilmentDoc
  <2>2. t \in Task
    BY <1>1, <2>1 DEF Task
  <2>3. v \in View
    BY <1>1 DEF View
  <2>4. /\ t.op = "assign" /\ t.step \in {"reserve", "check"}
        /\ t.startDate = StartOf(v.doc) /\ t.endDate = EndOf(v.doc)
        /\ t.fulfilment = f /\ t.item = task[w].item
        /\ t.pending = task[w].pending /\ t.found = task[w].found
    BY <1>1 DEF Task
  <2>5. WorkerRight(w, t, v)
    BY <1>1, <2>3, <2>4 DEF WorkerRight, RequestRight, Releasing, Assigning
  <2>6. SnapshotRight(t, v)
    BY <1>1, <1>3, <2>4 DEF SnapshotRight
  <2>7. task' = [task EXCEPT ![w] = t] /\ view' = [view EXCEPT ![w] = v]
        /\ UNCHANGED db /\ calls' = calls
    BY <1>3 DEF ReadFulfilment, Become
  <2>8. calls' \in 0 .. MaxCalls
    BY <2>7 DEF IInv, TypeOK
  <2> QED BY <2>2, <2>3, <2>5, <2>6, <2>7, <2>8, QuietStep
<1> QED BY <1>2, <1>3

\* A step that only goes on.
LEMMA GotoStep ==
    ASSUME IInv, NEW w \in Worker, NEW step \in {"reserve", "unassign"},
           Goto(w, step), UNCHANGED <<db, view>>,
           \/ task[w].step = "check" /\ step = "reserve"
           \/ At(w, "unassign", "delete") /\ step = "unassign"
    PROVE  IInv'
<1> DEFINE t == [task[w] EXCEPT !.step = step]
<1>1. task[w] \in Task /\ WorkerRight(w, task[w], view[w])
      /\ SnapshotRight(task[w], view[w]) /\ view[w] \in View \cup {None}
  BY DEF IInv, TypeOK
<1>2. t \in Task
  BY <1>1 DEF Task
<1>3. task[w].step = "check" => task[w].op \in {"assign", "reserve"}
  BY <1>1 DEF WorkerRight, RequestRight, Task, Idle
<1>4. /\ t.op = task[w].op /\ t.step = step /\ t.fulfilment = task[w].fulfilment
      /\ t.item = task[w].item /\ t.allow = task[w].allow
      /\ t.startDate = task[w].startDate /\ t.endDate = task[w].endDate
      /\ t.pending = task[w].pending /\ t.found = task[w].found
  BY <1>1 DEF Task
<1>5. RequestRight(w, t) /\ Releasing(t)
  BY <1>1, <1>3, <1>4 DEF WorkerRight, RequestRight, Releasing, At
<1>6. Assigning(t, view[w])
  BY <1>1, <1>3, <1>4 DEF WorkerRight, Assigning, At
<1>7. SnapshotRight(t, view[w])
  BY <1>1, <1>4 DEF SnapshotRight
<1>8. view[w] # None /\ view[w].wrote => Writable(w, t.fulfilment)
  BY <1>4 DEF IInv, WritersExclude
<1>9. task' = [task EXCEPT ![w] = t] /\ view' = [view EXCEPT ![w] = view[w]]
      /\ UNCHANGED db /\ calls' \in 0 .. MaxCalls
  BY DEF Goto, Become, IInv, TypeOK
<1> QED BY <1>1, <1>2, <1>5, <1>6, <1>7, <1>8, <1>9, QuietStep DEF WorkerRight

LEMMA CheckOverlapStep ==
    ASSUME IInv, NEW w \in Worker, CheckOverlap(w)
    PROVE  IInv'
BY ThrowStep, GotoStep DEF CheckOverlap

\* The steps within the transaction of an assignment, after the snapshot.
LEMMA WithinTransaction ==
    ASSUME IInv, NEW w \in Worker, NEW t \in Task, NEW v \in View,
           task[w].op = "assign", task[w].step \in {"reserve", "assign", "line"},
           t = [task[w] EXCEPT !.step = t.step],
           task' = [task EXCEPT ![w] = t], view' = [view EXCEPT ![w] = v],
           UNCHANGED <<db, calls>>,
           t.step \in {"assign", "line", "commit"}, Assigning(t, v),
           /\ v.version = view[w].version
           /\ v.doc.rentalStartDate = view[w].doc.rentalStartDate
           /\ v.doc.expectedRentalEndDate = view[w].doc.expectedRentalEndDate,
           v.wrote => /\ Writable(w, task[w].fulfilment)
                      /\ v.version = version[task[w].fulfilment]
    PROVE  IInv'
<1>1. task[w] \in Task /\ WorkerRight(w, task[w], view[w])
      /\ SnapshotRight(task[w], view[w]) /\ view[w] # None
  BY NoneAssumption DEF IInv, TypeOK, WorkerRight, Assigning
<1>2. /\ t.op = "assign" /\ t.fulfilment = task[w].fulfilment
      /\ t.item = task[w].item
      /\ t.pending = task[w].pending /\ t.found = task[w].found
  BY <1>1 DEF Task
<1>3. RequestRight(w, t) /\ Releasing(t)
  BY <1>1, <1>2 DEF WorkerRight, RequestRight, Releasing
<1>4. SnapshotRight(t, v)
  BY <1>1, <1>2 DEF SnapshotRight
<1>5. calls' \in 0 .. MaxCalls
  BY DEF IInv, TypeOK
<1> QED BY <1>2, <1>3, <1>4, <1>5, QuietStep DEF WorkerRight

LEMMA ReserveForAssignmentStep ==
    ASSUME IInv, NEW w \in Worker, ReserveForAssignment(w)
    PROVE  IInv'
<1> DEFINE t == [task[w] EXCEPT !.step = "assign"]
           v == [view[w] EXCEPT !.reserved = TRUE]
<1>1. task[w] \in Task /\ WorkerRight(w, task[w], view[w])
      /\ task[w].op = "assign" /\ task[w].step = "reserve"
  BY DEF IInv, TypeOK, ReserveForAssignment, At
<1>2. view[w] \in View /\ ~view[w].wrote
  BY <1>1 DEF WorkerRight, Assigning, View
<1>3. t \in Task /\ v \in View
  BY <1>1, <1>2 DEF Task, View
<1>4. /\ t.step = "assign" /\ t.op = "assign"
      /\ t.startDate = task[w].startDate /\ t.endDate = task[w].endDate
      /\ v.doc = view[w].doc /\ v.version = view[w].version
      /\ v.reserved /\ v.wrote = view[w].wrote
  BY <1>1, <1>2 DEF Task, View
<1>5. Assigning(t, v)
  BY <1>1, <1>2, <1>3, <1>4 DEF WorkerRight, Assigning
<1>6. task' = [task EXCEPT ![w] = t] /\ view' = [view EXCEPT ![w] = v]
      /\ UNCHANGED <<db, calls>>
  BY DEF ReserveForAssignment, Goto, Become
<1> QED BY <1>1, <1>2, <1>3, <1>4, <1>5, <1>6, WithinTransaction

LEMMA AssignInventoryStep ==
    ASSUME IInv, NEW w \in Worker, AssignInventoryToFulfilment(w)
    PROVE  IInv'
<1> DEFINE t == [task[w] EXCEPT !.step = IF task[w].item \in Ordered THEN "line"
                                         ELSE "commit"]
           v == [view[w] EXCEPT !.doc.inventoryId = task[w].item, !.wrote = TRUE]
<1>1. task[w] \in Task /\ WorkerRight(w, task[w], view[w])
      /\ task[w].op = "assign" /\ task[w].step = "assign"
  BY DEF IInv, TypeOK, AssignInventoryToFulfilment, At
<1>2. view[w] \in View /\ task[w].item \in Item
  BY <1>1 DEF WorkerRight, RequestRight, Assigning
<1>3. CASE Conflict(w)
  BY <1>1, <1>3, RetryStep DEF AssignInventoryToFulfilment
<1>4. CASE ~Conflict(w)
  <2>1. t \in Task
    BY <1>1 DEF Task
  <2>2. v \in View
    BY <1>2 DEF View, FulfilmentDoc
  <2>3. /\ t.step = IF task[w].item \in Ordered THEN "line" ELSE "commit"
        /\ t.op = "assign" /\ t.item = task[w].item
        /\ t.startDate = task[w].startDate /\ t.endDate = task[w].endDate
    BY <1>1 DEF Task
  <2>4. /\ v.doc.inventoryId = task[w].item
        /\ v.doc.rentalStartDate = view[w].doc.rentalStartDate
        /\ v.doc.expectedRentalEndDate = view[w].doc.expectedRentalEndDate
        /\ v.version = view[w].version /\ v.reserved = view[w].reserved /\ v.wrote
    BY <1>2 DEF View, FulfilmentDoc
  <2>5. StartOf(v.doc) = StartOf(view[w].doc) /\ EndOf(v.doc) = EndOf(view[w].doc)
    BY <2>4 DEF StartOf, EndOf
  <2>6. Assigning(t, v)
    BY <1>1, <2>2, <2>3, <2>4, <2>5 DEF WorkerRight, Assigning
  <2>7. task' = [task EXCEPT ![w] = t] /\ view' = [view EXCEPT ![w] = v]
        /\ UNCHANGED <<db, calls>>
    BY <1>4 DEF AssignInventoryToFulfilment, Goto, Become
  <2>8. Writable(w, task[w].fulfilment) /\ v.version = version[task[w].fulfilment]
    BY <1>4, <2>4 DEF Conflict
  <2> QED BY <1>1, <2>1, <2>2, <2>3, <2>4, <2>6, <2>7, <2>8, WithinTransaction
<1> QED BY <1>3, <1>4

LEMMA SetPurchaseOrderLineItemIdStep ==
    ASSUME IInv, NEW w \in Worker, SetPurchaseOrderLineItemId(w)
    PROVE  IInv'
<1> DEFINE t == [task[w] EXCEPT !.step = "commit"]
           v == [view[w] EXCEPT !.doc.purchaseOrderLineItem = task[w].item]
<1>1. task[w] \in Task /\ WorkerRight(w, task[w], view[w])
      /\ task[w].op = "assign" /\ task[w].step = "line"
  BY DEF IInv, TypeOK, SetPurchaseOrderLineItemId, At
<1>2. view[w] \in View /\ task[w].item \in Ordered /\ view[w].wrote
  BY <1>1 DEF WorkerRight, Assigning
<1>3. t \in Task
  BY <1>1 DEF Task
<1>4. v \in View
  BY <1>2 DEF View, FulfilmentDoc
<1>5. /\ t.step = "commit" /\ t.op = "assign" /\ t.item = task[w].item
      /\ t.startDate = task[w].startDate /\ t.endDate = task[w].endDate
  BY <1>1 DEF Task
<1>6. /\ v.doc.inventoryId = view[w].doc.inventoryId
      /\ v.doc.purchaseOrderLineItem = task[w].item
      /\ v.doc.rentalStartDate = view[w].doc.rentalStartDate
      /\ v.doc.expectedRentalEndDate = view[w].doc.expectedRentalEndDate
      /\ v.version = view[w].version /\ v.reserved = view[w].reserved /\ v.wrote
  BY <1>2 DEF View, FulfilmentDoc
<1>7. StartOf(v.doc) = StartOf(view[w].doc) /\ EndOf(v.doc) = EndOf(view[w].doc)
  BY <1>6 DEF StartOf, EndOf
<1>8. Assigning(t, v)
  BY <1>1, <1>4, <1>5, <1>6, <1>7 DEF WorkerRight, Assigning
<1>9. task' = [task EXCEPT ![w] = t] /\ view' = [view EXCEPT ![w] = v]
      /\ UNCHANGED <<db, calls>>
  BY DEF SetPurchaseOrderLineItemId, Goto, Become
<1>10. Writable(w, task[w].fulfilment) /\ v.version = version[task[w].fulfilment]
  BY <1>2, <1>6, NoneAssumption DEF IInv, WritersExclude, SnapshotRight
<1> QED BY <1>1, <1>3, <1>4, <1>5, <1>6, <1>8, <1>9, <1>10, WithinTransaction

LEMMA CommitStep ==
    ASSUME IInv, NEW w \in Worker, CommitAssignment(w)
    PROVE  IInv'
<1> DEFINE f == task[w].fulfilment
<1>1. task[w] \in Task /\ WorkerRight(w, task[w], view[w])
      /\ task[w].op = "assign" /\ task[w].step = "commit"
  BY DEF IInv, TypeOK, CommitAssignment, At
<1>2. /\ view[w] \in View /\ view[w].wrote /\ f \in Fulfilment
      /\ task[w].item \in Item
  BY <1>1 DEF WorkerRight, RequestRight, Assigning
<1>3. view[w].doc \in FulfilmentDoc
  BY <1>2 DEF View
<1>4. Writable(w, f)
  BY <1>2, NoneAssumption DEF IInv, WritersExclude
<1>5. /\ Done(w)
      /\ fulfilments' = [fulfilments EXCEPT ![f] = view[w].doc]
      /\ version' = [version EXCEPT ![f] = @ + 1]
  BY DEF CommitAssignment
<1>6. task[w].startDate \in Day /\ task[w].endDate \in Day
  BY <1>1, <1>3 DEF WorkerRight, Assigning, StartOf, EndOf, Day, FulfilmentDoc
<1>7. DbOK'
  <2>1. fulfilments' \in [Fulfilment -> FulfilmentDoc] /\ version' \in [Fulfilment -> Nat]
    BY <1>2, <1>3, <1>5 DEF IInv, TypeOK
  <2>2. CASE view[w].reserved
    BY <1>2, <1>6, <2>1, <2>2, AddKeepsDb DEF CommitAssignment, DbOK
  <2>3. CASE ~view[w].reserved
    BY <2>1, <2>3 DEF CommitAssignment, DbOK, IInv, TypeOK
  <2> QED BY <2>2, <2>3
<1> QED BY <1>2, <1>3, <1>4, <1>5, <1>7, UpdateStep

LEMMA ReserveDirectlyStep ==
    ASSUME IInv, NEW w \in Worker, ReserveDirectly(w)
    PROVE  IInv'
<1>1. /\ task[w].fulfilment \in Fulfilment /\ task[w].item \in Item
      /\ task[w].startDate \in Day /\ task[w].endDate \in Day
  BY DEF IInv, WorkerRight, RequestRight, ReserveDirectly, At
<1>2. Done(w) /\ UNCHANGED <<fulfilments, version>>
      /\ AddReservation(w, task[w].startDate, task[w].endDate)
  BY DEF ReserveDirectly
<1>3. DbOK'
  BY <1>1, <1>2, AddKeepsDb DEF IInv, TypeOK, DbOK
<1>4. \A u \in Worker \ {w} : task'[u] = task[u] /\ view'[u] = view[u]
  BY <1>2, OthersStay DEF Done, Become
<1> QED BY <1>2, <1>3, <1>4, SnapshotsStay, DoneStep

\* A step of a request that takes an item back and has no transaction open;
\* it deletes the reservations in gone.
LEMMA UnassignStep ==
    ASSUME IInv, NEW w \in Worker, NEW t \in Task, NEW gone,
           task[w].op = "unassign",
           t.op = "unassign" /\ t.fulfilment = task[w].fulfilment,
           RequestRight(w, t), Releasing(t),
           Become(w, t), UNCHANGED <<fulfilments, version, made, allowed, raced, view>>,
           reservations' = reservations \ gone
    PROVE  IInv'
<1>1. view[w] = None /\ WorkerRight(w, t, None)
  BY DEF IInv, WorkerRight, Assigning
<1>2. task' = [task EXCEPT ![w] = t] /\ view' = [view EXCEPT ![w] = None]
      /\ calls' \in 0 .. MaxCalls
  BY <1>1 DEF IInv, TypeOK, Become
<1>3. DbOK'
  BY DEF IInv, TypeOK, DbOK
<1>4. SnapshotRight(t, None)'
  BY DEF SnapshotRight
<1>5. \A u \in Worker \ {w} : SnapshotRight(task[u], view[u])'
  BY <1>2, OthersStay, SnapshotsStay
<1> QED BY <1>1, <1>2, <1>3, <1>4, <1>5, OneWorker

LEMMA ReadForUnassignStep ==
    ASSUME IInv, NEW w \in Worker, ReadForUnassign(w)
    PROVE  IInv'
<1> DEFINE doc == fulfilments[task[w].fulfilment]
           t == [task[w] EXCEPT !.step = "list", !.item = doc.inventoryId]
<1>1. task[w] \in Task /\ WorkerRight(w, task[w], view[w])
      /\ task[w].op = "unassign" /\ task[w].step = "read"
  BY DEF IInv, TypeOK, ReadForUnassign, At
<1>2. task[w].fulfilment \in Fulfilment /\ doc \in FulfilmentDoc
  BY <1>1 DEF IInv, TypeOK, WorkerRight, RequestRight
<1>3. CASE ~doc.live \/ doc.inventoryId = NoItem
  BY <1>3, ThrowStep DEF ReadForUnassign
<1>4. CASE doc.live /\ doc.inventoryId # NoItem
  <2>1. doc.inventoryId \in Item
    BY <1>2, <1>4 DEF FulfilmentDoc
  <2>2. t \in Task
    BY <1>1, <2>1 DEF Task
  <2>3. /\ t.op = "unassign" /\ t.step = "list" /\ t.item = doc.inventoryId
        /\ t.fulfilment = task[w].fulfilment
        /\ t.pending = task[w].pending /\ t.found = task[w].found
    BY <1>1 DEF Task
  <2> HIDE DEF doc
  <2>4. task[w].pending = {} /\ task[w].found = {}
    BY <1>1 DEF WorkerRight, RequestRight
  <2>5. RequestRight(w, t)
    BY <1>2, <2>1, <2>3, <2>4 DEF RequestRight
  <2>6. Releasing(t)
    BY <2>3, <2>4 DEF Releasing
  <2>7. Become(w, t) /\ UNCHANGED <<fulfilments, version, made, allowed, raced, view>>
        /\ reservations' = reservations \ {}
    BY <1>4 DEF ReadForUnassign, db, doc
  <2> QED BY <1>1, <2>2, <2>3, <2>5, <2>6, <2>7, UnassignStep
<1> QED BY <1>3, <1>4

LEMMA ListReservationsStep ==
    ASSUME IInv, NEW w \in Worker, ListReservations(w)
    PROVE  IInv'
<1> DEFINE mine == ReservationsOf(task[w].fulfilment, task[w].item)
           t == [task[w] EXCEPT !.step = "delete", !.pending = mine]
<1>1. task[w] \in Task /\ WorkerRight(w, task[w], view[w])
      /\ task[w].op = "unassign" /\ task[w].step = "list"
  BY DEF IInv, TypeOK, ListReservations, At
<1>2. CASE mine = {}
  BY <1>2, ThrowStep DEF ListReservations
<1>3. CASE mine # {}
  <2>1. mine \subseteq Reservation
    BY DEF ReservationsOf, IInv, TypeOK
  <2>2. t \in Task
    BY <1>1, <2>1 DEF Task
  <2>3. /\ t.op = "unassign" /\ t.step = "delete" /\ t.item = task[w].item
        /\ t.fulfilment = task[w].fulfilment
        /\ t.pending = mine /\ t.found = task[w].found
    BY <1>1 DEF Task
  <2>4. RequestRight(w, t) /\ task[w].found = {}
    BY <1>1, <2>3 DEF WorkerRight, RequestRight
  <2>5. Releasing(t)
    BY <2>3, <2>4 DEF Releasing, ReservationsOf
  <2>6. Become(w, t) /\ UNCHANGED <<fulfilments, version, made, allowed, raced, view>>
        /\ reservations' = reservations \ {}
    BY <1>3 DEF ListReservations, db
  <2> QED BY <1>1, <2>2, <2>3, <2>4, <2>5, <2>6, UnassignStep
<1> QED BY <1>2, <1>3

LEMMA GetReservationStep ==
    ASSUME IInv, NEW w \in Worker, GetReservation(w)
    PROVE  IInv'
<1>1. task[w] \in Task /\ WorkerRight(w, task[w], view[w])
  BY DEF IInv, TypeOK
<1>2. PICK r \in task[w].pending :
        /\ Become(w, [task[w] EXCEPT
               !.pending = @ \ {r},
               !.found = IF r \in reservations THEN @ \cup {r} ELSE @])
        /\ UNCHANGED <<db, view>>
  BY DEF GetReservation
<1> DEFINE t == [task[w] EXCEPT !.pending = @ \ {r},
                    !.found = IF r \in reservations THEN @ \cup {r} ELSE @]
<1>3. /\ task[w].op = "unassign" /\ task[w].step \in {"delete", "unassign"}
      /\ task[w].pending \subseteq Reservation /\ task[w].found \subseteq Reservation
  BY <1>1, <1>2 DEF WorkerRight, RequestRight, Releasing, Task
<1>4. t \in Task
  BY <1>1, <1>2, <1>3 DEF Task
<1>5. /\ t.op = task[w].op /\ t.step = task[w].step /\ t.item = task[w].item
      /\ t.fulfilment = task[w].fulfilment
      /\ t.pending \subseteq task[w].pending
      /\ t.found \subseteq task[w].found \cup {r}
  BY <1>1 DEF Task
<1>6. RequestRight(w, t)
  BY <1>1, <1>3, <1>5 DEF WorkerRight, RequestRight
<1>7. Releasing(t)
  BY <1>1, <1>2, <1>5 DEF WorkerRight, Releasing
<1>8. Become(w, t) /\ UNCHANGED <<fulfilments, version, made, allowed, raced, view>>
      /\ reservations' = reservations \ {}
  BY <1>2 DEF db
<1> QED BY <1>3, <1>4, <1>5, <1>6, <1>7, <1>8, UnassignStep

LEMMA DeleteReservationStep ==
    ASSUME IInv, NEW w \in Worker, DeleteReservation(w)
    PROVE  IInv'
<1>1. task[w] \in Task /\ WorkerRight(w, task[w], view[w])
  BY DEF IInv, TypeOK
<1>2. PICK r \in task[w].found :
        /\ Become(w, [task[w] EXCEPT !.found = @ \ {r},
                         !.rejected = @ \/ r \notin reservations])
        /\ reservations' = reservations \ {r}
        /\ UNCHANGED <<fulfilments, version, made, allowed, raced, view>>
  BY DEF DeleteReservation
<1> DEFINE t == [task[w] EXCEPT !.found = @ \ {r},
                    !.rejected = @ \/ r \notin reservations]
<1>3. task[w].op = "unassign" /\ task[w].step \in {"delete", "unassign"}
  BY <1>1, <1>2 DEF WorkerRight, RequestRight, Releasing
<1>4. t \in Task
  <2>1. (task[w].rejected \/ r \notin reservations) \in BOOLEAN
    OBVIOUS
  <2> QED BY <1>1, <2>1 DEF Task
<1>5. /\ t.op = task[w].op /\ t.step = task[w].step /\ t.item = task[w].item
      /\ t.fulfilment = task[w].fulfilment
      /\ t.pending = task[w].pending /\ t.found \subseteq task[w].found
  BY <1>1 DEF Task
<1>6. RequestRight(w, t)
  BY <1>1, <1>3, <1>5 DEF WorkerRight, RequestRight
<1>7. Releasing(t)
  BY <1>1, <1>5 DEF WorkerRight, Releasing
<1> QED BY <1>2, <1>3, <1>4, <1>5, <1>6, <1>7, UnassignStep

LEMMA AllDeletedStep ==
    ASSUME IInv, NEW w \in Worker, AllDeleted(w)
    PROVE  IInv'
BY ThrowStep, GotoStep DEF AllDeleted

LEMMA UnassignFromFulfilmentStep ==
    ASSUME IInv, NEW w \in Worker, UnassignInventoryFromFulfilment(w)
    PROVE  IInv'
<1> DEFINE f == task[w].fulfilment
           doc == [fulfilments[f] EXCEPT !.inventoryId = NoItem]
<1>1. f \in Fulfilment
  BY DEF IInv, WorkerRight, RequestRight, UnassignInventoryFromFulfilment, At
<1>2. doc \in FulfilmentDoc
  BY <1>1 DEF IInv, TypeOK, FulfilmentDoc
<1>3. CASE ~fulfilments[f].live
  BY <1>3, ThrowStep DEF UnassignInventoryFromFulfilment
<1>4. CASE fulfilments[f].live
  <2>1. Writable(w, f) /\ Done(w) /\ Update(f, doc)
    BY <1>4 DEF UnassignInventoryFromFulfilment
  <2> QED BY <1>1, <1>2, <2>1, UpdateKeepsDb, UpdateStep DEF Update
<1> QED BY <1>3, <1>4

LEMMA WriteDateStep ==
    ASSUME IInv, NEW w \in Worker, WriteDate(w)
    PROVE  IInv'
<1> DEFINE f == task[w].fulfilment
           doc == IF task[w].op = "start"
                  THEN [fulfilments[f] EXCEPT !.rentalStartDate = task[w].startDate]
                  ELSE [fulfilments[f] EXCEPT !.expectedRentalEndDate = task[w].endDate]
<1>1. /\ task[w] \in Task /\ RequestRight(w, task[w])
      /\ Assigning(task[w], view[w]) /\ task[w].step = "write"
  BY DEF IInv, TypeOK, WorkerRight, WriteDate
<1>2. /\ task[w].op \in {"start", "end"} /\ f \in Fulfilment
      /\ task[w].op = "start" => task[w].startDate \in Date
      /\ task[w].op = "end" => task[w].endDate \in Date
  BY <1>1 DEF RequestRight, Task, Idle
<1>3. doc \in FulfilmentDoc
  BY <1>2 DEF IInv, TypeOK, FulfilmentDoc
<1>4. CASE ~fulfilments[f].live
  BY <1>4, ThrowStep DEF WriteDate
<1>5. CASE fulfilments[f].live
  <2>1. Writable(w, f) /\ Done(w) /\ Update(f, doc)
    BY <1>5 DEF WriteDate
  <2> QED BY <1>2, <1>3, <2>1, UpdateKeepsDb, UpdateStep DEF Update
<1> QED BY <1>4, <1>5

LEMMA DeleteFulfilmentStep ==
    ASSUME IInv, DeleteFulfilment
    PROVE  IInv'
<1>1. PICK f \in Fulfilment :
        /\ \A v \in Worker : view[v] # None => ~(task[v].fulfilment = f /\ view[v].wrote)
        /\ calls < MaxCalls /\ calls' = calls + 1
        /\ Update(f, [fulfilments[f] EXCEPT !.live = FALSE])
        /\ UNCHANGED <<task, view>>
  BY DEF DeleteFulfilment
<1>2. [fulfilments[f] EXCEPT !.live = FALSE] \in FulfilmentDoc
  BY DEF IInv, TypeOK, FulfilmentDoc
<1>3. DbOK'
  BY <1>1, <1>2, UpdateKeepsDb
<1>4. \A u \in Worker : SnapshotRight(task[u], view[u])'
  BY <1>1, SnapshotOutdated DEF Update
<1>5. calls' \in 0 .. MaxCalls
  BY <1>1, BoundsAssumption DEF IInv, TypeOK
<1>6. TypeOK'
  BY <1>1, <1>3, <1>5 DEF IInv, TypeOK, DbOK
<1>7. WritersExclude'
  BY <1>1 DEF IInv, WritersExclude, Writable
<1>8. \A u \in Worker : WorkerRight(u, task'[u], view'[u])
  BY <1>1 DEF IInv
<1> QED BY <1>4, <1>6, <1>7, <1>8 DEF IInv
-------------------------------------------------------------------------------
LEMMA Invariance == Spec => []IInv
<1>1. Init => IInv
  <2> SUFFICES ASSUME Init PROVE IInv
    OBVIOUS
  <2>1. TypeOK
    BY IdleRight, BoundsAssumption DEF Init, TypeOK, Idle
  <2>2. \A w \in Worker : task[w] = Idle /\ view[w] = None
    BY DEF Init
  <2> QED BY <2>1, <2>2, IdleRight DEF IInv, WritersExclude, SnapshotRight
<1>2. IInv /\ [Next]_vars => IInv'
  <2> SUFFICES ASSUME IInv, [Next]_vars PROVE IInv'
    OBVIOUS
  <2>1. CASE DeleteFulfilment
    BY <2>1, DeleteFulfilmentStep
  <2>2. ASSUME NEW w \in Worker,
               \/ AssignInventory(w) \/ CreateFulfilmentReservation(w)
               \/ UnassignInventory(w)
               \/ SetRentalStartDate(w) \/ SetExpectedRentalEndDate(w)
        PROVE  IInv'
    BY <2>2, RequestSteps
  <2>3. ASSUME NEW w \in Worker,
               \/ ReadFulfilment(w) \/ CheckOverlap(w) \/ ReserveForAssignment(w)
               \/ AssignInventoryToFulfilment(w) \/ SetPurchaseOrderLineItemId(w)
               \/ CommitAssignment(w) \/ ReserveDirectly(w)
        PROVE  IInv'
    BY <2>3, ReadFulfilmentStep, CheckOverlapStep, ReserveForAssignmentStep,
       AssignInventoryStep, SetPurchaseOrderLineItemIdStep, CommitStep,
       ReserveDirectlyStep
  <2>4. ASSUME NEW w \in Worker,
               \/ ReadForUnassign(w) \/ ListReservations(w) \/ GetReservation(w)
               \/ DeleteReservation(w) \/ AllDeleted(w)
               \/ UnassignInventoryFromFulfilment(w) \/ WriteDate(w)
        PROVE  IInv'
    BY <2>4, ReadForUnassignStep, ListReservationsStep, GetReservationStep,
       DeleteReservationStep, AllDeletedStep, UnassignFromFulfilmentStep,
       WriteDateStep
  <2>5. ASSUME NEW w \in Worker, TransientFault(w) PROVE IInv'
    BY <2>5, RetryStep DEF TransientFault, IInv, TypeOK
  <2>6. ASSUME NEW w \in Worker, Abort(w) PROVE IInv'
    BY <2>6, ThrowStep DEF Abort
  <2>7. CASE UNCHANGED vars
    BY <2>7 DEF IInv, TypeOK, SnapshotRight, WritersExclude, Writable, vars, db
  <2> QED BY <2>1, <2>2, <2>3, <2>4, <2>5, <2>6, <2>7 DEF Next
<1> QED BY <1>1, <1>2, PTL DEF Spec

(***************************************************************************)
(* Documents, requests and views always have their types.                  *)
(***************************************************************************)
THEOREM TypeCorrect == Spec => []TypeOK
BY Invariance, PTL DEF IInv
-------------------------------------------------------------------------------
\* The steps that write a collection, and what they do to it.
LEMMA Writes ==
    ASSUME IInv, [Next]_vars
    PROVE  \/ UNCHANGED db
           \/ \E w \in Worker : CommitAssignment(w)
           \/ \E w \in Worker : ReserveDirectly(w)
           \/ \E w \in Worker : DeleteReservation(w)
           \/ \E w \in Worker : /\ UnassignInventoryFromFulfilment(w)
                                 /\ fulfilments[task[w].fulfilment].live
           \/ \E w \in Worker : WriteDate(w) /\ fulfilments[task[w].fulfilment].live
           \/ DeleteFulfilment
<1>1. CASE UNCHANGED vars
  BY <1>1 DEF vars
<1>2. ASSUME NEW w \in Worker,
             \/ AssignInventory(w) \/ CreateFulfilmentReservation(w)
             \/ UnassignInventory(w)
             \/ SetRentalStartDate(w) \/ SetExpectedRentalEndDate(w)
      PROVE  UNCHANGED db
  BY <1>2 DEF AssignInventory, CreateFulfilmentReservation, UnassignInventory,
     SetRentalStartDate, SetExpectedRentalEndDate, Request
<1>3. ASSUME NEW w \in Worker,
             \/ ReadFulfilment(w) \/ CheckOverlap(w) \/ ReserveForAssignment(w)
             \/ AssignInventoryToFulfilment(w) \/ SetPurchaseOrderLineItemId(w)
             \/ ReadForUnassign(w) \/ ListReservations(w) \/ GetReservation(w)
             \/ AllDeleted(w) \/ TransientFault(w) \/ Abort(w)
      PROVE  UNCHANGED db
  <2>1. Throw(w) => UNCHANGED db
    BY DEF Throw
  <2>2. Retry(w) => UNCHANGED db
    BY <2>1 DEF Retry
  <2> QED BY <1>3, <2>1, <2>2 DEF ReadFulfilment, CheckOverlap, ReserveForAssignment,
             AssignInventoryToFulfilment, SetPurchaseOrderLineItemId, ReadForUnassign,
             ListReservations, GetReservation, AllDeleted, TransientFault, Abort
<1>4. ASSUME NEW w \in Worker, UnassignInventoryFromFulfilment(w) \/ WriteDate(w)
      PROVE  UNCHANGED db \/ fulfilments[task[w].fulfilment].live
  BY <1>4 DEF UnassignInventoryFromFulfilment, WriteDate, Throw
<1> QED BY <1>1, <1>2, <1>3, <1>4 DEF Next

\* What the commit of an assignment writes.
LEMMA CommitWrites ==
    ASSUME IInv, NEW w \in Worker, CommitAssignment(w)
    PROVE  LET f == task[w].fulfilment
               v == view[w]
               new == [id |-> made + 1, inventoryId |-> task[w].item,
                       fulfilmentId |-> f, startDate |-> StartOf(v.doc),
                       endDate |-> EndOf(v.doc)]
           IN /\ f \in Fulfilment
              /\ fulfilments' = [fulfilments EXCEPT ![f] = v.doc]
              /\ reservations' = reservations \cup {new}
              /\ new \notin reservations
              /\ v.doc.inventoryId = task[w].item
              /\ task[w].item \in Ordered => v.doc.purchaseOrderLineItem = task[w].item
              /\ fulfilments[f].live
              /\ v.doc.rentalStartDate = fulfilments[f].rentalStartDate
              /\ v.doc.expectedRentalEndDate = fulfilments[f].expectedRentalEndDate
<1>1. /\ task[w].op = "assign" /\ task[w].step = "commit"
      /\ WorkerRight(w, task[w], view[w]) /\ SnapshotRight(task[w], view[w])
  BY DEF IInv, CommitAssignment, At
<1>2. /\ view[w] # None /\ view[w].wrote /\ view[w].reserved
      /\ task[w].fulfilment \in Fulfilment
      /\ view[w].doc.inventoryId = task[w].item
      /\ task[w].item \in Ordered => view[w].doc.purchaseOrderLineItem = task[w].item
      /\ task[w].startDate = StartOf(view[w].doc) /\ task[w].endDate = EndOf(view[w].doc)
  BY <1>1, NoneAssumption DEF WorkerRight, RequestRight, Assigning
<1>3. /\ fulfilments[task[w].fulfilment].live
      /\ view[w].doc.rentalStartDate = fulfilments[task[w].fulfilment].rentalStartDate
      /\ view[w].doc.expectedRentalEndDate =
            fulfilments[task[w].fulfilment].expectedRentalEndDate
  BY <1>1, <1>2 DEF SnapshotRight
<1>4. \A r \in reservations : r.id # made + 1
  BY DEF IInv, TypeOK
<1>5. /\ fulfilments' = [fulfilments EXCEPT ![task[w].fulfilment] = view[w].doc]
      /\ AddReservation(w, task[w].startDate, task[w].endDate)
  BY <1>2 DEF CommitAssignment
<1> QED BY <1>2, <1>3, <1>4, <1>5 DEF AddReservation

(***************************************************************************)
(* An assignment is atomic: item, reservation for the rental's dates and   *)
(* purchase order line item appear together.                               *)
(***************************************************************************)
THEOREM AssignmentAtomic == Spec => AssignedAsReserved
<1> DEFINE A == \A f \in Fulfilment :
        LET doc == fulfilments'[f] IN
        doc.inventoryId \notin {NoItem, fulfilments[f].inventoryId} =>
            /\ \E r \in reservations' \ reservations :
                  /\ r.inventoryId = doc.inventoryId /\ r.fulfilmentId = f
                  /\ r.startDate = StartOf(doc) /\ r.endDate = EndOf(doc)
            /\ doc.inventoryId \in Ordered =>
                  doc.purchaseOrderLineItem = doc.inventoryId
<1>1. IInv /\ [Next]_vars => A
  <2> SUFFICES ASSUME IInv, [Next]_vars PROVE A
    OBVIOUS
  <2>0. fulfilments \in [Fulfilment -> FulfilmentDoc]
    BY DEF IInv, TypeOK
  <2>1. CASE UNCHANGED fulfilments
    BY <2>1
  <2>2. ASSUME NEW w \in Worker, CommitAssignment(w) PROVE A
    <3> DEFINE g == task[w].fulfilment
               v == view[w]
               new == [id |-> made + 1, inventoryId |-> task[w].item,
                       fulfilmentId |-> g, startDate |-> StartOf(v.doc),
                       endDate |-> EndOf(v.doc)]
    <3>1. /\ g \in Fulfilment /\ fulfilments' = [fulfilments EXCEPT ![g] = v.doc]
          /\ new \in reservations' \ reservations
          /\ v.doc.inventoryId = task[w].item
          /\ task[w].item \in Ordered => v.doc.purchaseOrderLineItem = task[w].item
      BY <2>2, CommitWrites
    <3>2. /\ new.fulfilmentId = g /\ new.inventoryId = task[w].item
          /\ new.startDate = StartOf(v.doc) /\ new.endDate = EndOf(v.doc)
      OBVIOUS
    <3> HIDE DEF new
    <3> SUFFICES ASSUME NEW f \in Fulfilment,
                        fulfilments'[f].inventoryId # fulfilments[f].inventoryId
                 PROVE  f = g /\ fulfilments'[f] = v.doc
      BY <3>1, <3>2
    <3> QED BY <2>0, <3>1
  <2>3. ASSUME NEW w \in Worker, UnassignInventoryFromFulfilment(w),
               fulfilments[task[w].fulfilment].live
        PROVE  A
    BY <2>0, <2>3 DEF UnassignInventoryFromFulfilment, Update, FulfilmentDoc
  <2>4. ASSUME NEW w \in Worker, WriteDate(w), fulfilments[task[w].fulfilment].live
        PROVE  A
    BY <2>0, <2>4 DEF WriteDate, Update, FulfilmentDoc
  <2>5. CASE DeleteFulfilment
    BY <2>0, <2>5 DEF DeleteFulfilment, Update, FulfilmentDoc
  <2> QED BY <2>1, <2>2, <2>3, <2>4, <2>5, Writes
          DEF db, ReserveDirectly, DeleteReservation
<1> QED BY <1>1, Invariance, PTL DEF Spec, AssignedAsReserved

(***************************************************************************)
(* An assignment that fails or is tried again leaves no reservation.       *)
(***************************************************************************)
THEOREM NoHalfAssignment == Spec => NothingHalfAssigned
<1> DEFINE A == \A r \in reservations' \ reservations :
        \/ fulfilments'[r.fulfilmentId].inventoryId = r.inventoryId
        \/ \E w \in Worker : At(w, "reserve", "reserve") /\ task'[w] = Idle
<1>1. IInv /\ [Next]_vars => A
  <2> SUFFICES ASSUME IInv, [Next]_vars PROVE A
    OBVIOUS
  <2>1. CASE UNCHANGED reservations
    BY <2>1
  <2>2. ASSUME NEW w \in Worker, CommitAssignment(w) PROVE A
    <3> DEFINE f == task[w].fulfilment
               v == view[w]
               new == [id |-> made + 1, inventoryId |-> task[w].item,
                       fulfilmentId |-> f, startDate |-> StartOf(v.doc),
                       endDate |-> EndOf(v.doc)]
    <3>1. /\ f \in Fulfilment /\ fulfilments'[f] = v.doc
          /\ reservations' = reservations \cup {new}
          /\ v.doc.inventoryId = task[w].item
      BY <2>2, CommitWrites DEF IInv, TypeOK
    <3>2. new.fulfilmentId = f /\ new.inventoryId = task[w].item
      OBVIOUS
    <3> HIDE DEF new
    <3> QED BY <3>1, <3>2
  <2>3. ASSUME NEW w \in Worker, ReserveDirectly(w) PROVE A
    BY <2>3 DEF ReserveDirectly, Done, Become, IInv, TypeOK
  <2>4. ASSUME NEW w \in Worker, DeleteReservation(w) PROVE A
    BY <2>4 DEF DeleteReservation
  <2> QED BY <2>1, <2>2, <2>3, <2>4, Writes
          DEF db, UnassignInventoryFromFulfilment, WriteDate, DeleteFulfilment, Update
<1> QED BY <1>1, Invariance, PTL DEF Spec, NothingHalfAssigned

(***************************************************************************)
(* A rental loses a reservation only when the item is taken from it.       *)
(***************************************************************************)
THEOREM ReleaseCorrect == Spec => OnlyUnassignReleases
<1> DEFINE A == \A r \in reservations \ reservations' :
        \E w \in Worker : /\ task[w].op = "unassign"
                          /\ task[w].fulfilment = r.fulfilmentId
                          /\ task[w].item = r.inventoryId
<1>1. IInv /\ [Next]_vars => A
  <2> SUFFICES ASSUME IInv, [Next]_vars PROVE A
    OBVIOUS
  <2>1. CASE reservations \subseteq reservations'
    BY <2>1
  <2>2. ASSUME NEW w \in Worker, DeleteReservation(w) PROVE A
    BY <2>2 DEF DeleteReservation, IInv, WorkerRight, Releasing
  <2>3. ASSUME NEW w \in Worker, CommitAssignment(w) \/ ReserveDirectly(w)
        PROVE  reservations \subseteq reservations'
    BY <2>3 DEF CommitAssignment, ReserveDirectly, AddReservation
  <2> QED BY <2>1, <2>2, <2>3, Writes
          DEF db, UnassignInventoryFromFulfilment, WriteDate, DeleteFulfilment, Update
<1> QED BY <1>1, Invariance, PTL DEF Spec, OnlyUnassignReleases

(***************************************************************************)
(* An assignment undoes neither a change of dates nor a deletion.          *)
(***************************************************************************)
THEOREM NoLostUpdate == Spec => OthersNotUndone
<1> DEFINE A == \A f \in Fulfilment :
        /\ fulfilments'[f].live => fulfilments[f].live
        /\ \/ /\ fulfilments'[f].rentalStartDate = fulfilments[f].rentalStartDate
              /\ fulfilments'[f].expectedRentalEndDate =
                     fulfilments[f].expectedRentalEndDate
           \/ \E w \in Worker : task[w].step = "write" /\ task[w].fulfilment = f
<1>1. IInv /\ [Next]_vars => A
  <2> SUFFICES ASSUME IInv, [Next]_vars PROVE A
    OBVIOUS
  <2>0. fulfilments \in [Fulfilment -> FulfilmentDoc]
    BY DEF IInv, TypeOK
  <2>1. CASE UNCHANGED fulfilments
    BY <2>1
  <2>2. ASSUME NEW w \in Worker, CommitAssignment(w) PROVE A
    BY <2>0, <2>2, CommitWrites
  <2>3. ASSUME NEW w \in Worker, UnassignInventoryFromFulfilment(w),
               fulfilments[task[w].fulfilment].live
        PROVE  A
    BY <2>0, <2>3 DEF UnassignInventoryFromFulfilment, Update, FulfilmentDoc
  <2>4. ASSUME NEW w \in Worker, WriteDate(w), fulfilments[task[w].fulfilment].live
        PROVE  A
    <3> SUFFICES ASSUME NEW f \in Fulfilment, f # task[w].fulfilment
                 PROVE  fulfilments'[f] = fulfilments[f]
      BY <2>0, <2>4 DEF WriteDate
    <3> QED BY <2>0, <2>4 DEF WriteDate, Update
  <2>5. CASE DeleteFulfilment
    BY <2>0, <2>5 DEF DeleteFulfilment, Update, FulfilmentDoc
  <2> QED BY <2>1, <2>2, <2>3, <2>4, <2>5, Writes
          DEF db, ReserveDirectly, DeleteReservation
<1> QED BY <1>1, Invariance, PTL DEF Spec, OthersNotUndone
-------------------------------------------------------------------------------
(***************************************************************************)
(* What a request found free stays free until it reserves, but for what is *)
(* reserved in between, which is then on record.                           *)
(***************************************************************************)
SameWish(u) ==
    /\ task'[u].item = task[u].item
    /\ task'[u].startDate = task[u].startDate /\ task'[u].endDate = task[u].endDate

LEMMA FoundFreeFrom ==
    ASSUME IInv, [Next]_vars, NEW u \in Worker, FoundFree(u)'
    PROVE  \/ FoundFree(u) /\ SameWish(u)
           \/ Free(task'[u].item, task'[u].startDate, task'[u].endDate)
<1> DEFINE Goal == \/ FoundFree(u) /\ SameWish(u)
                   \/ Free(task'[u].item, task'[u].startDate, task'[u].endDate)
<1>0. /\ task \in [Worker -> Task]
      /\ \A w \in Worker : RequestRight(w, task[w])
  BY DEF IInv, TypeOK, WorkerRight
<1>1. ASSUME task'[u] = task[u] PROVE Goal
  BY <1>1 DEF FoundFree, SameWish
<1>2. ASSUME NEW w \in Worker, NEW t, task' = [task EXCEPT ![w] = t],
             ~(/\ t.op \in {"assign", "reserve"} /\ ~t.allow
               /\ t.step \in {"reserve", "assign", "line", "commit"})
      PROVE  Goal
  BY <1>0, <1>1, <1>2 DEF FoundFree
<1>3. ASSUME NEW w \in Worker, Done(w) PROVE Goal
  BY <1>2, <1>3 DEF Done, Become, Idle
<1>4. ASSUME NEW w \in Worker, Throw(w) PROVE Goal
  BY <1>3, <1>4 DEF Throw
<1>5. ASSUME NEW w \in Worker, Retry(w) PROVE Goal
  <2>1. CASE Throw(w)
    BY <1>4, <2>1
  <2>2. CASE Become(w, [task[w] EXCEPT !.tries = @ + 1, !.step = "read"])
    <3> DEFINE t == [task[w] EXCEPT !.tries = @ + 1, !.step = "read"]
    <3>1. t.step = "read"
      BY <1>0 DEF Task
    <3>2. task' = [task EXCEPT ![w] = t]
      BY <2>2 DEF Become
    <3> HIDE DEF t
    <3> QED BY <1>2, <3>1, <3>2
  <2> QED BY <1>5, <2>1, <2>2 DEF Retry
<1>6. ASSUME NEW w \in Worker,
             \/ AssignInventory(w) \/ CreateFulfilmentReservation(w)
             \/ UnassignInventory(w)
             \/ SetRentalStartDate(w) \/ SetExpectedRentalEndDate(w)
      PROVE  Goal
  <2>1. ASSUME NEW t, Request(w, t), t.step \in {"read", "check", "write"} PROVE Goal
    BY <1>2, <2>1 DEF Request
  <2>2. CASE AssignInventory(w)
    <3> PICK f \in Fulfilment, i \in Item, allow \in BOOLEAN :
          /\ Request(w, [Call("assign", "read", f) EXCEPT
                          !.item = i, !.allow = allow])
      BY <2>2 DEF AssignInventory
    <3> DEFINE t == [Call("assign", "read", f) EXCEPT
                     !.item = i, !.allow = allow]
    <3>1. t.step = "read" /\ Request(w, t)
      BY DEF Call, Idle
    <3> HIDE DEF t
    <3> QED BY <2>1, <3>1
  <2>3. CASE CreateFulfilmentReservation(w)
    <3> PICK f \in Fulfilment, i \in Item, from \in Date, to \in Date :
          /\ Request(w, [Call("reserve", "check", f) EXCEPT
                          !.item = i, !.startDate = from, !.endDate = to])
      BY <2>3 DEF CreateFulfilmentReservation
    <3> DEFINE t == [Call("reserve", "check", f) EXCEPT
                     !.item = i, !.startDate = from, !.endDate = to]
    <3>1. t.step = "check" /\ Request(w, t)
      BY DEF Call, Idle
    <3> HIDE DEF t
    <3> QED BY <2>1, <3>1
  <2>4. CASE UnassignInventory(w)
    <3> PICK f \in Fulfilment :
          Request(w, Call("unassign", "read", f))
      BY <2>4 DEF UnassignInventory
    <3> DEFINE t == Call("unassign", "read", f)
    <3>1. t.step = "read" /\ Request(w, t)
      BY DEF Call, Idle
    <3> HIDE DEF t
    <3> QED BY <2>1, <3>1
  <2>5. CASE SetRentalStartDate(w)
    <3> PICK f \in Fulfilment, d \in Date :
          Request(w, [Call("start", "write", f) EXCEPT !.startDate = d])
      BY <2>5 DEF SetRentalStartDate
    <3> DEFINE t == [Call("start", "write", f) EXCEPT !.startDate = d]
    <3>1. t.step = "write" /\ Request(w, t)
      BY DEF Call, Idle
    <3> HIDE DEF t
    <3> QED BY <2>1, <3>1
  <2>6. CASE SetExpectedRentalEndDate(w)
    <3> PICK f \in Fulfilment, d \in Date :
          Request(w, [Call("end", "write", f) EXCEPT !.endDate = d])
      BY <2>6 DEF SetExpectedRentalEndDate
    <3> DEFINE t == [Call("end", "write", f) EXCEPT !.endDate = d]
    <3>1. t.step = "write" /\ Request(w, t)
      BY DEF Call, Idle
    <3> HIDE DEF t
    <3> QED BY <2>1, <3>1
  <2> QED BY <1>6, <2>2, <2>3, <2>4, <2>5, <2>6
<1>7. ASSUME NEW w \in Worker, ReadFulfilment(w) PROVE Goal
  <2>1. CASE Throw(w)
    BY <1>4, <2>1
  <2>2. CASE ~Throw(w)
    <3> DEFINE t == [task[w] EXCEPT
                        !.step = IF task[w].allow THEN "reserve" ELSE "check",
                        !.startDate = StartOf(fulfilments[task[w].fulfilment]),
                        !.endDate = EndOf(fulfilments[task[w].fulfilment])]
    <3>1. task' = [task EXCEPT ![w] = t]
      BY <1>7, <2>2 DEF ReadFulfilment, Become
    <3>2. task[w].allow => t.allow
      BY <1>0 DEF Task
    <3>3. ~task[w].allow => t.step = "check"
      BY <1>0 DEF Task
    <3> HIDE DEF t
    <3> QED BY <1>2, <3>1, <3>2, <3>3
  <2> QED BY <2>1, <2>2
<1>8. ASSUME NEW w \in Worker, CheckOverlap(w) PROVE Goal
  <2>1. CASE Throw(w)
    BY <1>4, <2>1
  <2>2. CASE ~Throw(w) /\ u = w
    <3>1. Free(task[u].item, task[u].startDate, task[u].endDate) /\ Goto(u, "reserve")
      BY <1>8, <2>2 DEF CheckOverlap, Free
    <3>2. SameWish(u)
      BY <1>0, <3>1 DEF Goto, Become, SameWish, Task
    <3> QED BY <3>1, <3>2 DEF SameWish
  <2>3. CASE ~Throw(w) /\ u # w
    BY <1>0, <1>1, <1>8, <2>3 DEF CheckOverlap, Goto, Become
  <2> QED BY <2>1, <2>2, <2>3
<1>9. ASSUME NEW w \in Worker, NEW step, Goto(w, step),
             task[w].op = "assign", task[w].step \in {"reserve", "assign", "line"}
      PROVE  Goal
  <2>1. CASE u = w
    <3>1. /\ SameWish(u) /\ task'[u].op = task[u].op /\ task'[u].allow = task[u].allow
      BY <1>0, <1>9, <2>1 DEF Goto, Become, SameWish, Task
    <3> QED BY <1>9, <2>1, <3>1 DEF FoundFree
  <2>2. CASE u # w
    BY <1>0, <1>1, <1>9, <2>2 DEF Goto, Become
  <2> QED BY <2>1, <2>2
<1>10. ASSUME NEW w \in Worker,
              \/ ReserveForAssignment(w) \/ AssignInventoryToFulfilment(w)
              \/ SetPurchaseOrderLineItemId(w)
       PROVE  Goal
  BY <1>5, <1>9, <1>10 DEF ReserveForAssignment, AssignInventoryToFulfilment,
     SetPurchaseOrderLineItemId, At
<1>11. ASSUME NEW w \in Worker,
              CommitAssignment(w) \/ ReserveDirectly(w)
              \/ UnassignInventoryFromFulfilment(w) \/ WriteDate(w)
       PROVE  Goal
  BY <1>3, <1>4, <1>11 DEF CommitAssignment, ReserveDirectly,
     UnassignInventoryFromFulfilment, WriteDate
<1>12. ASSUME NEW w \in Worker, NEW t, Become(w, t), t.op = "unassign"
       PROVE  Goal
  BY <1>2, <1>12 DEF Become
<1>13. ASSUME NEW w \in Worker,
              \/ ReadForUnassign(w) \/ ListReservations(w) \/ GetReservation(w)
              \/ DeleteReservation(w) \/ AllDeleted(w)
       PROVE  Goal
  <2>1. CASE Throw(w)
    BY <1>4, <2>1
  <2>2. CASE ~Throw(w)
    <3>1. task[w].op = "unassign"
      <4>1. WorkerRight(w, task[w], view[w])
        BY DEF IInv
      <4> QED BY <1>13, <4>1 DEF ReadForUnassign, ListReservations, GetReservation,
              DeleteReservation, AllDeleted, At, WorkerRight, Releasing
    <3>2. \A a, b : /\ [task[w] EXCEPT !.step = a].op = task[w].op
                    /\ [task[w] EXCEPT !.step = a, !.item = b].op = task[w].op
                    /\ [task[w] EXCEPT !.step = a, !.pending = b].op = task[w].op
                    /\ [task[w] EXCEPT !.pending = a, !.found = b].op = task[w].op
                    /\ [task[w] EXCEPT !.found = a, !.rejected = b].op = task[w].op
      BY <1>0 DEF Task
    <3>3. CASE ReadForUnassign(w)
      BY <1>12, <2>2, <3>1, <3>2, <3>3 DEF ReadForUnassign
    <3>4. CASE ListReservations(w)
      BY <1>12, <2>2, <3>1, <3>2, <3>4 DEF ListReservations
    <3>5. CASE GetReservation(w)
      BY <1>12, <3>1, <3>2, <3>5 DEF GetReservation
    <3>6. CASE DeleteReservation(w)
      BY <1>12, <3>1, <3>2, <3>6 DEF DeleteReservation
    <3>7. CASE AllDeleted(w)
      BY <1>12, <2>2, <3>1, <3>2, <3>7 DEF AllDeleted, Goto
    <3> QED BY <1>13, <3>3, <3>4, <3>5, <3>6, <3>7
  <2> QED BY <2>1, <2>2
<1>14. CASE DeleteFulfilment \/ UNCHANGED vars
  BY <1>1, <1>14 DEF DeleteFulfilment, vars
<1>15. ASSUME NEW w \in Worker, TransientFault(w) \/ Abort(w) PROVE Goal
  BY <1>4, <1>5, <1>15 DEF TransientFault, Abort
<1> QED BY <1>6, <1>7, <1>8, <1>10, <1>11, <1>13, <1>14, <1>15 DEF Next

\* The cases of the filter are all the cases in which two ranges meet.
LEMMA MeetInRange ==
    ASSUME NEW r \in Reservation, NEW q \in Reservation,
           Proper(r), Proper(q), Meet(r, q)
    PROVE  InRange(r, q.startDate, q.endDate)
<1>1. /\ r.startDate \in Int /\ r.endDate \in Int
      /\ q.startDate \in Int /\ q.endDate \in Int
  BY DateAssumption DEF Reservation, Day
<1> QED BY <1>1 DEF Proper, Meet, InRange

(***************************************************************************)
(* An item is booked twice for one day only if that was allowed or if one  *)
(* request reserved between another's look and its insert: for any number  *)
(* of requests, the filter misses no reservation that was there.           *)
(***************************************************************************)
THEOREM BookedTwiceInRaces == Spec => []BookedTwiceByRaceOnly
<1>1. Init => RacesOnly
  BY DEF Init, RacesOnly, BookedTwiceByRaceOnly, Clear, Free
<1>2. IInv /\ RacesOnly /\ [Next]_vars => RacesOnly'
  <2> SUFFICES ASSUME IInv, RacesOnly, [Next]_vars PROVE RacesOnly'
    OBVIOUS
  <2>1. CASE reservations' \subseteq reservations /\ allowed' = allowed /\ raced' = raced
    <3>1. BookedTwiceByRaceOnly'
      BY <2>1 DEF RacesOnly, BookedTwiceByRaceOnly
    <3>2. ASSUME NEW u \in Worker, FoundFree(u)'
          PROVE  Free(task[u].item, task[u].startDate, task[u].endDate)'
      <4>1. Free(task'[u].item, task'[u].startDate, task'[u].endDate)
        BY <3>2, FoundFreeFrom DEF SameWish, RacesOnly, Clear
      <4> QED BY <2>1, <4>1 DEF Free
    <3> QED BY <3>1, <3>2 DEF RacesOnly, Clear
  <2>2. ASSUME NEW w \in Worker, FoundFree(w) \/ task[w].allow,
               task[w].fulfilment \in Fulfilment, task[w].item \in Item,
               task[w].startDate \in Day, task[w].endDate \in Day,
               AddReservation(w, task[w].startDate, task[w].endDate), Done(w)
        PROVE  RacesOnly'
    <3> DEFINE new == [id |-> made + 1, inventoryId |-> task[w].item,
                       fulfilmentId |-> task[w].fulfilment,
                       startDate |-> task[w].startDate, endDate |-> task[w].endDate]
    <3>1. /\ made \in Nat /\ reservations \subseteq Reservation
          /\ reservations' = reservations \cup {new}
          /\ allowed \subseteq allowed' /\ raced \subseteq raced'
          /\ task[w].allow => new.id \in allowed'
      BY <2>2 DEF IInv, TypeOK, AddReservation
    <3>2. new \in Reservation
      BY <2>2, <3>1 DEF Reservation
    <3>3. /\ new.inventoryId = task[w].item
          /\ new.startDate = task[w].startDate /\ new.endDate = task[w].endDate
      OBVIOUS
    <3>4. ASSUME NEW v \in Worker \ {w}, FoundFree(v), task[v].item = new.inventoryId,
                 InRange(new, task[v].startDate, task[v].endDate)
          PROVE  new.id \in raced'
      <4>1. Races(v, task[w].item, task[w].startDate, task[w].endDate)
        BY <3>4 DEF Races, InRange
      <4> QED BY <2>2, <3>4, <4>1 DEF AddReservation
    <3> HIDE DEF new
    <3>5. ASSUME ~task[w].allow, NEW r \in reservations,
                 r.inventoryId = new.inventoryId, Proper(r), Proper(new), Meet(r, new)
          PROVE  r.id \in allowed \cup raced
      <4>1. InRange(r, new.startDate, new.endDate)
        BY <3>1, <3>2, <3>5, MeetInRange
      <4> QED BY <2>2, <3>3, <3>5, <4>1 DEF RacesOnly, Clear, Free
    <3>6. BookedTwiceByRaceOnly'
      <4> SUFFICES ASSUME NEW r \in reservations', NEW q \in reservations',
                          r # q, r.inventoryId = q.inventoryId,
                          Proper(r), Proper(q), Meet(r, q)
                   PROVE  {r.id, q.id} \cap (allowed' \cup raced') # {}
        BY DEF BookedTwiceByRaceOnly
      <4>1. CASE r \in reservations /\ q \in reservations
        BY <3>1, <4>1 DEF RacesOnly, BookedTwiceByRaceOnly
      <4>2. CASE r \in reservations /\ q = new
        BY <3>1, <3>5, <4>2
      <4>3. CASE r = new /\ q \in reservations
        BY <3>1, <3>5, <4>3 DEF Meet
      <4> QED BY <3>1, <4>1, <4>2, <4>3
    <3>7. task'[w] = Idle /\ \A u \in Worker \ {w} : task'[u] = task[u]
      BY <2>2 DEF Done, Become, IInv, TypeOK
    <3>8. ASSUME NEW u \in Worker, FoundFree(u)'
          PROVE  Free(task[u].item, task[u].startDate, task[u].endDate)'
      <4>1. u # w /\ task'[u] = task[u] /\ FoundFree(u)
        BY <3>7, <3>8 DEF FoundFree, Idle
      <4> SUFFICES ASSUME NEW r \in reservations', r.inventoryId = task[u].item,
                          InRange(r, task[u].startDate, task[u].endDate)
                   PROVE  r.id \in allowed' \cup raced'
        BY <4>1 DEF Free
      <4>2. CASE r \in reservations
        BY <3>1, <4>1, <4>2 DEF RacesOnly, Clear, Free
      <4>3. CASE r = new
        BY <3>4, <4>1, <4>3
      <4> QED BY <3>1, <4>2, <4>3
    <3> QED BY <3>6, <3>8 DEF RacesOnly, Clear
  <2>3. ASSUME NEW w \in Worker, ReserveDirectly(w) PROVE RacesOnly'
    <3>1. WorkerRight(w, task[w], view[w])
      BY DEF IInv
    <3> QED BY <2>2, <2>3, <3>1
            DEF ReserveDirectly, At, WorkerRight, RequestRight, FoundFree
  <2>4. ASSUME NEW w \in Worker, CommitAssignment(w) PROVE RacesOnly'
    <3>1. WorkerRight(w, task[w], view[w]) /\ task[w] \in Task
      BY DEF IInv, TypeOK
    <3>2. /\ task[w].op = "assign" /\ task[w].step = "commit"
          /\ task[w].fulfilment \in Fulfilment /\ task[w].item \in Item
          /\ view[w] \in View /\ view[w].reserved
          /\ task[w].startDate = StartOf(view[w].doc)
          /\ task[w].endDate = EndOf(view[w].doc)
      BY <2>4, <3>1 DEF CommitAssignment, At, WorkerRight, RequestRight, Assigning
    <3>3. task[w].startDate \in Day /\ task[w].endDate \in Day
      BY <3>2 DEF StartOf, EndOf, Day, View, FulfilmentDoc
    <3>4. FoundFree(w) \/ task[w].allow
      BY <3>2 DEF FoundFree
    <3> QED BY <2>2, <2>4, <3>2, <3>3, <3>4 DEF CommitAssignment
  <2> QED BY <2>1, <2>3, <2>4, Writes
          DEF db, DeleteReservation, UnassignInventoryFromFulfilment, WriteDate,
              DeleteFulfilment, Update
<1>3. RacesOnly => BookedTwiceByRaceOnly
  BY DEF RacesOnly
<1> QED BY <1>1, <1>2, <1>3, Invariance, PTL DEF Spec
===============================================================================
