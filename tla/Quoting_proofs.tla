---------------------------- MODULE Quoting_proofs ----------------------------
(***************************************************************************)
(* Proofs about Quoting for any workers, quotes, revisions and line items, *)
(* from the assumptions of Quoting alone.                                  *)
(***************************************************************************)
EXTENDS Quoting, FiniteSetTheorems, TLAPS
-------------------------------------------------------------------------------
Accepts(t) == t.op \in {"accept", "approve"}

Open == {"promote", "quote", "commit", "rfq", "active", "others"}
Ordering == {"SO", "fillSO", "PO", "fillPO"}
Checked == {"check", "begin"} \cup Open

Past(t) == Accepts(t) /\ t.step \in Checked
Filling(t) == t.step \in {"fillSO", "fillPO"}

IsSent(r) == revisions[r].status = "SENT"

(***************************************************************************)
(* What a request t with transaction v has at each step.                   *)
(***************************************************************************)
RequestRight(t, v) ==
    /\ t.op = "idle" => t = Idle
    /\ t.op \in {"draft", "update"} => t.step \in {"write", "copy", "list", "sync"}
    /\ t.op = "send" => t.step \in {"read", "items", "begin", "promote", "quote", "commit"}
    /\ Accepts(t) =>
          /\ t.step \in {"read", "items", "again"} \cup Ordering \cup Checked
          /\ quotes[t.quote].currentRevision # NoRevision
          /\ t.step = "promote" => t.promote
    /\ t.op = "reject" => t.step = "reject"
    /\ t.op # "idle" => t.quote \in Quote
    /\ t.op \notin {"idle", "reject"} => t.revision \in Revision /\ Exists(t.revision)
    /\ v # Closed <=> t.step \in Open

(***************************************************************************)
(* What a transaction has read and written: nobody else has committed what *)
(* it has written, and what it has not is as committed, or stale.          *)
(***************************************************************************)
SnapshotRight(v) ==
    v # Closed =>
        /\ (v.wrote \cup v.sent) \cap v.stale = {}
        /\ \A q \in Quote : q \notin v.stale \cup v.wrote => v.quotes[q] = quotes[q]

SendingRight(t, v) ==
    t.op = "send" /\ v # Closed =>
        /\ v.wrote = IF t.step = "commit" THEN {t.quote} ELSE {}
        /\ v.sent = IF t.step = "promote" THEN {} ELSE {t.revision}
        /\ t.step = "commit" => v.quotes[t.quote] =
              [status |-> NewStatus(t), currentRevision |-> t.revision]

AcceptingRight(t, v) ==
    Accepts(t) /\ v # Closed =>
        /\ v.sent = IF t.promote /\ t.step # "promote" THEN {t.revision} ELSE {}
        /\ t.step \in {"promote", "quote"} => v.wrote = {}
        /\ t.step \in {"commit", "rfq", "active"} => v.wrote = {t.quote}
        /\ t.step = "others" => t.quote \in v.wrote
        /\ \A q \in v.wrote :
              /\ v.quotes[q].currentRevision = quotes[q].currentRevision
              /\ v.quotes[q].status = IF q = t.quote THEN "ACCEPTED" ELSE "REJECTED"
        /\ t.step \in {"rfq", "active", "others"} => t.quote \in OfRFQ
        /\ t.step = "commit" => t.quote \notin OfRFQ
        /\ t.step = "others" => v.wrote \cup t.others \subseteq OfRFQ /\ t.quote \notin t.others
        /\ t.step \in {"active", "others"} => rfq = "ACCEPTED"

\* The revision that was checked is sent, or is going to be.
ContractRight(t) ==
    Accepts(t) /\ t.step \in {"begin"} \cup Open => IsSent(t.revision) \/ t.promote

(***************************************************************************)
(* While an acceptance of p is past its look at the status no other quote  *)
(* is accepted, those exempt aside; once it has listed the others, it is   *)
(* going to reject all that are not rejected.                              *)
(***************************************************************************)
Excluded(p, q) == {p, q} \cap exempt # {}

Settled(q, t, v) ==
    q \in t.others \/ q \in v.wrote \/ quotes[q].status = "REJECTED" \/ Excluded(t.quote, q)

DecisionRight(t, v) ==
    Past(t) /\ t.quote \in Newest =>
        \A q \in Newest \ {t.quote} :
            /\ quotes[q].status = "ACCEPTED" => Excluded(t.quote, q)
            /\ t.step = "others" => Settled(q, t, v)

(***************************************************************************)
(* The orders that an acceptance has made so far.  Nobody fills an order   *)
(* that is kept.                                                           *)
(***************************************************************************)
Kept(n) == n \in DOMAIN orders /\ \A u \in Worker : Filling(task[u]) => task[u].order # n

Filled(n, kind, r, t, lines) ==
    /\ n \in DOMAIN orders
    /\ orders[n] = [kind |-> kind, quote |-> t.quote, revision |-> r, lines |-> lines]

Done(n, kind, r, t) == Kept(n) /\ Filled(n, kind, r, t, Ordered(kind, t.lines))

AsSent(t, r) == t.wasSent => IsSent(r) /\ (r \in edited \/ t.lines = Items(r))

Made(t) ==
    \E n \in Nat, r \in Revision :
        /\ Done(n, "SO", r, t)
        /\ AsSent(t, r)
        /\ t.quote \in WithBuyer => \E m \in Nat : m > n /\ Done(m, "PO", r, t)

Half(kind, t) ==
    /\ t.pending \subseteq Ordered(kind, t.lines)
    /\ Filled(t.order, kind, t.revision, t, Ordered(kind, t.lines) \ t.pending)

OrdersRight(t) ==
    Accepts(t) =>
        /\ t.step = "items" /\ t.wasSent =>
              /\ IsSent(t.revision)
              /\ t.revision \in edited \/ t.lines = revisions[t.revision].lines
        /\ t.step \in Ordering => AsSent(t, t.revision)
        /\ t.step = "fillSO" => Half("SO", t)
        /\ t.step = "PO" => \E n \in Nat : Done(n, "SO", t.revision, t)
        /\ t.step = "fillPO" =>
              /\ Half("PO", t)
              /\ \E n \in Nat : n < t.order /\ Done(n, "SO", t.revision, t)
        /\ t.step \in {"again"} \cup Checked => Made(t)

WorkerRight(t, v) ==
    /\ RequestRight(t, v)
    /\ SnapshotRight(v)
    /\ SendingRight(t, v)
    /\ AcceptingRight(t, v)
    /\ ContractRight(t)
    /\ DecisionRight(t, v)
    /\ OrdersRight(t)

(***************************************************************************)
(* What is committed: a current revision exists; of the newest quotes that *)
(* answer the RFQ the others are rejected with one accepted, those exempt  *)
(* aside.                                                                  *)
(***************************************************************************)
CurrentExists ==
    \A q \in Quote : quotes[q].currentRevision # NoRevision => Exists(quotes[q].currentRevision)

OthersRejected ==
    \A p, q \in Newest : p # q /\ quotes[p].status = "ACCEPTED" =>
        quotes[q].status = "REJECTED" \/ Excluded(p, q)

WritersExclude ==
    \A v, w \in Worker : v # w => Wrote(v) \cap Wrote(w) = {}

FillersApart ==
    \A u \in Worker : Filling(task[u]) =>
        /\ task[u].order \in DOMAIN orders
        /\ \A x \in Worker : Filling(task[x]) /\ x # u => task[x].order # task[u].order

\* Bound t and v, so that the next state's are constants of a step.
RightOf(w) == \A t \in {task[w]}, v \in {tx[w]} : WorkerRight(t, v)

IInv ==
    /\ TypeOK
    /\ CurrentExists
    /\ OthersRejected
    /\ DOMAIN tx = Worker
    /\ WritersExclude
    /\ FillersApart
    /\ \A w \in Worker : RightOf(w)
-------------------------------------------------------------------------------
(***************************************************************************)
(* What a step of w is to the others: documents of ds are committed, which *)
(* none of them has written; revisions that are sent change only noted; an *)
(* order is touched by who fills it; and quotes are decided.               *)
(***************************************************************************)
Later(v, ds) == IF v = Closed THEN Closed ELSE [v EXCEPT !.stale = @ \cup ds]

Step(w, ds) ==
    /\ \A u \in Worker \ {w} : /\ task'[u] = task[u]
                               /\ tx'[u] = Later(tx[u], ds)
                               /\ Wrote(u) \cap ds = {}
    /\ \A q \in Quote : /\ q \notin ds => quotes'[q] = quotes[q]
                        /\ quotes[q].currentRevision # NoRevision =>
                              quotes'[q].currentRevision # NoRevision
    /\ \A r \in Revision : Exists(r) => Exists(r)'
    /\ rfq = "ACCEPTED" => rfq' = "ACCEPTED"
    /\ exempt \subseteq exempt' /\ edited \subseteq edited'

SentStay ==
    \A r \in Revision : IsSent(r) =>
        /\ IsSent(r)'
        /\ \/ r \in edited'
           \/ revisions'[r].lines = revisions[r].lines /\ canonical'[r] = canonical[r]

OrdersStep(w, t) ==
    /\ \A n \in DOMAIN orders : n \in DOMAIN orders' /\
          (orders'[n] = orders[n] \/ (Filling(task[w]) /\ n = task[w].order))
    /\ Filling(t) =>
          \/ t.order \in DOMAIN orders' \ DOMAIN orders
          \/ Filling(task[w]) /\ t.order = task[w].order

Decides(w) ==
    \A q \in OfRFQ :
        \/ quotes'[q].status = quotes[q].status
        \/ q \in exempt'
        \/ quotes'[q].status = "REJECTED"
        \/ \A u \in Worker : u # w /\ Past(task[u]) /\ task[u].quote \in OfRFQ =>
              task[u].quote \in exempt'

Beside(w, t) == SentStay /\ OrdersStep(w, t) /\ Decides(w)

LEMMA LaterIs ==
    ASSUME NEW v \in Transaction \cup {Closed}, NEW ds \in SUBSET Doc
    PROVE  /\ Later(v, ds) \in Transaction \cup {Closed}
           /\ Later(v, ds) = Closed <=> v = Closed
           /\ v # Closed => /\ Later(v, ds).stale = v.stale \cup ds
                            /\ Later(v, ds).wrote = v.wrote
                            /\ Later(v, ds).sent = v.sent
                            /\ Later(v, ds).quotes = v.quotes
           /\ Later(v, {}) = v
BY ClosedAssumption DEF Later, Transaction

LEMMA OpenTyped ==
    ASSUME TypeOK, DOMAIN tx = Worker, NEW w \in Worker
    PROVE  tx[w] \in Transaction \cup {Closed}
BY DEF TypeOK

LEMMA TaskTyped ==
    ASSUME TypeOK, NEW w \in Worker
    PROVE  task \in [Worker -> Task] /\ task[w] \in Task
BY DEF TypeOK

\* One part of WorkerRight after another, for a worker that does nothing.
LEMMA OthersRequest ==
    ASSUME NEW w, NEW ds, Step(w, ds), NEW t \in Task, NEW v, NEW x,
           RequestRight(t, v), x = Closed <=> v = Closed
    PROVE  RequestRight(t, x)'
<1>1. /\ \A q \in Quote : quotes[q].currentRevision # NoRevision =>
                              quotes'[q].currentRevision # NoRevision
      /\ \A r \in Revision : Exists(r) => Exists(r)'
  BY DEF Step
<1>2. Accepts(t) => t.quote \in Quote
  BY DEF RequestRight, Accepts
<1> QED BY <1>1, <1>2 DEF RequestRight

LEMMA OthersSnapshot ==
    ASSUME NEW w, NEW ds, Step(w, ds), NEW v, NEW x, SnapshotRight(v),
           x = Closed <=> v = Closed,
           v # Closed => /\ x.stale = v.stale \cup ds /\ x.wrote = v.wrote
                         /\ x.sent = v.sent /\ x.quotes = v.quotes
                         /\ (v.wrote \cup v.sent) \cap ds = {}
    PROVE  SnapshotRight(x)'
BY DEF Step, SnapshotRight

LEMMA OthersTransaction ==
    ASSUME NEW w, NEW ds, Step(w, ds), NEW t \in Task, NEW v \in Transaction \cup {Closed}, NEW x,
           SendingRight(t, v), AcceptingRight(t, v),
           x = Closed <=> v = Closed,
           v # Closed => /\ x.wrote = v.wrote /\ x.sent = v.sent /\ x.quotes = v.quotes
                         /\ (v.wrote \cup v.sent) \cap ds = {}
    PROVE  SendingRight(t, x)' /\ AcceptingRight(t, x)'
<1>1. SendingRight(t, x)'
  BY DEF SendingRight
<1>2. AcceptingRight(t, x)'
  <2> SUFFICES ASSUME Accepts(t), v # Closed PROVE AcceptingRight(t, x)'
    BY DEF AcceptingRight
  <2>1. v.wrote \subseteq Quote
    BY DEF Transaction
  <2>2. \A q \in v.wrote : quotes'[q] = quotes[q]
    BY <2>1 DEF Step
  <2>3. rfq = "ACCEPTED" => rfq' = "ACCEPTED"
    BY DEF Step
  <2> QED BY <2>2, <2>3 DEF AcceptingRight
<1> QED BY <1>1, <1>2

LEMMA OthersContract ==
    ASSUME NEW t \in Task, NEW v, RequestRight(t, v), ContractRight(t), SentStay
    PROVE  ContractRight(t)'
<1> SUFFICES ASSUME Accepts(t), t.step \in {"begin"} \cup Open
             PROVE  IsSent(t.revision)' \/ t.promote
  BY DEF ContractRight
<1>1. t.revision \in Revision
  BY DEF RequestRight, Accepts
<1> QED BY <1>1 DEF ContractRight, SentStay

LEMMA OthersDecision ==
    ASSUME NEW w \in Worker, NEW ds, Step(w, ds), Decides(w), NEW u \in Worker, u # w,
           NEW t \in Task, t = task[u], NEW v \in Transaction \cup {Closed}, NEW x,
           RequestRight(t, v), DecisionRight(t, v),
           v # Closed => x.wrote = v.wrote
    PROVE  DecisionRight(t, x)'
<1> SUFFICES ASSUME Past(t), t.quote \in Newest, NEW q \in Newest, q # t.quote
             PROVE  /\ quotes'[q].status = "ACCEPTED" => Excluded(t.quote, q)'
                    /\ t.step = "others" => Settled(q, t, x)'
  BY DEF DecisionRight, Newest
<1>1. q \in OfRFQ /\ t.quote \in OfRFQ
  BY DEF Newest
<1>2. Excluded(t.quote, q) => Excluded(t.quote, q)'
  BY DEF Excluded, Step
<1>3. \/ quotes'[q].status = quotes[q].status
      \/ quotes'[q].status = "REJECTED"
      \/ Excluded(t.quote, q)'
  <2>1. q \in exempt' => Excluded(t.quote, q)'
    BY DEF Excluded
  <2>2. t.quote \in exempt' => Excluded(t.quote, q)'
    BY DEF Excluded
  <2> QED BY <1>1, <2>1, <2>2 DEF Decides
<1>4. quotes'[q].status = "ACCEPTED" => Excluded(t.quote, q)'
  BY <1>2, <1>3 DEF DecisionRight
<1>5. ASSUME t.step = "others" PROVE Settled(q, t, x)'
  <2>1. v # Closed
    BY <1>5 DEF RequestRight, Open
  <2>2. Settled(q, t, v)
    BY <1>5 DEF DecisionRight
  <2> QED BY <1>2, <1>3, <2>1, <2>2 DEF Settled
<1> QED BY <1>4, <1>5

LEMMA KeptStays ==
    ASSUME NEW w \in Worker, NEW ds, Step(w, ds), OrdersStep(w, task'[w]), NEW n, Kept(n)
    PROVE  Kept(n)' /\ orders'[n] = orders[n]
<1>1. n \in DOMAIN orders /\ (Filling(task[w]) => n # task[w].order)
  BY DEF Kept
<1>2. n \in DOMAIN orders' /\ orders'[n] = orders[n]
  BY <1>1 DEF OrdersStep
<1>3. ASSUME NEW u \in Worker, Filling(task'[u]) PROVE task'[u].order # n
  <2>1. CASE u # w
    BY <1>3, <2>1 DEF Step, Kept
  <2>2. CASE u = w
    BY <1>1, <1>3, <2>2 DEF OrdersStep
  <2> QED BY <2>1, <2>2
<1> QED BY <1>2, <1>3 DEF Kept, Filling

LEMMA DoneStays ==
    ASSUME NEW w \in Worker, NEW ds, Step(w, ds), OrdersStep(w, task'[w]),
           NEW n, NEW kind, NEW r, NEW t, Done(n, kind, r, t)
    PROVE  Done(n, kind, r, t)'
<1>1. Kept(n) /\ Filled(n, kind, r, t, Ordered(kind, t.lines))
  BY DEF Done
<1>2. Kept(n)' /\ orders'[n] = orders[n]
  BY <1>1, KeptStays
<1>3. n \in DOMAIN orders'
  BY <1>2 DEF Kept
<1> QED BY <1>1, <1>2, <1>3 DEF Done, Filled

LEMMA AsSentStays ==
    ASSUME SentStay, edited \subseteq edited', NEW t, NEW r \in Revision, AsSent(t, r)
    PROVE  AsSent(t, r)'
<1>1. ASSUME IsSent(r)
      PROVE  IsSent(r)' /\ (r \in edited' \/ Items(r)' = Items(r))
  <2>1. IsSent(r)' /\ \/ r \in edited'
                      \/ revisions'[r].lines = revisions[r].lines /\ canonical'[r] = canonical[r]
    BY <1>1 DEF SentStay
  <2> QED BY <2>1 DEF Items
<1> QED BY <1>1 DEF AsSent

LEMMA MadeStays ==
    ASSUME NEW w \in Worker, NEW ds, Step(w, ds), OrdersStep(w, task'[w]), SentStay,
           NEW t, Made(t)
    PROVE  Made(t)'
<1>1. PICK n \in Nat, r \in Revision :
        /\ Done(n, "SO", r, t)
        /\ AsSent(t, r)
        /\ t.quote \in WithBuyer => \E m \in Nat : m > n /\ Done(m, "PO", r, t)
  BY DEF Made
<1>2. Done(n, "SO", r, t)'
  BY <1>1, DoneStays
<1>3. AsSent(t, r)'
  BY <1>1, AsSentStays DEF Step
<1>4. ASSUME t.quote \in WithBuyer
      PROVE  \E m \in Nat : m > n /\ Done(m, "PO", r, t)'
  <2>1. PICK m \in Nat : m > n /\ Done(m, "PO", r, t)
    BY <1>1, <1>4
  <2>2. Done(m, "PO", r, t)'
    BY <2>1, DoneStays
  <2> QED BY <2>1, <2>2
<1> QED BY <1>2, <1>3, <1>4 DEF Made

\* For a worker that does nothing, and for one that fills no order.
LEMMA OrdersStay ==
    ASSUME NEW w \in Worker, NEW ds, Step(w, ds), OrdersStep(w, task'[w]), SentStay, FillersApart,
           NEW t \in Task, NEW v, RequestRight(t, v), OrdersRight(t),
           Filling(t) => \E u \in Worker : u # w /\ t = task[u]
    PROVE  OrdersRight(t)'
<1> SUFFICES ASSUME Accepts(t) PROVE OrdersRight(t)'
  BY DEF OrdersRight
<1>1. t.revision \in Revision
  BY DEF RequestRight, Accepts
<1>2. t.step = "items" /\ t.wasSent =>
              /\ IsSent(t.revision)'
              /\ t.revision \in edited' \/ t.lines = revisions'[t.revision].lines
  BY <1>1 DEF OrdersRight, SentStay, Step
<1>3. t.step \in Ordering => AsSent(t, t.revision)'
  BY <1>1, AsSentStays DEF OrdersRight, Step
<1>4. ASSUME NEW kind, Filling(t), Half(kind, t)
      PROVE  Half(kind, t)'
  <2>1. PICK u \in Worker : u # w /\ t = task[u]
    BY <1>4
  <2>2. ~(Filling(task[w]) /\ task[w].order = t.order) /\ t.order \in DOMAIN orders
    BY <1>4, <2>1 DEF FillersApart
  <2>3. t.order \in DOMAIN orders' /\ orders'[t.order] = orders[t.order]
    BY <2>2 DEF OrdersStep
  <2> QED BY <1>4, <2>3 DEF Half, Filled
<1>5. t.step = "fillSO" => Half("SO", t)'
  BY <1>4 DEF OrdersRight, Filling
<1>6. t.step = "PO" => \E n \in Nat : Done(n, "SO", t.revision, t)'
  BY DoneStays DEF OrdersRight
<1>7. ASSUME t.step = "fillPO"
      PROVE  Half("PO", t)' /\ \E n \in Nat : n < t.order /\ Done(n, "SO", t.revision, t)'
  <2>1. Half("PO", t)'
    BY <1>4, <1>7 DEF OrdersRight, Filling
  <2>2. PICK n \in Nat : n < t.order /\ Done(n, "SO", t.revision, t)
    BY <1>7 DEF OrdersRight
  <2>3. Done(n, "SO", t.revision, t)'
    BY <2>2, DoneStays
  <2> QED BY <2>1, <2>2, <2>3
<1>8. t.step \in {"again"} \cup Checked => Made(t)'
  BY MadeStays DEF OrdersRight
<1> QED BY <1>2, <1>3, <1>5, <1>6, <1>7, <1>8 DEF OrdersRight

LEMMA OthersRight ==
    ASSUME IInv, NEW w \in Worker, NEW ds \in SUBSET Doc, Step(w, ds), Beside(w, task'[w]),
           NEW u \in Worker, u # w
    PROVE  RightOf(u)'
<1>1. PICK t : t = task[u]
  OBVIOUS
<1>2. PICK v : v = tx[u]
  OBVIOUS
<1>3. PICK x : x = Later(v, ds)
  OBVIOUS
<1>4. task'[u] = t /\ tx'[u] = x
  BY <1>1, <1>2, <1>3 DEF Step
<1>5. v \in Transaction \cup {Closed} /\ t \in Task
  BY <1>1, <1>2, OpenTyped, TaskTyped DEF IInv
<1>6. /\ x = Closed <=> v = Closed
      /\ v # Closed => /\ x.stale = v.stale \cup ds /\ x.wrote = v.wrote
                       /\ x.sent = v.sent /\ x.quotes = v.quotes
  BY <1>3, <1>5, LaterIs
<1>7. v # Closed => (v.wrote \cup v.sent) \cap ds = {}
  BY <1>2 DEF Step, Wrote
<1>8. WorkerRight(t, v)
  BY <1>1, <1>2 DEF IInv, RightOf
<1>9. /\ RequestRight(t, v) /\ SnapshotRight(v) /\ SendingRight(t, v) /\ AcceptingRight(t, v)
      /\ ContractRight(t) /\ DecisionRight(t, v)
      /\ OrdersRight(t) /\ FillersApart
  BY <1>8 DEF WorkerRight, IInv
<1>10. SentStay /\ OrdersStep(w, task'[w]) /\ Decides(w)
  BY DEF Beside
<1>11. RequestRight(t, x)'
  BY <1>5, <1>6, <1>9, OthersRequest
<1>12. SnapshotRight(x)'
  BY <1>6, <1>7, <1>9, OthersSnapshot
<1>13. SendingRight(t, x)' /\ AcceptingRight(t, x)'
  BY <1>5, <1>6, <1>7, <1>9, OthersTransaction
<1>14. ContractRight(t)'
  BY <1>5, <1>9, <1>10, OthersContract
<1>15. DecisionRight(t, x)'
  BY <1>1, <1>5, <1>6, <1>9, <1>10, OthersDecision
<1>16. OrdersRight(t)'
  BY <1>1, <1>5, <1>9, <1>10, OrdersStay
<1>17. WorkerRight(t, x)'
  BY <1>11, <1>12, <1>13, <1>14, <1>15, <1>16 DEF WorkerRight
<1> QED BY <1>4, <1>17 DEF RightOf

Documents ==
    /\ quotes \in [Quote -> QuoteDoc]
    /\ revisions \in [Revision -> RevisionDoc]
    /\ canonical \in [Revision -> SUBSET Line]
    /\ \A r \in Revision : IdsUnique(canonical[r])
    /\ rfq \in {"SENT", "ACCEPTED"}
    /\ orders \in Seq(Order)
    /\ exempt \subseteq Quote /\ edited \subseteq Revision
    /\ calls \in 0 .. MaxCalls

\* What remains to be shown of a step of w: its documents and its own state.
LEMMA StepRight ==
    ASSUME IInv, NEW w \in Worker, NEW ds \in SUBSET Doc, Step(w, ds),
           NEW t \in Task, NEW v \in Transaction \cup {Closed}, Beside(w, t),
           task' = [task EXCEPT ![w] = t], DOMAIN tx' = Worker, tx'[w] = v,
           v # Closed => \A u \in Worker : u # w => Wrote(u) \cap (v.wrote \cup v.sent) = {},
           Documents', CurrentExists', OthersRejected', WorkerRight(t, v)'
    PROVE  IInv'
<1>1. task \in [Worker -> Task] /\ task' \in [Worker -> Task] /\ task'[w] = t
  BY DEF IInv, TypeOK
<1>2. \A u \in Worker : u # w => task'[u] = task[u] /\ tx'[u] = Later(tx[u], ds)
  BY DEF Step
<1>3. \A u \in Worker : tx[u] \in Transaction \cup {Closed}
  BY OpenTyped DEF IInv
<1>4. ASSUME NEW u \in Worker, u # w
      PROVE  /\ tx'[u] \in Transaction \cup {Closed}
             /\ tx'[u] = Closed <=> tx[u] = Closed
             /\ tx'[u] # Closed => tx'[u].wrote = tx[u].wrote /\ tx'[u].sent = tx[u].sent
  <2>1. PICK x : x = tx[u]
    OBVIOUS
  <2>2. x \in Transaction \cup {Closed} /\ tx'[u] = Later(x, ds)
    BY <2>1, <1>2, <1>3, <1>4
  <2>3. PICK y : y = Later(x, ds)
    OBVIOUS
  <2>4. /\ y \in Transaction \cup {Closed}
        /\ y = Closed <=> x = Closed
        /\ x # Closed => y.wrote = x.wrote /\ y.sent = x.sent
    BY <2>2, <2>3, LaterIs
  <2> QED BY <2>1, <2>2, <2>3, <2>4
<1>5. \A u \in Worker : u # w => Wrote(u)' = Wrote(u)
  BY <1>4 DEF Wrote
<1>6. Wrote(w)' = IF v = Closed THEN {} ELSE v.wrote \cup v.sent
  BY DEF Wrote
<1>7. WritersExclude'
  <2> SUFFICES ASSUME NEW x \in Worker, NEW u \in Worker, x # u
               PROVE  Wrote(x)' \cap Wrote(u)' = {}
    BY DEF WritersExclude
  <2>1. CASE x # w /\ u # w
    BY <2>1, <1>5 DEF IInv, WritersExclude
  <2>2. CASE x = w
    <3>1. Wrote(u)' = Wrote(u) /\ Wrote(w)' \cap Wrote(u) = {}
      BY <2>2, <1>5, <1>6
    <3> QED BY <3>1, <2>2
  <2>3. CASE u = w
    <3>1. Wrote(x)' = Wrote(x) /\ Wrote(w)' \cap Wrote(x) = {}
      BY <2>3, <1>5, <1>6
    <3> QED BY <3>1, <2>3
  <2> QED BY <2>1, <2>2, <2>3
<1>8. FillersApart'
  <2>1. ASSUME NEW u \in Worker, Filling(task'[u])
        PROVE  task'[u].order \in DOMAIN orders'
    <3>1. CASE u = w
      BY <1>1, <2>1, <3>1 DEF Beside, OrdersStep, IInv, FillersApart
    <3>2. CASE u # w
      BY <1>2, <2>1, <3>2 DEF Beside, OrdersStep, IInv, FillersApart
    <3> QED BY <3>1, <3>2
  <2>2. ASSUME NEW u \in Worker, u # w, Filling(task'[u]), Filling(t)
        PROVE  task'[u].order # t.order
    <3>1. task'[u] = task[u] /\ task[u].order \in DOMAIN orders
      BY <1>2, <2>2 DEF IInv, FillersApart
    <3> QED BY <2>2, <3>1 DEF Beside, OrdersStep, IInv, FillersApart
  <2>3. ASSUME NEW u \in Worker, NEW x \in Worker, u # w, x # w, x # u,
               Filling(task'[u]), Filling(task'[x])
        PROVE  task'[x].order # task'[u].order
    BY <1>2, <2>3 DEF IInv, FillersApart
  <2> QED BY <1>1, <2>1, <2>2, <2>3 DEF FillersApart, Filling
<1>9. RightOf(w)'
  BY <1>1 DEF RightOf
<1>10. \A u \in Worker : RightOf(u)'
  BY <1>1, <1>9, OthersRight
<1>11. ASSUME NEW u \in Worker, tx'[u] # Closed
       PROVE  tx'[u] \in Transaction /\ task'[u].op \in {"send", "accept", "approve"}
  <2>1. CASE u = w
    <3>1. RequestRight(t, v)' /\ v \in Transaction /\ v # Closed
      BY <2>1, <1>11 DEF WorkerRight
    <3>2. t.step \in Open
      BY <3>1 DEF RequestRight
    <3>3. t.op \in {"send", "accept", "approve"}
      <4>1. t.op \in {"idle", "draft", "update", "send", "accept", "approve", "reject"}
        BY DEF Task
      <4>2. Idle.step = "idle"
        BY DEF Idle
      <4>3. /\ t.op = "idle" => t = Idle
            /\ t.op \in {"draft", "update"} => t.step \in {"write", "copy", "list", "sync"}
            /\ t.op = "reject" => t.step = "reject"
        BY <3>1 DEF RequestRight
      <4> QED BY <3>2, <4>1, <4>2, <4>3 DEF Open
    <3> QED BY <1>1, <2>1, <3>1, <3>3
  <2>2. CASE u # w
    BY <2>2, <1>2, <1>4, <1>11 DEF IInv, TypeOK
  <2> QED BY <2>1, <2>2
<1>12. TypeOK'
  BY <1>1, <1>11 DEF TypeOK, Documents
<1> QED BY <1>7, <1>8, <1>10, <1>12 DEF IInv

\* A step that writes nothing to the database.
Quiet(w, t, v) ==
    /\ task' = [task EXCEPT ![w] = t]
    /\ DOMAIN tx' = Worker /\ tx'[w] = v
    /\ \A u \in Worker \ {w} : tx'[u] = tx[u]
    /\ UNCHANGED db

LEMMA QuietRight ==
    ASSUME IInv, NEW w \in Worker, NEW t \in Task, NEW v \in Transaction \cup {Closed},
           Quiet(w, t, v), calls' \in 0 .. MaxCalls, ~Filling(t),
           v # Closed => \A u \in Worker : u # w => Wrote(u) \cap (v.wrote \cup v.sent) = {},
           WorkerRight(t, v)
    PROVE  IInv'
<1>1. UNCHANGED <<quotes, revisions, canonical, rfq, orders, exempt, edited>>
  BY DEF Quiet, db
<1>2. Documents' /\ CurrentExists' /\ OthersRejected'
  <2>1. Documents'
    BY <1>1 DEF IInv, TypeOK, Documents
  <2>2. CurrentExists'
    BY <1>1 DEF IInv, CurrentExists, Exists
  <2>3. OthersRejected'
    BY <1>1 DEF IInv, OthersRejected, Excluded
  <2> QED BY <2>1, <2>2, <2>3
<1>3. {} \in SUBSET Doc
  OBVIOUS
<1>4. Step(w, {})
  <2>1. ASSUME NEW u \in Worker \ {w}
        PROVE  task'[u] = task[u] /\ tx'[u] = Later(tx[u], {})
    BY OpenTyped, LaterIs, <1>3 DEF Quiet, IInv, TypeOK
  <2> QED BY <2>1, <1>1 DEF Step, Exists
<1>5. SentStay /\ OrdersStep(w, t) /\ Decides(w)
  BY <1>1 DEF SentStay, OrdersStep, Decides, IsSent
<1>6. task' = [task EXCEPT ![w] = t] /\ task'[w] = t /\ DOMAIN tx' = Worker /\ tx'[w] = v
  BY DEF Quiet, IInv, TypeOK
<1>7. WorkerRight(t, v)'
  <2>1. RequestRight(t, v)' /\ SnapshotRight(v)' /\ SendingRight(t, v)' /\ AcceptingRight(t, v)'
    BY <1>1 DEF WorkerRight, RequestRight, SnapshotRight, SendingRight, AcceptingRight, Exists
  <2>2. ContractRight(t)' /\ DecisionRight(t, v)'
    BY <1>1 DEF WorkerRight, ContractRight, DecisionRight, IsSent, Settled, Excluded
  <2>3. RequestRight(t, v) /\ OrdersRight(t) /\ FillersApart
    BY DEF WorkerRight, IInv
  <2>4. OrdersRight(t)'
    BY <1>4, <1>5, <1>6, <2>3, OrdersStay
  <2> QED BY <2>1, <2>2, <2>4 DEF WorkerRight
<1>8. Beside(w, t)
  BY <1>5 DEF Beside
<1> HIDE DEF Quiet
<1> QED BY <1>2, <1>3, <1>4, <1>6, <1>7, <1>8, StepRight
-------------------------------------------------------------------------------
(***************************************************************************)
(* Requests begin, are tried again and end.                                *)
(***************************************************************************)
\* What a request has to be before a transaction and without a decision.
LEMMA OutsideRight ==
    ASSUME NEW t, ~Past(t), RequestRight(t, Closed), OrdersRight(t)
    PROVE  WorkerRight(t, Closed)
BY DEF WorkerRight, SnapshotRight, SendingRight, AcceptingRight, ContractRight, DecisionRight,
       Past, Checked

LEMMA PlainRight ==
    ASSUME NEW t, ~Accepts(t), RequestRight(t, Closed)
    PROVE  WorkerRight(t, Closed)
BY OutsideRight DEF OrdersRight, Past

LEMMA PlainRightNext ==
    ASSUME NEW t, ~Accepts(t), RequestRight(t, Closed)'
    PROVE  WorkerRight(t, Closed)'
BY DEF WorkerRight, SnapshotRight, SendingRight, AcceptingRight, ContractRight, DecisionRight,
       OrdersRight, Past

LEMMA IdleIs == Idle \in Task /\ Idle.op = "idle" /\ Idle.step = "idle" /\ ~Filling(Idle)
BY DEF Idle, Task, Filling

LEMMA IdleRight == WorkerRight(Idle, Closed)
<1>1. RequestRight(Idle, Closed) /\ ~Accepts(Idle)
  BY IdleIs DEF RequestRight, Accepts, Open
<1> QED BY <1>1, PlainRight

LEMMA IdleRightNext == WorkerRight(Idle, Closed)'
<1>1. RequestRight(Idle, Closed)' /\ ~Accepts(Idle)
  BY IdleIs DEF RequestRight, Accepts, Open
<1> QED BY <1>1, PlainRightNext

LEMMA IdleClosed ==
    ASSUME IInv, NEW w \in Worker, task[w] = Idle
    PROVE  tx[w] = Closed /\ task = [task EXCEPT ![w] = Idle]
<1>1. task \in [Worker -> Task] /\ RequestRight(task[w], tx[w])
  BY DEF IInv, TypeOK, RightOf, WorkerRight
<1> QED BY <1>1, IdleIs DEF RequestRight, Open

LEMMA CallsSame ==
    ASSUME IInv, UNCHANGED calls
    PROVE  calls' \in 0 .. MaxCalls
BY DEF IInv, TypeOK

\* One more call is counted.
LEMMA CallsCounted ==
    ASSUME IInv, calls < MaxCalls, calls' = calls + 1
    PROVE  calls' \in 0 .. MaxCalls
<1>1. PICK n \in 0 .. MaxCalls : n = calls
  BY DEF IInv, TypeOK
<1>2. n + 1 \in 0 .. MaxCalls
  BY <1>1, BoundsAssumption
<1> QED BY <1>1, <1>2

LEMMA OthersWrote ==
    ASSUME IInv, NEW w \in Worker
    PROVE  tx[w] # Closed => \A u \in Worker : u # w =>
              Wrote(u) \cap (tx[w].wrote \cup tx[w].sent) = {}
BY DEF IInv, WritersExclude, Wrote

\* A step in which the request of w goes on to t.
LEMMA LocalRight ==
    ASSUME IInv, NEW w \in Worker, NEW t \in Task, Become(w, t), Local, ~Filling(t),
           WorkerRight(t, tx[w])
    PROVE  IInv'
<1>1. PICK v : v = tx[w]
  OBVIOUS
<1>2. Quiet(w, t, v) /\ WorkerRight(t, v)
  BY <1>1 DEF IInv, Become, Local, Quiet
<1>3. v \in Transaction \cup {Closed}
  BY <1>1, OpenTyped DEF IInv
<1>4. v # Closed => \A u \in Worker : u # w => Wrote(u) \cap (v.wrote \cup v.sent) = {}
  BY <1>1, OthersWrote
<1>5. calls' \in 0 .. MaxCalls
  BY CallsSame DEF Become
<1> HIDE DEF Quiet
<1> QED BY <1>2, <1>3, <1>4, <1>5, QuietRight

\* A step in which w writes v in its transaction, or opens or closes it.
LEMMA WriteRight ==
    ASSUME IInv, NEW w \in Worker, NEW t \in Task, NEW v \in Transaction \cup {Closed},
           Become(w, t), tx' = [tx EXCEPT ![w] = v], UNCHANGED db, ~Filling(t),
           WorkerRight(t, v),
           v # Closed => \A u \in Worker : u # w => Wrote(u) \cap (v.wrote \cup v.sent) = {}
    PROVE  IInv'
<1>1. Quiet(w, t, v)
  BY DEF IInv, Become, Quiet
<1>2. calls' \in 0 .. MaxCalls
  BY CallsSame DEF Become
<1> HIDE DEF Quiet
<1> QED BY <1>1, <1>2, QuietRight

LEMMA ThrowRight ==
    ASSUME IInv, NEW w \in Worker, Throw(w)
    PROVE  IInv'
<1>1. Become(w, Idle) /\ tx' = [tx EXCEPT ![w] = Closed] /\ UNCHANGED db
  BY DEF Throw
<1>2. Closed \in Transaction \cup {Closed}
  OBVIOUS
<1> QED BY <1>1, <1>2, IdleIs, IdleRight, WriteRight

LEMMA RequestStep ==
    ASSUME IInv, NEW w \in Worker, NEW t \in Task, Request(w, t), Local, ~Filling(t),
           WorkerRight(t, Closed)
    PROVE  IInv'
<1>1. tx[w] = Closed /\ task' = [task EXCEPT ![w] = t] /\ calls' \in 0 .. MaxCalls
  BY IdleClosed, CallsCounted DEF Request
<1>2. Quiet(w, t, Closed)
  BY <1>1 DEF Local, Quiet, IInv
<1>3. Closed \in Transaction \cup {Closed}
  OBVIOUS
<1> HIDE DEF Quiet
<1> QED BY <1>1, <1>2, <1>3, QuietRight

\* t is the request that o was, at another step.
SameRequest(o, t) ==
    /\ t.op = o.op /\ t.quote = o.quote /\ t.revision = o.revision /\ t.status = o.status
    /\ t.current = o.current /\ t.wasSent = o.wasSent /\ t.lines = o.lines
    /\ t.promote = o.promote

\* The orders of an acceptance are those of the same quote and lines.
LEMMA MadeSame ==
    ASSUME NEW o, NEW t, t.quote = o.quote, t.wasSent = o.wasSent, t.lines = o.lines, Made(o)
    PROVE  Made(t)
BY DEF Made, Done, Filled, AsSent

LEMMA CheckedOn ==
    ASSUME NEW o, NEW t, SameRequest(o, t), Accepts(o) => o.step \in {"begin"} \cup Open,
           t.step \in {"begin"} \cup Open,
           ContractRight(o), OrdersRight(o)
    PROVE  ContractRight(t) /\ OrdersRight(t)
<1>1. ContractRight(t)
  BY DEF SameRequest, ContractRight, Accepts
<1>2. OrdersRight(t)
  <2> SUFFICES ASSUME Accepts(t) PROVE Made(t)
    BY DEF OrdersRight, Ordering, Checked, Open
  <2>1. Made(o)
    BY DEF SameRequest, OrdersRight, Accepts, Checked
  <2> QED BY <2>1, MadeSame DEF SameRequest
<1> QED BY <1>1, <1>2

LEMMA OneMore == \A n \in Nat : n + 1 \in Nat
OBVIOUS

LEMMA RetryRight ==
    ASSUME IInv, NEW w \in Worker, tx[w] # Closed, Retry(w)
    PROVE  IInv'
<1>1. CASE Throw(w)
  BY <1>1, ThrowRight
<1>2. CASE ~Throw(w)
  <2>1. PICK o : o = task[w]
    OBVIOUS
  <2>2. PICK v : v = tx[w]
    OBVIOUS
  <2>3. o \in Task /\ WorkerRight(o, v) /\ v # Closed
    BY <2>1, <2>2, TaskTyped DEF IInv, RightOf
  <2>4. o.step \in Open /\ o.op \in {"send", "accept", "approve"}
    <3>1. o.op \in {"send", "accept", "approve"}
      BY <2>1, <2>2, <2>3 DEF IInv, TypeOK
    <3> QED BY <2>3, <3>1 DEF WorkerRight, RequestRight
  <2>5. PICK t : t = [o EXCEPT !.tries = @ + 1, !.step = "begin", !.others = {}]
    OBVIOUS
  <2>6. t \in Task /\ t.step = "begin" /\ SameRequest(o, t)
    <3>1. o.tries \in Nat
      BY <2>3 DEF Task
    <3>2. PICK n \in Nat : n = o.tries + 1
      BY <3>1, OneMore
    <3>3. t = [o EXCEPT !.tries = n, !.step = "begin", !.others = {}]
      BY <2>3, <2>5, <3>2 DEF Task
    <3> QED BY <2>3, <3>3 DEF Task, SameRequest
  <2>7. RequestRight(t, Closed)
    BY <2>3, <2>4, <2>6 DEF WorkerRight, RequestRight, Accepts, Open, Checked, SameRequest
  <2>8. ContractRight(t) /\ OrdersRight(t)
    BY <2>3, <2>4, <2>6, CheckedOn DEF WorkerRight
  <2>9. DecisionRight(t, Closed)
    BY <2>3, <2>4, <2>6 DEF WorkerRight, DecisionRight, Past, Accepts, Checked, SameRequest
  <2>10. WorkerRight(t, Closed)
    BY <2>6, <2>7, <2>8, <2>9 DEF WorkerRight, SnapshotRight, SendingRight, AcceptingRight
  <2>11. Become(w, t) /\ tx' = [tx EXCEPT ![w] = Closed] /\ UNCHANGED db
    BY <1>2, <2>1, <2>5 DEF Retry
  <2>12. Closed \in Transaction \cup {Closed} /\ ~Filling(t)
    BY <2>6 DEF Filling
  <2> QED BY <2>6, <2>10, <2>11, <2>12, WriteRight
<1> QED BY <1>1, <1>2

\* The step that a request is at tells what it is.
LEMMA StepTells ==
    ASSUME NEW t \in Task, NEW v, RequestRight(t, v)
    PROVE  /\ t.step \in {"write", "copy", "list", "sync"} => t.op \in {"draft", "update"}
           /\ t.step \in {"again", "check", "rfq", "active", "others"} \cup Ordering => Accepts(t)
           /\ t.step \in {"read", "items", "begin", "promote", "quote", "commit"} =>
                 t.op = "send" \/ Accepts(t)
           /\ t.step = "reject" => t.op = "reject"
           /\ t.step # "idle" => t.quote \in Quote
           /\ t.step \notin {"idle", "reject"} => t.revision \in Revision /\ Exists(t.revision)
           /\ v # Closed <=> t.step \in Open
<1>1. t.op \in {"idle", "draft", "update", "send", "accept", "approve", "reject"}
  BY DEF Task
<1>2. /\ t.op = "idle" => t.step = "idle"
      /\ t.op \in {"draft", "update"} => t.step \in {"write", "copy", "list", "sync"}
      /\ t.op = "send" => t.step \in {"read", "items", "begin", "promote", "quote", "commit"}
      /\ t.op \in {"accept", "approve"} =>
            /\ Accepts(t)
            /\ t.step \in {"read", "items", "again"} \cup Ordering \cup Checked
      /\ t.op = "reject" => t.step = "reject"
      /\ t.op # "idle" => t.quote \in Quote
      /\ t.op \notin {"idle", "reject"} => t.revision \in Revision /\ Exists(t.revision)
      /\ v # Closed <=> t.step \in Open
  BY IdleIs DEF RequestRight, Accepts
<1>3. t.step \in {"write", "copy", "list", "sync"} => t.op \in {"draft", "update"}
  BY <1>1, <1>2 DEF Ordering, Checked, Open
<1>4. t.step \in {"again", "check", "rfq", "active", "others"} \cup Ordering => Accepts(t)
  BY <1>1, <1>2 DEF Ordering
<1>5. t.step \in {"read", "items", "begin", "promote", "quote", "commit"} =>
         t.op = "send" \/ Accepts(t)
  BY <1>1, <1>2
<1>6. t.step = "reject" => t.op = "reject"
  BY <1>1, <1>2 DEF Ordering, Checked, Open
<1>7. t.step # "idle" => t.op # "idle"
  BY <1>2
<1>8. t.step \notin {"idle", "reject"} => t.op \notin {"idle", "reject"}
  BY <1>2
<1> QED BY <1>2, <1>3, <1>4, <1>5, <1>6, <1>7, <1>8

\* What is known of a worker's request and transaction.
LEMMA Known ==
    ASSUME IInv, NEW w \in Worker, NEW o, o = task[w], NEW v, v = tx[w]
    PROVE  o \in Task /\ v \in Transaction \cup {Closed} /\ WorkerRight(o, v)
           /\ RequestRight(o, v)
BY OpenTyped, TaskTyped DEF IInv, RightOf, WorkerRight

(***************************************************************************)
(* Requests that begin.                                                    *)
(***************************************************************************)
LEMMA UpdateQuoteRevisionRight ==
    ASSUME IInv, NEW w \in Worker, UpdateQuoteRevision(w)
    PROVE  IInv'
<1>1. PICK r \in Revision, lines \in LineSets :
        /\ revisions[r].status = "DRAFT" /\ Local
        /\ Request(w, [Call("update", "write", QuoteOf[r], r) EXCEPT !.lines = lines])
  BY DEF UpdateQuoteRevision
<1>2. PICK c : c = Call("update", "write", QuoteOf[r], r)
  OBVIOUS
<1>3. PICK t : t = [c EXCEPT !.lines = lines]
  OBVIOUS
<1>4. QuoteOf[r] \in Quote /\ lines \in SUBSET Line
  BY QuoteAssumption, LineAssumption
<1>5. c \in Task /\ c.op = "update" /\ c.step = "write" /\ c.quote = QuoteOf[r] /\ c.revision = r
  BY <1>2, <1>4 DEF Call, Idle, Task
<1>6. /\ t \in Task /\ t.op = "update" /\ t.step = "write" /\ t.quote = QuoteOf[r]
      /\ t.revision = r
  BY <1>3, <1>4, <1>5 DEF Task
<1>7. RequestRight(t, Closed) /\ ~Accepts(t) /\ ~Filling(t)
  BY <1>1, <1>4, <1>6 DEF RequestRight, Accepts, Exists, Open, Filling
<1>8. Request(w, t) /\ Local
  BY <1>1, <1>2, <1>3
<1> QED BY <1>6, <1>7, <1>8, PlainRight, RequestStep

LEMMA SendQuoteRight ==
    ASSUME IInv, NEW w \in Worker, SendQuote(w)
    PROVE  IInv'
<1>1. PICK r \in Revision :
        /\ Exists(r) /\ Local
        /\ Request(w, [Call("send", "read", QuoteOf[r], r) EXCEPT
              !.status = quotes[QuoteOf[r]].status,
              !.current = quotes[QuoteOf[r]].currentRevision # NoRevision])
  BY DEF SendQuote
<1>2. PICK c : c = Call("send", "read", QuoteOf[r], r)
  OBVIOUS
<1>3. PICK s, cur : s = quotes[QuoteOf[r]].status
                      /\ cur = (quotes[QuoteOf[r]].currentRevision # NoRevision)
  OBVIOUS
<1>4. PICK t : t = [c EXCEPT !.status = s, !.current = cur]
  OBVIOUS
<1>5. QuoteOf[r] \in Quote /\ s \in {"ACTIVE", "ACCEPTED", "REJECTED"} /\ cur \in BOOLEAN
  BY <1>3, QuoteAssumption DEF IInv, TypeOK, QuoteDoc
<1>6. c \in Task /\ c.op = "send" /\ c.step = "read" /\ c.quote = QuoteOf[r] /\ c.revision = r
  BY <1>2, <1>5 DEF Call, Idle, Task
<1>7. /\ t \in Task /\ t.op = "send" /\ t.step = "read" /\ t.quote = QuoteOf[r]
      /\ t.revision = r
  BY <1>4, <1>5, <1>6 DEF Task
<1>8. RequestRight(t, Closed) /\ ~Accepts(t) /\ ~Filling(t)
  BY <1>1, <1>5, <1>7 DEF RequestRight, Accepts, Open, Filling
<1>9. Request(w, t) /\ Local
  BY <1>1, <1>2, <1>3, <1>4
<1> QED BY <1>7, <1>8, <1>9, PlainRight, RequestStep

LEMMA AcceptQuoteRight ==
    ASSUME IInv, NEW w \in Worker, AcceptQuote(w)
    PROVE  IInv'
<1>1. PICK q \in Quote, op \in {"accept", "approve"} :
        /\ quotes[q].currentRevision # NoRevision /\ Local
        /\ Request(w, Call(op, "read", q, quotes[q].currentRevision))
  BY DEF AcceptQuote
<1>2. PICK t : t = Call(op, "read", q, quotes[q].currentRevision)
  OBVIOUS
<1>3. quotes[q].currentRevision \in Revision /\ Exists(quotes[q].currentRevision)
  BY <1>1 DEF IInv, TypeOK, QuoteDoc, CurrentExists
<1>4. /\ t \in Task /\ t.op = op /\ t.step = "read" /\ t.quote = q
      /\ t.revision = quotes[q].currentRevision
  BY <1>2, <1>3 DEF Call, Idle, Task
<1>5. RequestRight(t, Closed) /\ ~Filling(t)
  BY <1>1, <1>3, <1>4 DEF RequestRight, Accepts, Open, Filling
<1>6. ~Past(t) /\ OrdersRight(t)
  BY <1>4 DEF Past, OrdersRight, Ordering, Checked, Open
<1>7. Request(w, t) /\ Local
  BY <1>1, <1>2
<1> QED BY <1>4, <1>5, <1>6, <1>7, OutsideRight, RequestStep

LEMMA RejectQuoteRight ==
    ASSUME IInv, NEW w \in Worker, RejectQuote(w)
    PROVE  IInv'
<1>1. PICK q \in Quote : Local /\ Request(w, Call("reject", "reject", q, NoRevision))
  BY DEF RejectQuote
<1>2. PICK t : t = Call("reject", "reject", q, NoRevision)
  OBVIOUS
<1>3. t \in Task /\ t.op = "reject" /\ t.step = "reject" /\ t.quote = q
  BY <1>2 DEF Call, Idle, Task
<1>4. RequestRight(t, Closed) /\ ~Accepts(t) /\ ~Filling(t)
  BY <1>3 DEF RequestRight, Accepts, Open, Filling
<1>5. Request(w, t) /\ Local
  BY <1>1, <1>2
<1> QED BY <1>3, <1>4, <1>5, PlainRight, RequestStep
-------------------------------------------------------------------------------
(***************************************************************************)
(* Steps that write nothing to the database.                               *)
(***************************************************************************)
\* A step of a draft or an update.
LEMMA DraftsOn ==
    ASSUME NEW o \in Task, NEW v, RequestRight(o, v), o.op \in {"draft", "update"},
           NEW t, t.op = o.op, t.quote = o.quote, t.revision = o.revision,
           t.step \in {"write", "copy", "list", "sync"}
    PROVE  v = Closed /\ WorkerRight(t, Closed) /\ ~Filling(t)
<1>1. v = Closed
  BY DEF RequestRight, Open
<1>2. RequestRight(t, Closed) /\ ~Accepts(t) /\ ~Filling(t)
  BY DEF RequestRight, Accepts, Open, Filling
<1> QED BY <1>1, <1>2, PlainRight

LEMMA CopyRevisionRight ==
    ASSUME IInv, NEW w \in Worker, CopyRevision(w)
    PROVE  IInv'
<1>1. PICK o : o = task[w]
  OBVIOUS
<1>2. PICK v : v = tx[w]
  OBVIOUS
<1>3. o \in Task /\ RequestRight(o, v) /\ o.step = "copy"
  BY <1>1, <1>2, Known DEF CopyRevision, At
<1>4. o.op \in {"draft", "update"} /\ o.revision \in Revision
  BY <1>3, StepTells
<1>5. PICK lines \in SUBSET Line : lines = revisions[o.revision].lines
  BY <1>4 DEF IInv, TypeOK, RevisionDoc
<1>6. PICK t : t = [o EXCEPT !.step = "list", !.lines = lines]
  OBVIOUS
<1>7. t \in Task /\ t.op = o.op /\ t.step = "list" /\ t.quote = o.quote /\ t.revision = o.revision
  BY <1>3, <1>5, <1>6 DEF Task
<1>8. WorkerRight(t, tx[w]) /\ ~Filling(t)
  BY <1>2, <1>3, <1>4, <1>7, DraftsOn
<1>9. Become(w, t) /\ Local
  BY <1>1, <1>5, <1>6 DEF CopyRevision
<1> QED BY <1>7, <1>8, <1>9, LocalRight

LEMMA ListCanonicalRight ==
    ASSUME IInv, NEW w \in Worker, ListCanonical(w)
    PROVE  IInv'
<1>1. PICK o : o = task[w]
  OBVIOUS
<1>2. PICK v : v = tx[w]
  OBVIOUS
<1>3. o \in Task /\ RequestRight(o, v) /\ o.step = "list"
  BY <1>1, <1>2, Known DEF ListCanonical, At
<1>4. o.op \in {"draft", "update"} /\ o.revision \in Revision
  BY <1>3, StepTells
<1>5. PICK items \in SUBSET Line : items = canonical[o.revision]
  BY <1>4 DEF IInv, TypeOK
<1>6. PICK t : t = [o EXCEPT !.step = "sync", !.pending = o.lines, !.existing = items]
  OBVIOUS
<1>7. t \in Task /\ t.op = o.op /\ t.step = "sync" /\ t.quote = o.quote /\ t.revision = o.revision
  BY <1>3, <1>5, <1>6 DEF Task
<1>8. WorkerRight(t, tx[w]) /\ ~Filling(t)
  BY <1>2, <1>3, <1>4, <1>7, DraftsOn
<1>9. Become(w, t) /\ Local
  BY <1>1, <1>5, <1>6 DEF ListCanonical
<1> QED BY <1>7, <1>8, <1>9, LocalRight

LEMMA SyncedRight ==
    ASSUME IInv, NEW w \in Worker, Synced(w)
    PROVE  IInv'
<1>1. RequestRight(task[w], tx[w]) /\ task[w] \in Task /\ task[w].step = "sync"
  BY Known DEF Synced, At
<1>2. tx[w] = Closed
  BY <1>1, StepTells DEF Open
<1>3. Become(w, Idle) /\ Local
  BY DEF Synced
<1> QED BY <1>2, <1>3, IdleIs, IdleRight, LocalRight

LEMMA ReadRevisionRight ==
    ASSUME IInv, NEW w \in Worker, ReadRevision(w)
    PROVE  IInv'
<1>1. PICK o : o = task[w]
  OBVIOUS
<1>2. PICK v : v = tx[w]
  OBVIOUS
<1>3. o \in Task /\ RequestRight(o, v) /\ o.step = "read"
  BY <1>1, <1>2, Known DEF ReadRevision, At
<1>4. (o.op = "send" \/ Accepts(o)) /\ v = Closed /\ o.revision \in Revision
  BY <1>3, StepTells DEF Open
<1>5. PICK lines, was : lines = revisions[o.revision].lines
                        /\ was = (revisions[o.revision].status = "SENT")
  OBVIOUS
<1>6. lines \in SUBSET Line /\ was \in BOOLEAN
  BY <1>4, <1>5 DEF IInv, TypeOK, RevisionDoc
<1>7. PICK t : t = [o EXCEPT !.step = "items", !.lines = lines, !.wasSent = was]
  OBVIOUS
<1>8. /\ t \in Task /\ t.op = o.op /\ t.step = "items" /\ t.quote = o.quote
      /\ t.revision = o.revision /\ t.lines = lines /\ t.wasSent = was
  BY <1>3, <1>6, <1>7 DEF Task
<1>9. RequestRight(t, Closed)
  BY <1>3, <1>4, <1>8 DEF RequestRight, Accepts, Checked, Open
<1>10. OrdersRight(t) /\ ~Past(t) /\ ~Filling(t)
  BY <1>5, <1>8 DEF OrdersRight, IsSent, Ordering, Past, Checked, Open, Filling
<1>11. WorkerRight(t, tx[w])
  BY <1>2, <1>4, <1>9, <1>10, OutsideRight
<1>12. Become(w, t) /\ Local
  BY <1>1, <1>5, <1>7 DEF ReadRevision
<1> QED BY <1>8, <1>10, <1>11, <1>12, LocalRight

LEMMA CheckPricesRight ==
    ASSUME IInv, NEW w \in Worker, CheckPrices(w)
    PROVE  IInv'
<1>1. CASE Throw(w)
  BY <1>1, ThrowRight
<1>2. CASE ~Throw(w)
  <2>1. PICK o : o = task[w]
    OBVIOUS
  <2>2. PICK v : v = tx[w]
    OBVIOUS
  <2>3. o \in Task /\ RequestRight(o, v) /\ o.step = "items" /\ o.op = "send"
    BY <2>1, <2>2, Known DEF CheckPrices, At
  <2>4. v = Closed
    BY <2>3, StepTells DEF Open
  <2>5. PICK t : t = [o EXCEPT !.step = "begin"]
    OBVIOUS
  <2>6. /\ t \in Task /\ t.op = "send" /\ t.step = "begin" /\ t.quote = o.quote
        /\ t.revision = o.revision
    BY <2>3, <2>5 DEF Task
  <2>7. Become(w, t) /\ Local
    BY <1>2, <2>1, <2>5 DEF CheckPrices, Goto
  <2>8. RequestRight(t, Closed) /\ ~Accepts(t) /\ ~Filling(t)
    BY <2>3, <2>6 DEF RequestRight, Accepts, Open, Filling
  <2>9. WorkerRight(t, tx[w])
    BY <2>2, <2>4, <2>8, PlainRight
  <2> QED BY <2>6, <2>7, <2>8, <2>9, LocalRight
<1> QED BY <1>1, <1>2

LEMMA ReadLineItemsRight ==
    ASSUME IInv, NEW w \in Worker, ReadLineItems(w)
    PROVE  IInv'
<1>1. PICK o : o = task[w]
  OBVIOUS
<1>2. PICK v : v = tx[w]
  OBVIOUS
<1>3. o \in Task /\ RequestRight(o, v) /\ o.step = "items" /\ Accepts(o) /\ OrdersRight(o)
  BY <1>1, <1>2, Known DEF ReadLineItems, At, WorkerRight, Accepting, Accepts
<1>4. v = Closed /\ o.revision \in Revision
  BY <1>3, StepTells DEF Open
<1>5. PICK lines : lines = LinesRead(w)
  OBVIOUS
<1>6. /\ lines = IF canonical[o.revision] # {} THEN canonical[o.revision] ELSE o.lines
      /\ lines \in SUBSET Line
  BY <1>1, <1>3, <1>4, <1>5 DEF LinesRead, IInv, TypeOK, Task
<1>7. PICK t : t = [o EXCEPT !.step = "SO", !.lines = lines]
  OBVIOUS
<1>8. /\ t \in Task /\ t.op = o.op /\ t.step = "SO" /\ t.quote = o.quote
      /\ t.revision = o.revision /\ t.lines = lines /\ t.wasSent = o.wasSent
  BY <1>3, <1>6, <1>7 DEF Task
<1>9. RequestRight(t, Closed)
  BY <1>3, <1>4, <1>8 DEF RequestRight, Accepts, Checked, Open, Ordering
<1>10. OrdersRight(t)
  <2>1. AsSent(t, o.revision)
    <3> SUFFICES ASSUME o.wasSent
                 PROVE  IsSent(o.revision) /\ (o.revision \in edited \/ lines = Items(o.revision))
      BY <1>8 DEF AsSent
    <3>1. IsSent(o.revision) /\ (o.revision \in edited \/ o.lines = revisions[o.revision].lines)
      BY <1>3, <1>4 DEF OrdersRight
    <3> QED BY <3>1, <1>6 DEF Items
  <2> QED BY <1>8, <2>1 DEF OrdersRight, Checked, Open, Ordering
<1>11. ~Past(t) /\ ~Filling(t)
  BY <1>8 DEF Past, Checked, Open, Filling
<1>12. WorkerRight(t, tx[w])
  BY <1>2, <1>4, <1>9, <1>10, <1>11, OutsideRight
<1>13. Become(w, t) /\ Local
  BY <1>1, <1>5, <1>7 DEF ReadLineItems
<1> QED BY <1>8, <1>11, <1>12, <1>13, LocalRight

LEMMA NewestTyped == Newest \subseteq OfRFQ /\ Newest \subseteq Quote
BY QuoteAssumption DEF Newest

\* The quote is seen ACTIVE: no other of the newest is accepted.
LEMMA ReadQuoteAgainRight ==
    ASSUME IInv, NEW w \in Worker, ReadQuoteAgain(w)
    PROVE  IInv'
<1>1. CASE Throw(w)
  BY <1>1, ThrowRight
<1>2. CASE ~Throw(w)
  <2>1. PICK o : o = task[w]
    OBVIOUS
  <2>2. PICK v : v = tx[w]
    OBVIOUS
  <2>3. o \in Task /\ RequestRight(o, v) /\ o.step = "again" /\ OrdersRight(o)
    BY <2>1, <2>2, Known DEF ReadQuoteAgain, At, WorkerRight
  <2>4. Accepts(o) /\ v = Closed /\ o.quote \in Quote
    BY <2>3, StepTells DEF Open
  <2>5. PICK r : r = quotes[o.quote].currentRevision
    OBVIOUS
  <2>6. r \in Revision /\ Exists(r) /\ r # NoRevision
    BY <2>3, <2>4, <2>5 DEF RequestRight, IInv, TypeOK, QuoteDoc, CurrentExists
  <2>7. PICK t : t = [o EXCEPT !.step = "check", !.revision = r]
    OBVIOUS
  <2>8. /\ t \in Task /\ t.op = o.op /\ t.step = "check" /\ t.quote = o.quote
        /\ t.revision = r /\ t.lines = o.lines /\ t.wasSent = o.wasSent
    BY <2>3, <2>6, <2>7 DEF Task
  <2>9. quotes[o.quote].status = "ACTIVE" /\ Become(w, t) /\ Local
    BY <1>2, <2>1, <2>5, <2>7 DEF ReadQuoteAgain
  <2>10. RequestRight(t, Closed) /\ ~Filling(t)
    BY <2>3, <2>4, <2>5, <2>6, <2>8 DEF RequestRight, Accepts, Checked, Open, Ordering, Filling
  <2>11. ContractRight(t)
    BY <2>8 DEF ContractRight, Open
  <2>12. DecisionRight(t, Closed)
    <3> SUFFICES ASSUME o.quote \in Newest, NEW q \in Newest, q # o.quote,
                        quotes[q].status = "ACCEPTED"
                 PROVE  Excluded(o.quote, q)
      BY <2>8 DEF DecisionRight
    <3>1. quotes[o.quote].status = "REJECTED" \/ Excluded(q, o.quote)
      BY DEF IInv, OthersRejected
    <3> QED BY <2>9, <3>1 DEF Excluded
  <2>13. OrdersRight(t)
    <3> SUFFICES Made(t)
      BY <2>8 DEF OrdersRight, Ordering
    <3>1. Made(o)
      BY <2>3, <2>4 DEF OrdersRight
    <3> QED BY <2>8, <3>1, MadeSame
  <2>14. WorkerRight(t, tx[w])
    BY <2>2, <2>4, <2>10, <2>11, <2>12, <2>13 DEF WorkerRight, SnapshotRight, SendingRight,
         AcceptingRight
  <2> QED BY <2>8, <2>9, <2>10, <2>14, LocalRight
<1> QED BY <1>1, <1>2

LEMMA CheckRevisionRight ==
    ASSUME IInv, NEW w \in Worker, CheckRevision(w)
    PROVE  IInv'
<1>1. CASE Throw(w)
  BY <1>1, ThrowRight
<1>2. CASE ~Throw(w)
  <2>1. PICK o : o = task[w]
    OBVIOUS
  <2>2. PICK v : v = tx[w]
    OBVIOUS
  <2>3. o \in Task /\ RequestRight(o, v) /\ o.step = "check" /\ WorkerRight(o, v)
    BY <2>1, <2>2, Known DEF CheckRevision, At
  <2>4. Accepts(o) /\ v = Closed /\ o.revision \in Revision /\ Exists(o.revision)
    BY <2>3, StepTells DEF Open
  <2>5. PICK p \in BOOLEAN : p = (revisions[o.revision].status = "DRAFT")
    OBVIOUS
  <2>6. PICK t : t = [o EXCEPT !.step = "begin", !.promote = p]
    OBVIOUS
  <2>7. /\ t \in Task /\ t.op = o.op /\ t.step = "begin" /\ t.quote = o.quote
        /\ t.revision = o.revision /\ t.promote = p
        /\ t.lines = o.lines /\ t.wasSent = o.wasSent
    BY <2>3, <2>6 DEF Task
  <2>8. Become(w, t) /\ Local
    BY <1>2, <2>1, <2>5, <2>6 DEF CheckRevision
  <2>9. IsSent(o.revision) \/ p
    BY <2>4, <2>5 DEF IInv, TypeOK, RevisionDoc, IsSent, Exists
  <2>10. RequestRight(t, Closed) /\ ~Filling(t)
    BY <2>3, <2>4, <2>7 DEF RequestRight, Accepts, Checked, Open, Ordering, Filling
  <2>11. ContractRight(t)
    BY <2>7, <2>9 DEF ContractRight
  <2>12. DecisionRight(t, Closed)
    BY <2>3, <2>4, <2>7 DEF WorkerRight, DecisionRight, Past, Accepts, Checked
  <2>13. OrdersRight(t)
    <3> SUFFICES Made(t)
      BY <2>7 DEF OrdersRight, Ordering
    <3>1. Made(o)
      BY <2>3, <2>4 DEF WorkerRight, OrdersRight, Checked
    <3> QED BY <2>7, <3>1, MadeSame
  <2>14. WorkerRight(t, tx[w])
    BY <2>2, <2>4, <2>10, <2>11, <2>12, <2>13 DEF WorkerRight, SnapshotRight, SendingRight,
         AcceptingRight
  <2> QED BY <2>7, <2>8, <2>10, <2>14, LocalRight
<1> QED BY <1>1, <1>2

(***************************************************************************)
(* A newest quote that is ACTIVE is on the first page, whatever the status *)
(* of the others.                                                          *)
(***************************************************************************)
LEMMA NewestListed ==
    ASSUME NEW q \in Quote, NEW p \in Newest, p # q, quotes[p].status = "ACTIVE"
    PROVE  p \in OtherQuotes(q)
<1>1. PICK A : A = {o \in Active : o > p}
  OBVIOUS
<1>2. PICK B : B = {o \in OfRFQ : o > p}
  OBVIOUS
<1>3. Active \subseteq OfRFQ /\ p \in Active
  BY DEF Active, Newest
<1>4. A \subseteq B /\ B \subseteq OfRFQ
  BY <1>1, <1>2, <1>3
<1>5. IsFiniteSet(B)
  BY <1>4, FS_Subset, QuoteAssumption
<1>6. IsFiniteSet(A) /\ Cardinality(A) <= Cardinality(B)
  BY <1>4, <1>5, FS_Subset
<1>7. Cardinality(A) \in Nat /\ Cardinality(B) \in Nat
  BY <1>5, <1>6, FS_CardinalityType
<1>8. Cardinality(B) < PageSize
  BY <1>2 DEF Newest
<1>9. Cardinality(A) < PageSize
  BY <1>6, <1>7, <1>8, BoundsAssumption
<1> QED BY <1>1, <1>3, <1>9 DEF OtherQuotes

LEMMA ListActiveQuotesRight ==
    ASSUME IInv, NEW w \in Worker, ListActiveQuotes(w)
    PROVE  IInv'
<1>1. PICK o : o = task[w]
  OBVIOUS
<1>2. PICK v : v = tx[w]
  OBVIOUS
<1>3. o \in Task /\ RequestRight(o, v) /\ o.step = "active" /\ WorkerRight(o, v)
  BY <1>1, <1>2, Known DEF ListActiveQuotes, At
<1>4. Accepts(o) /\ v # Closed /\ o.quote \in Quote
  BY <1>3, StepTells DEF Open
<1>5. PICK ps : ps = OtherQuotes(o.quote)
  OBVIOUS
<1>6. ps \in SUBSET Quote /\ ps \subseteq OfRFQ /\ o.quote \notin ps
  BY <1>5, QuoteAssumption DEF OtherQuotes, Active
<1>7. PICK t : t = [o EXCEPT !.step = "others", !.others = ps]
  OBVIOUS
<1>8. t \in Task /\ t.step = "others" /\ SameRequest(o, t) /\ t.others = ps
  BY <1>3, <1>6, <1>7 DEF Task, SameRequest
<1>9. RequestRight(t, v) /\ ~Filling(t)
  BY <1>3, <1>4, <1>8 DEF RequestRight, Accepts, Checked, Open, Ordering, Filling, SameRequest
<1>10. v.wrote = {o.quote} /\ o.quote \in OfRFQ
  BY <1>3, <1>4 DEF WorkerRight, AcceptingRight
<1>11. AcceptingRight(t, v)
  BY <1>3, <1>4, <1>6, <1>8, <1>10 DEF WorkerRight, AcceptingRight, Accepts, SameRequest
<1>12. DecisionRight(t, v)
  <2> SUFFICES ASSUME o.quote \in Newest, NEW q \in Newest, q # o.quote
               PROVE  /\ quotes[q].status = "ACCEPTED" => Excluded(o.quote, q)
                      /\ Settled(q, t, v)
    BY <1>8 DEF DecisionRight, SameRequest
  <2>1. quotes[q].status = "ACCEPTED" => Excluded(o.quote, q)
    BY <1>3, <1>4 DEF WorkerRight, DecisionRight, Past, Checked, Open
  <2>2. quotes[q].status \in {"ACTIVE", "ACCEPTED", "REJECTED"}
    BY NewestTyped DEF IInv, TypeOK, QuoteDoc
  <2>3. quotes[q].status = "ACTIVE" => q \in ps
    BY <1>4, <1>5, NewestListed
  <2> QED BY <1>8, <2>1, <2>2, <2>3 DEF Settled, SameRequest
<1>13. ContractRight(t) /\ OrdersRight(t)
  BY <1>3, <1>4, <1>8, CheckedOn DEF WorkerRight, Open
<1>14. WorkerRight(t, tx[w])
  <2>1. SnapshotRight(v)
    BY <1>3 DEF WorkerRight
  <2>2. SendingRight(t, v)
    BY <1>4, <1>8 DEF Accepts, SendingRight, SameRequest
  <2> QED BY <1>2, <1>9, <1>11, <1>12, <1>13, <2>1, <2>2 DEF WorkerRight
<1>15. Become(w, t) /\ Local
  BY <1>1, <1>5, <1>7 DEF ListActiveQuotes
<1> QED BY <1>8, <1>9, <1>14, <1>15, LocalRight
-------------------------------------------------------------------------------
(***************************************************************************)
(* Steps of a transaction.                                                 *)
(***************************************************************************)
LEMMA DecisionOn ==
    ASSUME NEW o, NEW t, SameRequest(o, t), Accepts(o) => o.step \in Checked,
           t.step # "others", NEW v, NEW x, DecisionRight(o, v)
    PROVE  DecisionRight(t, x)
BY DEF SameRequest, DecisionRight, Past, Accepts

LEMMA BeginTransactionRight ==
    ASSUME IInv, NEW w \in Worker, BeginTransaction(w)
    PROVE  IInv'
<1>1. PICK o : o = task[w]
  OBVIOUS
<1>2. PICK v : v = tx[w]
  OBVIOUS
<1>3. o \in Task /\ RequestRight(o, v) /\ o.step = "begin" /\ WorkerRight(o, v)
  BY <1>1, <1>2, Known DEF BeginTransaction, At
<1>4. (o.op = "send" \/ Accepts(o)) /\ v = Closed /\ o.quote \in Quote
  BY <1>3, StepTells DEF Open
<1>5. PICK x : x = [stale |-> {}, quotes |-> quotes, wrote |-> {}, sent |-> {}]
  OBVIOUS
<1>6. /\ x \in Transaction /\ x # Closed /\ x.stale = {} /\ x.quotes = quotes
      /\ x.wrote = {} /\ x.sent = {}
  BY <1>5, ClosedAssumption DEF Transaction, IInv, TypeOK
<1>7. PICK s : s = IF o.op = "send" \/ o.promote THEN "promote" ELSE "quote"
  OBVIOUS
<1>8. PICK t : t = [o EXCEPT !.step = s]
  OBVIOUS
<1>9. t \in Task /\ t.step = s /\ SameRequest(o, t) /\ s \in {"promote", "quote"}
  BY <1>3, <1>7, <1>8 DEF Task, SameRequest
<1>10. RequestRight(t, x)
  BY <1>3, <1>4, <1>6, <1>7, <1>9 DEF RequestRight, Accepts, Checked, Open, Ordering, SameRequest
<1>11. SnapshotRight(x) /\ SendingRight(t, x) /\ AcceptingRight(t, x)
  <2>1. SnapshotRight(x)
    BY <1>6 DEF SnapshotRight
  <2>2. SendingRight(t, x)
    BY <1>6, <1>7, <1>9 DEF SendingRight, SameRequest
  <2>3. AcceptingRight(t, x)
    BY <1>6, <1>7, <1>9 DEF AcceptingRight, SameRequest, Accepts
  <2> QED BY <2>1, <2>2, <2>3
<1>12. ContractRight(t) /\ OrdersRight(t)
  <2>1. o.step \in {"begin"} \cup Open /\ t.step \in {"begin"} \cup Open
        /\ o.op \in {"send", "accept", "approve"}
    BY <1>3, <1>4, <1>9 DEF Checked, Open, Accepts
  <2>2. ContractRight(o) /\ OrdersRight(o)
    BY <1>3 DEF WorkerRight
  <2> QED BY <1>9, <2>1, <2>2, CheckedOn
<1>13. DecisionRight(t, x)
  <2>1. DecisionRight(o, v)
    BY <1>3 DEF WorkerRight
  <2> QED BY <1>3, <1>9, <2>1, DecisionOn DEF Checked
<1>14. WorkerRight(t, x)
  BY <1>10, <1>11, <1>12, <1>13 DEF WorkerRight
<1>15. Become(w, t) /\ tx' = [tx EXCEPT ![w] = x] /\ UNCHANGED db
  BY <1>1, <1>5, <1>7, <1>8 DEF BeginTransaction, Goto
<1>16. x \in Transaction \cup {Closed} /\ ~Filling(t)
       /\ \A u \in Worker : u # w => Wrote(u) \cap (x.wrote \cup x.sent) = {}
  BY <1>6, <1>9 DEF Filling
<1> QED BY <1>9, <1>14, <1>15, <1>16, WriteRight

\* A document that nobody else has written, nor committed since the snapshot.
LEMMA NoConflict ==
    ASSUME IInv, NEW w \in Worker, NEW v, v = tx[w], v # Closed, NEW d, ~Conflict(w, d)
    PROVE  /\ d \notin v.stale
           /\ \A u \in Worker : u # w => Wrote(u) \cap (v.wrote \cup v.sent \cup {d}) = {}
<1>1. d \notin v.stale /\ \A u \in Worker \ {w} : d \notin Wrote(u)
  BY DEF Conflict, Writable
<1>2. \A u \in Worker : u # w => Wrote(u) \cap (v.wrote \cup v.sent) = {}
  BY OthersWrote
<1> QED BY <1>1, <1>2

LEMMA PromoteRevisionRight ==
    ASSUME IInv, NEW w \in Worker, PromoteRevision(w)
    PROVE  IInv'
<1>1. PICK o : o = task[w]
  OBVIOUS
<1>2. PICK v : v = tx[w]
  OBVIOUS
<1>3. o \in Task /\ RequestRight(o, v) /\ o.step = "promote" /\ WorkerRight(o, v)
      /\ v \in Transaction \cup {Closed}
  BY <1>1, <1>2, Known DEF PromoteRevision, At
<1>4. /\ (o.op = "send" \/ Accepts(o)) /\ v # Closed /\ o.quote \in Quote
      /\ o.revision \in Revision
  BY <1>3, StepTells DEF Open
<1>5. CASE Conflict(w, o.revision)
  <2>1. Retry(w) /\ tx[w] # Closed
    BY <1>1, <1>2, <1>4, <1>5 DEF PromoteRevision
  <2> QED BY <2>1, RetryRight
<1>6. CASE ~Conflict(w, o.revision)
  <2>1. PICK x : x = [v EXCEPT !.sent = v.sent \cup {o.revision}]
    OBVIOUS
  <2>2. /\ x \in Transaction /\ x # Closed /\ x.stale = v.stale /\ x.quotes = v.quotes
        /\ x.wrote = v.wrote /\ x.sent = v.sent \cup {o.revision}
    BY <1>3, <1>4, <2>1, ClosedAssumption DEF Transaction
  <2>3. PICK t : t = [o EXCEPT !.step = "quote"]
    OBVIOUS
  <2>4. t \in Task /\ t.step = "quote" /\ SameRequest(o, t)
    BY <1>3, <2>3 DEF Task, SameRequest
  <2>5. /\ o.revision \notin v.stale
        /\ \A u \in Worker : u # w => Wrote(u) \cap (v.wrote \cup v.sent \cup {o.revision}) = {}
    BY <1>2, <1>4, <1>6, NoConflict
  <2>6. RequestRight(t, x)
    BY <1>3, <1>4, <2>2, <2>4 DEF RequestRight, Accepts, Checked, Open, Ordering, SameRequest
  <2>7. SnapshotRight(x) /\ SendingRight(t, x) /\ AcceptingRight(t, x)
    <3>1. SnapshotRight(v) /\ SendingRight(o, v) /\ AcceptingRight(o, v)
      BY <1>3 DEF WorkerRight
    <3>2. SnapshotRight(x)
      BY <1>4, <2>2, <2>5, <3>1 DEF SnapshotRight
    <3>3. SendingRight(t, x)
      BY <1>3, <1>4, <2>2, <2>4, <3>1 DEF SendingRight, SameRequest
    <3>4. AcceptingRight(t, x)
      <4>1. Accepts(o) => o.promote
        BY <1>3 DEF RequestRight
      <4> QED BY <1>3, <1>4, <2>2, <2>4, <3>1, <4>1 DEF AcceptingRight, SameRequest, Accepts
    <3> QED BY <3>2, <3>3, <3>4
  <2>8. ContractRight(t) /\ OrdersRight(t)
    <3>1. o.step \in {"begin"} \cup Open /\ t.step \in {"begin"} \cup Open
          /\ o.op \in {"send", "accept", "approve"}
      BY <1>3, <1>4, <2>4 DEF Checked, Open, Accepts
    <3>2. ContractRight(o) /\ OrdersRight(o)
      BY <1>3 DEF WorkerRight
    <3> QED BY <2>4, <3>1, <3>2, CheckedOn
  <2>9. DecisionRight(t, x)
    <3>1. DecisionRight(o, v)
      BY <1>3 DEF WorkerRight
    <3> QED BY <1>3, <2>4, <3>1, DecisionOn DEF Checked, Open
  <2>10. WorkerRight(t, x)
    BY <2>6, <2>7, <2>8, <2>9 DEF WorkerRight
  <2>11. Become(w, t) /\ tx' = [tx EXCEPT ![w] = x] /\ UNCHANGED db
    <3>1. Become(w, t) /\ UNCHANGED db /\ tx' = [tx EXCEPT ![w].sent = @ \cup {o.revision}]
      BY <1>1, <1>6, <2>3 DEF PromoteRevision, Goto
    <3> QED BY <1>2, <1>3, <2>1, <3>1 DEF IInv
  <2>12. x \in Transaction \cup {Closed} /\ ~Filling(t)
         /\ \A u \in Worker : u # w => Wrote(u) \cap (x.wrote \cup x.sent) = {}
    BY <2>2, <2>4, <2>5 DEF Filling
  <2> QED BY <2>4, <2>10, <2>11, <2>12, WriteRight
<1> QED BY <1>5, <1>6
Written(v, q, d) ==
    [v EXCEPT !.quotes = [v.quotes EXCEPT ![q] = d], !.wrote = v.wrote \cup {q}]

\* The event of quote q in w's transaction v, which is x then.
LEMMA WriteQuoteRight ==
    ASSUME IInv, NEW w \in Worker, NEW v, v = tx[w], v # Closed,
           NEW q \in Quote, NEW d \in QuoteDoc, NEW t \in Task, ~Filling(t),
           WriteQuote(w, q, d, t),
           NEW x, x = Written(v, q, d),
           ~Conflict(w, q) => WorkerRight(t, x)
    PROVE  IInv'
<1>1. CASE Conflict(w, q)
  <2>1. Retry(w) /\ tx[w] # Closed
    BY <1>1 DEF WriteQuote
  <2> QED BY <2>1, RetryRight
<1>2. CASE ~Conflict(w, q)
  <2>1. v \in Transaction
    BY OpenTyped DEF IInv
  <2>2. x \in Transaction /\ x.wrote = v.wrote \cup {q} /\ x.sent = v.sent
    BY <2>1 DEF Transaction, Written
  <2>3. \A u \in Worker : u # w => Wrote(u) \cap (v.wrote \cup v.sent \cup {q}) = {}
    BY <1>2, NoConflict
  <2>4. Become(w, t) /\ UNCHANGED db
        /\ tx' = [tx EXCEPT ![w].quotes[q] = d, ![w].wrote = @ \cup {q}]
    BY <1>2 DEF WriteQuote
  <2>5. tx' = [tx EXCEPT ![w] = x]
    BY <2>1, <2>4 DEF IInv, Transaction, Written
  <2>6. x \in Transaction \cup {Closed} /\ ~Filling(t) /\ WorkerRight(t, x)
        /\ \A u \in Worker : u # w => Wrote(u) \cap (x.wrote \cup x.sent) = {}
    BY <1>2, <2>2, <2>3
  <2> QED BY <2>4, <2>5, <2>6, WriteRight
<1> QED BY <1>1, <1>2

LEMMA WrittenIs ==
    ASSUME IInv, NEW w \in Worker, NEW v \in Transaction, v = tx[w], SnapshotRight(v),
           NEW q \in Quote, NEW d \in QuoteDoc, ~Conflict(w, q),
           NEW x, x = Written(v, q, d)
    PROVE  /\ x # Closed /\ x.stale = v.stale /\ x.wrote = v.wrote \cup {q} /\ x.sent = v.sent
           /\ x.quotes[q] = d /\ \A p \in Quote : p # q => x.quotes[p] = v.quotes[p]
           /\ q \notin v.stale /\ SnapshotRight(x)
<1>1. v # Closed /\ q \notin v.stale
  BY ClosedAssumption DEF Conflict
<1>2. /\ x \in Transaction /\ x.stale = v.stale /\ x.wrote = v.wrote \cup {q} /\ x.sent = v.sent
      /\ x.quotes[q] = d /\ \A p \in Quote : p # q => x.quotes[p] = v.quotes[p]
  BY DEF Transaction, Written
<1>3. SnapshotRight(x)
  BY <1>1, <1>2 DEF SnapshotRight
<1> QED BY <1>1, <1>2, <1>3, ClosedAssumption

LEMMA UpdateSentQuoteRight ==
    ASSUME IInv, NEW w \in Worker, UpdateSentQuote(w)
    PROVE  IInv'
<1>1. PICK o : o = task[w]
  OBVIOUS
<1>2. PICK v : v = tx[w]
  OBVIOUS
<1>3. o \in Task /\ RequestRight(o, v) /\ o.step = "quote" /\ o.op = "send"
      /\ WorkerRight(o, v) /\ v \in Transaction \cup {Closed}
  BY <1>1, <1>2, Known DEF UpdateSentQuote, At
<1>4. v # Closed /\ v \in Transaction /\ o.quote \in Quote /\ o.revision \in Revision
  BY <1>3, StepTells DEF Open
<1>5. PICK d : d = [status |-> NewStatus(o), currentRevision |-> o.revision]
  OBVIOUS
<1>6. d \in QuoteDoc
  BY <1>3, <1>4, <1>5 DEF NewStatus, QuoteDoc, Task
<1>7. PICK t : t = [o EXCEPT !.step = "commit"]
  OBVIOUS
<1>8. t \in Task /\ t.step = "commit" /\ SameRequest(o, t)
  BY <1>3, <1>7 DEF Task, SameRequest
<1>9. PICK x : x = Written(v, o.quote, d)
  OBVIOUS
<1>10. ASSUME ~Conflict(w, o.quote) PROVE WorkerRight(t, x)
  <2>1. SnapshotRight(v) /\ SendingRight(o, v)
    BY <1>3 DEF WorkerRight
  <2>2. /\ x # Closed /\ x.wrote = v.wrote \cup {o.quote} /\ x.sent = v.sent
        /\ x.quotes[o.quote] = d /\ SnapshotRight(x)
    BY <1>2, <1>4, <1>6, <1>9, <1>10, <2>1, WrittenIs
  <2>3. RequestRight(t, x)
    BY <1>3, <1>4, <1>8, <2>2 DEF RequestRight, Accepts, Checked, Open, Ordering, SameRequest
  <2>4. SendingRight(t, x)
    BY <1>3, <1>4, <1>5, <1>8, <2>1, <2>2 DEF SendingRight, SameRequest, NewStatus
  <2>5. AcceptingRight(t, x)
    BY <1>3, <1>8 DEF AcceptingRight, SameRequest, Accepts
  <2>6. ContractRight(t) /\ OrdersRight(t)
    <3>1. o.step \in {"begin"} \cup Open /\ t.step \in {"begin"} \cup Open
          /\ o.op \in {"send", "accept", "approve"}
      BY <1>3, <1>8 DEF Checked, Open
    <3>2. ContractRight(o) /\ OrdersRight(o)
      BY <1>3 DEF WorkerRight
    <3> QED BY <1>8, <3>1, <3>2, CheckedOn
  <2>7. DecisionRight(t, x)
    <3>1. DecisionRight(o, v)
      BY <1>3 DEF WorkerRight
    <3> QED BY <1>3, <1>8, <3>1, DecisionOn DEF Checked, Open
  <2> QED BY <2>2, <2>3, <2>4, <2>5, <2>6, <2>7 DEF WorkerRight
<1>11. WriteQuote(w, o.quote, d, t)
  BY <1>1, <1>5, <1>7 DEF UpdateSentQuote
<1>12. ~Filling(t)
  BY <1>8 DEF Filling
<1> QED BY <1>2, <1>4, <1>6, <1>8, <1>9, <1>10, <1>11, <1>12, WriteQuoteRight

LEMMA UpdateAcceptedQuoteRight ==
    ASSUME IInv, NEW w \in Worker, UpdateAcceptedQuote(w)
    PROVE  IInv'
<1>1. PICK o : o = task[w]
  OBVIOUS
<1>2. PICK v : v = tx[w]
  OBVIOUS
<1>3. o \in Task /\ RequestRight(o, v) /\ o.step = "quote" /\ o.op \in {"accept", "approve"}
      /\ WorkerRight(o, v) /\ v \in Transaction \cup {Closed}
  BY <1>1, <1>2, Known DEF UpdateAcceptedQuote, At, Accepting
<1>4. v # Closed /\ v \in Transaction /\ o.quote \in Quote /\ o.revision \in Revision
      /\ Accepts(o)
  BY <1>3, StepTells DEF Open, Accepts
<1>5. PICK d : d = [v.quotes[o.quote] EXCEPT !.status = "ACCEPTED"]
  OBVIOUS
<1>6. /\ d \in QuoteDoc /\ d.status = "ACCEPTED"
      /\ d.currentRevision = v.quotes[o.quote].currentRevision
  BY <1>4, <1>5 DEF QuoteDoc, Transaction
<1>7. PICK s : s = IF o.quote \in OfRFQ THEN "rfq" ELSE "commit"
  OBVIOUS
<1>8. PICK t : t = [o EXCEPT !.step = s]
  OBVIOUS
<1>9. t \in Task /\ t.step = s /\ SameRequest(o, t) /\ s \in {"rfq", "commit"}
  BY <1>3, <1>7, <1>8 DEF Task, SameRequest
<1>10. PICK x : x = Written(v, o.quote, d)
  OBVIOUS
<1>11. ASSUME ~Conflict(w, o.quote) PROVE WorkerRight(t, x)
  <2>1. SnapshotRight(v) /\ AcceptingRight(o, v) /\ DecisionRight(o, v)
    BY <1>3 DEF WorkerRight
  <2>2. /\ x # Closed /\ x.wrote = v.wrote \cup {o.quote} /\ x.sent = v.sent
        /\ x.quotes[o.quote] = d /\ \A q \in Quote : q # o.quote => x.quotes[q] = v.quotes[q]
        /\ SnapshotRight(x) /\ o.quote \notin v.stale
    <3>1. v \in Transaction /\ o.quote \in Quote /\ d \in QuoteDoc /\ SnapshotRight(v)
      BY <1>4, <1>6, <2>1
    <3> QED BY <1>2, <1>10, <1>11, <3>1, WrittenIs
  <2>3. RequestRight(t, x)
    BY <1>3, <1>4, <1>9, <2>2 DEF RequestRight, Accepts, Checked, Open, Ordering, SameRequest
  <2>4. SendingRight(t, x)
    BY <1>3, <1>9 DEF SendingRight, SameRequest
  <2>5. AcceptingRight(t, x)
    <3>1. v.wrote = {} /\ v.sent = IF o.promote THEN {o.revision} ELSE {}
      BY <1>3, <1>4, <2>1 DEF AcceptingRight
    <3>2. d.currentRevision = quotes[o.quote].currentRevision
      BY <1>4, <1>6, <2>1, <2>2, <3>1 DEF SnapshotRight
    <3> QED BY <1>6, <1>7, <1>9, <2>2, <3>1, <3>2 DEF AcceptingRight, SameRequest
  <2>6. ContractRight(t) /\ OrdersRight(t)
    <3>1. o.step \in {"begin"} \cup Open /\ t.step \in {"begin"} \cup Open
          /\ o.op \in {"send", "accept", "approve"}
      BY <1>3, <1>9 DEF Checked, Open
    <3>2. ContractRight(o) /\ OrdersRight(o)
      BY <1>3 DEF WorkerRight
    <3> QED BY <1>9, <3>1, <3>2, CheckedOn
  <2>7. DecisionRight(t, x)
    <3>1. DecisionRight(o, v)
      BY <2>1
    <3> QED BY <1>3, <1>9, <3>1, DecisionOn DEF Checked, Open
  <2> QED BY <2>2, <2>3, <2>4, <2>5, <2>6, <2>7 DEF WorkerRight
<1>12. WriteQuote(w, o.quote, d, t)
  BY <1>1, <1>2, <1>5, <1>7, <1>8 DEF UpdateAcceptedQuote
<1>13. ~Filling(t)
  BY <1>9 DEF Filling
<1> QED BY <1>2, <1>4, <1>6, <1>9, <1>10, <1>11, <1>12, <1>13, WriteQuoteRight

LEMMA RejectOtherQuoteRight ==
    ASSUME IInv, NEW w \in Worker, RejectOtherQuote(w)
    PROVE  IInv'
<1>1. PICK o : o = task[w]
  OBVIOUS
<1>2. PICK v : v = tx[w]
  OBVIOUS
<1>3. o \in Task /\ RequestRight(o, v) /\ o.step = "others"
      /\ WorkerRight(o, v) /\ v \in Transaction \cup {Closed}
  BY <1>1, <1>2, Known DEF RejectOtherQuote, At
<1>4. v # Closed /\ v \in Transaction /\ o.quote \in Quote /\ o.revision \in Revision
      /\ Accepts(o) /\ o.op \in {"accept", "approve"}
  BY <1>3, StepTells DEF Open, Accepts
<1>5. PICK p \in o.others :
        WriteQuote(w, p, [v.quotes[p] EXCEPT !.status = "REJECTED"],
                   [o EXCEPT !.others = @ \ {p}])
  BY <1>1, <1>2 DEF RejectOtherQuote
<1>6. PICK d : d = [v.quotes[p] EXCEPT !.status = "REJECTED"]
  OBVIOUS
<1>7. p \in Quote
  BY <1>3 DEF Task
<1>8. /\ d \in QuoteDoc /\ d.status = "REJECTED"
      /\ d.currentRevision = v.quotes[p].currentRevision
  BY <1>4, <1>6, <1>7 DEF QuoteDoc, Transaction
<1>9. PICK t : t = [o EXCEPT !.others = o.others \ {p}]
  OBVIOUS
<1>10. t \in Task /\ t.step = "others" /\ SameRequest(o, t) /\ t.others = o.others \ {p}
  BY <1>3, <1>9 DEF Task, SameRequest
<1>11. PICK x : x = Written(v, p, d)
  OBVIOUS
<1>12. ASSUME ~Conflict(w, p) PROVE WorkerRight(t, x)
  <2>1. SnapshotRight(v) /\ AcceptingRight(o, v) /\ DecisionRight(o, v)
    BY <1>3 DEF WorkerRight
  <2>2. /\ x # Closed /\ x.wrote = v.wrote \cup {p} /\ x.sent = v.sent
        /\ x.quotes[p] = d /\ \A q \in Quote : q # p => x.quotes[q] = v.quotes[q]
        /\ SnapshotRight(x) /\ p \notin v.stale
    BY <1>2, <1>4, <1>7, <1>8, <1>11, <1>12, <2>1, WrittenIs
  <2>3. RequestRight(t, x)
    BY <1>3, <1>4, <1>10, <2>2 DEF RequestRight, Accepts, Checked, Open, Ordering, SameRequest
  <2>4. SendingRight(t, x)
    BY <1>4, <1>10 DEF SendingRight, SameRequest
  <2>5. /\ v.sent = IF o.promote THEN {o.revision} ELSE {}
        /\ o.quote \in v.wrote /\ o.quote \in OfRFQ
        /\ v.wrote \cup o.others \subseteq OfRFQ /\ o.quote \notin o.others /\ rfq = "ACCEPTED"
        /\ \A q \in v.wrote :
              /\ v.quotes[q].currentRevision = quotes[q].currentRevision
              /\ v.quotes[q].status = IF q = o.quote THEN "ACCEPTED" ELSE "REJECTED"
    BY <1>3, <1>4, <2>1 DEF AcceptingRight
  <2>6. AcceptingRight(t, x)
    <3>1. d.currentRevision = quotes[p].currentRevision
      BY <1>4, <1>7, <1>8, <2>1, <2>2, <2>5 DEF SnapshotRight
    <3>2. ASSUME NEW q \in x.wrote
          PROVE  /\ x.quotes[q].currentRevision = quotes[q].currentRevision
                 /\ x.quotes[q].status = IF q = o.quote THEN "ACCEPTED" ELSE "REJECTED"
      <4>1. CASE q = p
        BY <4>1, <1>8, <2>2, <2>5, <3>1
      <4>2. CASE q # p
        BY <4>2, <1>4, <2>2, <2>5, QuoteAssumption
      <4> QED BY <4>1, <4>2
    <3>3. x.wrote \cup t.others \subseteq OfRFQ /\ o.quote \notin t.others /\ o.quote \in x.wrote
      BY <1>10, <2>2, <2>5
    <3> QED BY <1>10, <2>2, <2>5, <3>2, <3>3 DEF AcceptingRight, SameRequest
  <2>7. ContractRight(t) /\ OrdersRight(t)
    <3>1. o.step \in {"begin"} \cup Open /\ t.step \in {"begin"} \cup Open
          /\ o.op \in {"send", "accept", "approve"}
      BY <1>3, <1>4, <1>10 DEF Checked, Open
    <3>2. ContractRight(o) /\ OrdersRight(o)
      BY <1>3 DEF WorkerRight
    <3> QED BY <1>10, <3>1, <3>2, CheckedOn
  <2>8. DecisionRight(t, x)
    <3> SUFFICES ASSUME o.quote \in Newest, NEW q \in Newest, q # o.quote
                 PROVE  /\ quotes[q].status = "ACCEPTED" => Excluded(o.quote, q)
                        /\ Settled(q, t, x)
      BY <1>10 DEF DecisionRight, SameRequest
    <3>1. (quotes[q].status = "ACCEPTED" => Excluded(o.quote, q)) /\ Settled(q, o, v)
      BY <1>3, <1>4, <2>1 DEF DecisionRight, Past, Checked, Open
    <3> QED BY <1>10, <2>2, <3>1 DEF Settled, SameRequest
  <2> QED BY <2>2, <2>3, <2>4, <2>6, <2>7, <2>8 DEF WorkerRight
<1>13. WriteQuote(w, p, d, t)
  <2>1. t = [o EXCEPT !.others = @ \ {p}]
    BY <1>3, <1>9 DEF Task
  <2> QED BY <1>5, <1>6, <2>1
<1>14. ~Filling(t)
  BY <1>10 DEF Filling
<1> QED BY <1>2, <1>4, <1>7, <1>8, <1>10, <1>11, <1>12, <1>13, <1>14, WriteQuoteRight
-------------------------------------------------------------------------------
(***************************************************************************)
(* Steps that write to the database: line items, and edits.                *)
(***************************************************************************)
LEMMA UnchangedIs ==
    ASSUME IInv, UNCHANGED tx
    PROVE  DOMAIN tx' = Worker /\ \A u \in Worker : tx'[u] = Later(tx[u], {})
<1>1. {} \in SUBSET Doc
  OBVIOUS
<1> QED BY <1>1, OpenTyped, LaterIs DEF IInv

LEMMA CommittedIs ==
    ASSUME IInv, NEW w \in Worker, NEW ds, Committed(w, ds)
    PROVE  /\ DOMAIN tx' = Worker /\ tx'[w] = Closed
           /\ \A u \in Worker \ {w} : tx'[u] = Later(tx[u], ds)
BY DEF Committed, Later

LEMMA CurrentSame ==
    ASSUME IInv, UNCHANGED <<quotes, exempt>>, \A r \in Revision : Exists(r) => Exists(r)'
    PROVE  CurrentExists' /\ OthersRejected'
<1>1. CurrentExists'
  BY DEF IInv, CurrentExists, TypeOK, QuoteDoc
<1>2. OthersRejected'
  BY DEF IInv, OthersRejected, Excluded
<1> QED BY <1>1, <1>2

\* Orders are as they were, and w fills none.
LEMMA NoOrderStep ==
    ASSUME NEW w, NEW t, orders' = orders, ~Filling(t)
    PROVE  OrdersStep(w, t)
BY DEF OrdersStep

LEMMA CreateQuoteRevisionRight ==
    ASSUME IInv, NEW w \in Worker, CreateQuoteRevision(w)
    PROVE  IInv'
<1>1. PICK r \in Revision, lines \in LineSets :
        /\ revisions[r].status = "NONE"
        /\ Request(w, Call("draft", "copy", QuoteOf[r], r))
        /\ revisions' = [revisions EXCEPT ![r] = [status |-> "DRAFT", lines |-> lines]]
        /\ UNCHANGED <<quotes, canonical, rfq, orders, exempt, edited, tx>>
  BY DEF CreateQuoteRevision
<1>2. PICK t : t = Call("draft", "copy", QuoteOf[r], r)
  OBVIOUS
<1>3. QuoteOf[r] \in Quote /\ lines \in SUBSET Line
  BY QuoteAssumption, LineAssumption
<1>4. t \in Task /\ t.op = "draft" /\ t.step = "copy" /\ t.quote = QuoteOf[r] /\ t.revision = r
  BY <1>2, <1>3 DEF Call, Idle, Task
<1>5. tx[w] = Closed /\ task' = [task EXCEPT ![w] = t] /\ calls' \in 0 .. MaxCalls
  BY <1>1, <1>2, IdleClosed, CallsCounted DEF Request
<1>6. PICK doc : doc = [status |-> "DRAFT", lines |-> lines]
  OBVIOUS
<1>7. doc \in RevisionDoc /\ doc.status = "DRAFT"
  BY <1>3, <1>6 DEF RevisionDoc
<1>8. /\ revisions' \in [Revision -> RevisionDoc] /\ revisions'[r] = doc
      /\ \A s \in Revision : s # r => revisions'[s] = revisions[s]
  BY <1>1, <1>6, <1>7 DEF IInv, TypeOK
<1>9. \A s \in Revision : (Exists(s) => Exists(s)') /\ (IsSent(s) => revisions'[s] = revisions[s])
  BY <1>1, <1>7, <1>8 DEF Exists, IsSent
<1>10. DOMAIN tx' = Worker /\ \A u \in Worker : tx'[u] = Later(tx[u], {})
  BY <1>1, UnchangedIs
<1>11. Step(w, {})
  BY <1>1, <1>5, <1>9, <1>10 DEF Step, IInv, TypeOK
<1>12. ~Accepts(t) /\ ~Filling(t)
  BY <1>4 DEF Accepts, Filling
<1>13. Beside(w, t)
  <2>1. SentStay
    BY <1>1, <1>9 DEF SentStay, IsSent
  <2>2. OrdersStep(w, t)
    BY <1>1, <1>12, NoOrderStep
  <2> QED BY <1>1, <2>1, <2>2 DEF Beside, Decides
<1>14. Documents'
  BY <1>1, <1>5, <1>8 DEF IInv, TypeOK, Documents
<1>15. CurrentExists' /\ OthersRejected'
  BY <1>1, <1>9, CurrentSame
<1>16. RequestRight(t, Closed)'
  BY <1>3, <1>4, <1>7, <1>8 DEF RequestRight, Accepts, Exists, Open
<1>17. WorkerRight(t, Closed)' /\ tx'[w] = Closed
  BY <1>1, <1>5, <1>12, <1>16, PlainRightNext
<1>18. {} \in SUBSET Doc /\ Closed \in Transaction \cup {Closed}
  OBVIOUS
<1> QED BY <1>4, <1>5, <1>10, <1>11, <1>13, <1>14, <1>15, <1>17, <1>18, StepRight

\* What a step of a draft or an update may do to its revision.
Drafts(w, t, ds) ==
    /\ task' = [task EXCEPT ![w] = t] /\ UNCHANGED calls
    /\ t.revision = task[w].revision /\ t.op = task[w].op /\ t.quote = task[w].quote
    /\ t.step \in {"copy", "sync"}
    /\ UNCHANGED <<quotes, rfq, orders, exempt>>
    /\ revisions' \in [Revision -> RevisionDoc]
    /\ canonical' \in [Revision -> SUBSET Line]
    /\ \A r \in Revision : /\ revisions'[r].status = revisions[r].status
                           /\ IdsUnique(canonical'[r])
                           /\ r # t.revision => revisions'[r] = revisions[r]
                                                /\ canonical'[r] = canonical[r]
    /\ NoteEdit(t.revision)
    /\ DOMAIN tx' = Worker /\ tx'[w] = Closed
    /\ \A u \in Worker \ {w} : tx'[u] = Later(tx[u], ds) /\ Wrote(u) \cap ds = {}

LEMMA NotedEdit ==
    ASSUME NEW r \in Revision, NoteEdit(r)
    PROVE  /\ edited \subseteq edited'
           /\ edited \subseteq Revision => edited' \subseteq Revision
           /\ IsSent(r) => \/ r \in edited'
                           \/ revisions'[r].lines = revisions[r].lines /\ canonical'[r] = canonical[r]
BY DEF NoteEdit, IsSent

LEMMA DraftsRight ==
    ASSUME IInv, NEW w \in Worker, NEW o, o = task[w], o.step \in {"write", "sync"},
           NEW t \in Task, NEW ds \in {{}, {t.revision}}, Drafts(w, t, ds)
    PROVE  IInv'
<1>1. PICK v : v = tx[w]
  OBVIOUS
<1>2. o \in Task /\ RequestRight(o, v)
  BY <1>1, Known
<1>3. /\ o.op \in {"draft", "update"} /\ v = Closed
      /\ o.revision \in Revision /\ Exists(o.revision) /\ o.quote \in Quote
  BY <1>2, StepTells DEF Open
<1>4. t.revision = o.revision /\ t.op = o.op /\ t.quote = o.quote /\ t.step \in {"copy", "sync"}
  BY DEF Drafts
<1>5. \A r \in Revision : (Exists(r)' <=> Exists(r)) /\ (IsSent(r)' <=> IsSent(r))
  BY DEF Drafts, Exists, IsSent
<1>6. /\ edited \subseteq edited'
      /\ edited \subseteq Revision => edited' \subseteq Revision
      /\ IsSent(t.revision) =>
            \/ t.revision \in edited'
            \/ /\ revisions'[t.revision].lines = revisions[t.revision].lines
               /\ canonical'[t.revision] = canonical[t.revision]
  <2>1. t.revision \in Revision /\ NoteEdit(t.revision)
    BY <1>3, <1>4 DEF Drafts
  <2> QED BY <2>1, NotedEdit
<1>7. Step(w, ds)
  BY <1>5, <1>6 DEF Drafts, Step, IInv, TypeOK
<1>8. ~Accepts(t) /\ ~Filling(t)
  BY <1>3, <1>4 DEF Accepts, Filling
<1>9. Beside(w, t)
  <2>1. SentStay
    BY <1>5, <1>6 DEF SentStay, Drafts
  <2>2. OrdersStep(w, t)
    BY <1>8, NoOrderStep DEF Drafts
  <2> QED BY <2>1, <2>2 DEF Beside, Decides, Drafts
<1>10. Documents'
  BY <1>6 DEF Drafts, IInv, TypeOK, Documents
<1>11. CurrentExists' /\ OthersRejected'
  BY <1>5, CurrentSame DEF Drafts
<1>12. RequestRight(t, Closed)'
  BY <1>3, <1>4, <1>5 DEF RequestRight, Accepts, Open
<1>13. WorkerRight(t, Closed)'
  BY <1>8, <1>12, PlainRightNext
<1>14. task' = [task EXCEPT ![w] = t] /\ DOMAIN tx' = Worker /\ tx'[w] = Closed
  BY DEF Drafts
<1>15. ds \in SUBSET Doc /\ Closed \in Transaction \cup {Closed}
  BY <1>3, <1>4 DEF Doc
<1> HIDE DEF Drafts
<1> QED BY <1>7, <1>9, <1>10, <1>11, <1>13, <1>14, <1>15, StepRight

LEMMA WriteRevisionRight ==
    ASSUME IInv, NEW w \in Worker, WriteRevision(w)
    PROVE  IInv'
<1>1. PICK o : o = task[w]
  OBVIOUS
<1>2. PICK v : v = tx[w]
  OBVIOUS
<1>3. o \in Task /\ RequestRight(o, v) /\ o.step = "write"
  BY <1>1, <1>2, Known DEF WriteRevision, At
<1>4. o.revision \in Revision
  BY <1>3, StepTells
<1>5. PICK t : t = [o EXCEPT !.step = "copy"]
  OBVIOUS
<1>6. t \in Task /\ t.step = "copy" /\ SameRequest(o, t)
  BY <1>3, <1>5 DEF Task, SameRequest
<1>7. /\ Writable(w, o.revision)
      /\ revisions' = [revisions EXCEPT ![o.revision].lines = o.lines]
      /\ Committed(w, {o.revision}) /\ Become(w, t)
      /\ UNCHANGED <<quotes, canonical, rfq, orders, exempt>>
      /\ NoteEdit(o.revision)
  BY <1>1, <1>5 DEF WriteRevision, Goto
<1>8. o.lines \in SUBSET Line
  BY <1>3 DEF Task
<1>9. PICK doc : doc = [revisions[o.revision] EXCEPT !.lines = o.lines]
  OBVIOUS
<1>10. doc \in RevisionDoc /\ doc.status = revisions[o.revision].status
  BY <1>4, <1>8, <1>9 DEF IInv, TypeOK, RevisionDoc
<1>11. /\ revisions' \in [Revision -> RevisionDoc] /\ revisions'[o.revision] = doc
       /\ \A r \in Revision : r # o.revision => revisions'[r] = revisions[r]
  BY <1>4, <1>7, <1>9, <1>10 DEF IInv, TypeOK
<1>12. \A r \in Revision : revisions'[r].status = revisions[r].status /\ IdsUnique(canonical'[r])
  BY <1>7, <1>10, <1>11 DEF IInv, TypeOK
<1>13. DOMAIN tx' = Worker /\ tx'[w] = Closed
       /\ \A u \in Worker \ {w} : tx'[u] = Later(tx[u], {o.revision})
  BY <1>7, CommittedIs
<1>14. \A u \in Worker \ {w} : Wrote(u) \cap {o.revision} = {}
  BY <1>7 DEF Writable
<1>15. PICK ds \in {{}, {t.revision}} : ds = {o.revision}
  BY <1>6 DEF SameRequest
<1>16. Drafts(w, t, ds)
  <2>1. /\ task' = [task EXCEPT ![w] = t] /\ UNCHANGED calls
        /\ t.revision = task[w].revision /\ t.op = task[w].op /\ t.quote = task[w].quote
        /\ t.step \in {"copy", "sync"} /\ NoteEdit(t.revision)
    BY <1>1, <1>6, <1>7 DEF Become, SameRequest
  <2>2. /\ UNCHANGED <<quotes, rfq, orders, exempt, canonical>>
        /\ canonical' \in [Revision -> SUBSET Line] /\ t.revision = o.revision
    BY <1>6, <1>7 DEF SameRequest, IInv, TypeOK
  <2> QED BY <1>11, <1>12, <1>13, <1>14, <1>15, <2>1, <2>2 DEF Drafts
<1>17. o.step \in {"write", "sync"}
  BY <1>3
<1> QED BY <1>1, <1>6, <1>15, <1>16, <1>17, DraftsRight

\* The canonical line items of the revision become items.
LEMMA SyncRight ==
    ASSUME IInv, NEW w \in Worker, NEW o, o = task[w], o.step = "sync",
           NEW items \in SUBSET Line, IdsUnique(items),
           canonical' = [canonical EXCEPT ![o.revision] = items],
           NEW t \in Task, t.step = "sync", t.op = o.op, t.quote = o.quote,
           t.revision = o.revision, Become(w, t),
           UNCHANGED <<quotes, revisions, rfq, orders, exempt, tx>>, NoteEdit(o.revision)
    PROVE  IInv'
<1>1. PICK v : v = tx[w]
  OBVIOUS
<1>2. o \in Task /\ RequestRight(o, v)
  BY <1>1, Known
<1>3. o.revision \in Revision /\ v = Closed
  BY <1>2, StepTells DEF Open
<1>4. /\ canonical' \in [Revision -> SUBSET Line] /\ canonical'[o.revision] = items
      /\ \A r \in Revision : r # o.revision => canonical'[r] = canonical[r]
  BY <1>3 DEF IInv, TypeOK
<1>5. \A r \in Revision : IdsUnique(canonical'[r])
  BY <1>4 DEF IInv, TypeOK
<1>6. DOMAIN tx' = Worker /\ \A u \in Worker : tx'[u] = Later(tx[u], {})
  BY UnchangedIs
<1>7. PICK ds \in {{}, {t.revision}} : ds = {}
  OBVIOUS
<1>8. Drafts(w, t, ds)
  <2>1. /\ task' = [task EXCEPT ![w] = t] /\ UNCHANGED calls
        /\ t.revision = task[w].revision /\ t.op = task[w].op /\ t.quote = task[w].quote
        /\ t.step \in {"copy", "sync"} /\ NoteEdit(t.revision)
    BY DEF Become
  <2>2. revisions' \in [Revision -> RevisionDoc] /\ tx'[w] = Closed
    BY <1>1, <1>3 DEF IInv, TypeOK
  <2> QED BY <1>4, <1>5, <1>6, <1>7, <2>1, <2>2 DEF Drafts
<1>9. o.step \in {"write", "sync"}
  OBVIOUS
<1> QED BY <1>7, <1>8, <1>9, DraftsRight

\* The update of the item with an id, and a new item.
LEMMA Updated ==
    ASSUME NEW items \in SUBSET Line, IdsUnique(items), NEW l \in Line, NEW n \in ItemId \cup {0},
           NEW k, k = [l EXCEPT !.id = n],
           NEW new, new = {IF m.id = n THEN k ELSE m : m \in items}
    PROVE  new \in SUBSET Line /\ IdsUnique(new)
<1>1. k \in Line /\ k.id = n
  BY DEF Line
<1>2. \A x \in new : x = k \/ (x \in items /\ x.id # n)
  OBVIOUS
<1> QED BY <1>1, <1>2 DEF IdsUnique

LEMMA Inserted ==
    ASSUME NEW items \in SUBSET Line, IdsUnique(items), NEW l \in Line, NEW n \in ItemId \cup {0},
           NEW k, k = [l EXCEPT !.id = n], \A m \in items : m.id # n,
           NEW new, new = items \cup {k}
    PROVE  new \in SUBSET Line /\ IdsUnique(new)
<1>1. k \in Line /\ k.id = n
  BY DEF Line
<1> QED BY <1>1 DEF IdsUnique

LEMMA UpsertLineItemRight ==
    ASSUME IInv, NEW w \in Worker, UpsertLineItem(w)
    PROVE  IInv'
<1>1. PICK o : o = task[w]
  OBVIOUS
<1>2. PICK v : v = tx[w]
  OBVIOUS
<1>3. o \in Task /\ RequestRight(o, v) /\ o.step = "sync"
  BY <1>1, <1>2, Known DEF UpsertLineItem, At
<1>4. o.revision \in Revision
  BY <1>3, StepTells
<1>5. PICK l \in o.pending :
        /\ \/ \E e \in o.existing :
                /\ e.key = l.key
                /\ canonical' = [canonical EXCEPT ![o.revision] =
                       {IF m.id = e.id THEN [l EXCEPT !.id = e.id] ELSE m : m \in @}]
           \/ \E n \in FreeIds(o.revision) :
                /\ l.key \notin Keys(o.existing)
                /\ \A k \in FreeIds(o.revision) : n <= k
                /\ canonical' = [canonical EXCEPT ![o.revision] = @ \cup {[l EXCEPT !.id = n]}]
        /\ Become(w, [o EXCEPT !.pending = @ \ {l}])
  BY <1>1 DEF UpsertLineItem
<1>6. UNCHANGED <<quotes, revisions, rfq, orders, exempt, tx>> /\ NoteEdit(o.revision)
  BY <1>1 DEF UpsertLineItem
<1>7. PICK old : old = canonical[o.revision]
  OBVIOUS
<1>8. old \in SUBSET Line /\ IdsUnique(old) /\ l \in Line /\ o.existing \in SUBSET Line
  BY <1>3, <1>4, <1>5, <1>7 DEF IInv, TypeOK, Task
<1>9. \E items \in SUBSET Line :
         IdsUnique(items) /\ canonical' = [canonical EXCEPT ![o.revision] = items]
  <2>1. CASE \E e \in o.existing :
                canonical' = [canonical EXCEPT ![o.revision] =
                   {IF m.id = e.id THEN [l EXCEPT !.id = e.id] ELSE m : m \in @}]
    <3>1. PICK e \in o.existing :
                canonical' = [canonical EXCEPT ![o.revision] =
                   {IF m.id = e.id THEN [l EXCEPT !.id = e.id] ELSE m : m \in @}]
      BY <2>1
    <3>2. PICK n : n = e.id
      OBVIOUS
    <3>3. PICK k : k = [l EXCEPT !.id = n]
      OBVIOUS
    <3>4. PICK items : items = {IF m.id = n THEN k ELSE m : m \in old}
      OBVIOUS
    <3>5. n \in ItemId \cup {0}
      BY <1>8, <3>2 DEF Line
    <3>6. items \in SUBSET Line /\ IdsUnique(items)
      BY <1>8, <3>3, <3>4, <3>5, Updated
    <3>7. canonical' = [canonical EXCEPT ![o.revision] = items]
      BY <1>4, <1>7, <3>1, <3>2, <3>4, <3>3 DEF IInv, TypeOK
    <3> QED BY <3>6, <3>7
  <2>2. CASE \E n \in FreeIds(o.revision) :
                canonical' = [canonical EXCEPT ![o.revision] = @ \cup {[l EXCEPT !.id = n]}]
    <3>1. PICK n \in FreeIds(o.revision) :
                canonical' = [canonical EXCEPT ![o.revision] = @ \cup {[l EXCEPT !.id = n]}]
      BY <2>2
    <3>2. PICK k : k = [l EXCEPT !.id = n]
      OBVIOUS
    <3>3. PICK items : items = old \cup {k}
      OBVIOUS
    <3>4. n \in ItemId \cup {0} /\ \A m \in old : m.id # n
      BY <1>7, <3>1 DEF FreeIds
    <3>5. items \in SUBSET Line /\ IdsUnique(items)
      BY <1>8, <3>3, <3>4, <3>2, Inserted
    <3>6. canonical' = [canonical EXCEPT ![o.revision] = items]
      BY <1>4, <1>7, <3>1, <3>3, <3>2 DEF IInv, TypeOK
    <3> QED BY <3>5, <3>6
  <2> QED BY <1>5, <2>1, <2>2
<1>10. PICK items \in SUBSET Line :
         IdsUnique(items) /\ canonical' = [canonical EXCEPT ![o.revision] = items]
  BY <1>9
<1>11. PICK t : t = [o EXCEPT !.pending = o.pending \ {l}]
  OBVIOUS
<1>12. /\ t \in Task /\ t.step = "sync" /\ t.op = o.op /\ t.quote = o.quote
       /\ t.revision = o.revision /\ t = [o EXCEPT !.pending = @ \ {l}]
  BY <1>3, <1>11 DEF Task
<1>13. Become(w, t)
  BY <1>5, <1>12
<1> QED BY <1>1, <1>3, <1>6, <1>10, <1>12, <1>13, SyncRight

LEMMA SoftDeleteLineItemRight ==
    ASSUME IInv, NEW w \in Worker, SoftDeleteLineItem(w)
    PROVE  IInv'
<1>1. PICK o : o = task[w]
  OBVIOUS
<1>2. PICK v : v = tx[w]
  OBVIOUS
<1>3. o \in Task /\ RequestRight(o, v) /\ o.step = "sync"
  BY <1>1, <1>2, Known DEF SoftDeleteLineItem, At
<1>4. o.revision \in Revision
  BY <1>3, StepTells
<1>5. PICK e \in Dropped(o) :
        /\ canonical' = [canonical EXCEPT ![o.revision] = {m \in @ : m.id # e.id}]
        /\ Become(w, [o EXCEPT !.existing = @ \ {e}])
  BY <1>1 DEF SoftDeleteLineItem
<1>6. UNCHANGED <<quotes, revisions, rfq, orders, exempt, tx>> /\ NoteEdit(o.revision)
  BY <1>1 DEF SoftDeleteLineItem
<1>7. PICK items : items = {m \in canonical[o.revision] : m.id # e.id}
  OBVIOUS
<1>8. canonical[o.revision] \in SUBSET Line /\ IdsUnique(canonical[o.revision])
  BY <1>4 DEF IInv, TypeOK
<1>9. items \in SUBSET Line /\ IdsUnique(items)
  BY <1>7, <1>8 DEF IdsUnique
<1>10. PICK t : t = [o EXCEPT !.existing = o.existing \ {e}]
  OBVIOUS
<1>11. /\ t \in Task /\ t.step = "sync" /\ t.op = o.op /\ t.quote = o.quote
       /\ t.revision = o.revision /\ t = [o EXCEPT !.existing = @ \ {e}]
  BY <1>3, <1>10 DEF Task
<1>12. canonical' = [canonical EXCEPT ![o.revision] = items]
  BY <1>4, <1>5, <1>7 DEF IInv, TypeOK
<1>13. Become(w, t)
  BY <1>5, <1>11
<1> QED BY <1>1, <1>3, <1>6, <1>9, <1>11, <1>12, <1>13, SyncRight

(***************************************************************************)
(* Edits: w is idle and stays so.                                          *)
(***************************************************************************)
Edited(w, ds) ==
    /\ task[w] = Idle /\ UNCHANGED <<task, rfq, orders, revisions>>
    /\ calls' \in 0 .. MaxCalls
    /\ quotes' \in [Quote -> QuoteDoc] /\ canonical' \in [Revision -> SUBSET Line]
    /\ \A r \in Revision : IdsUnique(canonical'[r])
    /\ exempt \subseteq exempt' /\ exempt' \subseteq Quote
    /\ edited \subseteq edited' /\ edited' \subseteq Revision
    /\ \A r \in Revision : IsSent(r) => r \in edited' \/ canonical'[r] = canonical[r]
    /\ \A q \in Quote : /\ q \notin ds => quotes'[q] = quotes[q]
                        /\ \/ quotes'[q].currentRevision = quotes[q].currentRevision
                           \/ /\ quotes'[q].currentRevision \in Revision
                              /\ Exists(quotes'[q].currentRevision)
                        /\ q \in exempt' \/ quotes'[q].status = quotes[q].status
    /\ DOMAIN tx' = Worker
    /\ \A u \in Worker : tx'[u] = Later(tx[u], ds) /\ (u # w => Wrote(u) \cap ds = {})

LEMMA EditedRight ==
    ASSUME IInv, NEW w \in Worker, NEW ds \in SUBSET Doc, Edited(w, ds)
    PROVE  IInv'
<1>1. tx[w] = Closed /\ task' = [task EXCEPT ![w] = Idle]
  BY IdleClosed DEF Edited
<1>2. tx'[w] = Closed
  BY <1>1 DEF Edited, Later
<1>3. \A r \in Revision : (Exists(r)' <=> Exists(r)) /\ (IsSent(r)' <=> IsSent(r))
  BY DEF Edited, Exists, IsSent
<1>4. \A q \in Quote : quotes[q].currentRevision # NoRevision =>
         quotes'[q].currentRevision # NoRevision
  BY QuoteAssumption DEF Edited
<1>5. Step(w, ds)
  BY <1>3, <1>4 DEF Edited, Step
<1>6. Beside(w, Idle)
  <2>1. SentStay
    BY <1>3 DEF SentStay, Edited
  <2>2. OrdersStep(w, Idle)
    BY IdleIs, NoOrderStep DEF Edited
  <2>3. Decides(w)
    BY QuoteAssumption DEF Decides, Edited
  <2> QED BY <2>1, <2>2, <2>3 DEF Beside
<1>7. Documents'
  BY DEF Edited, IInv, TypeOK, Documents
<1>8. CurrentExists'
  <2> SUFFICES ASSUME NEW q \in Quote, quotes'[q].currentRevision # NoRevision
               PROVE  revisions'[quotes'[q].currentRevision].status # "NONE"
    BY DEF CurrentExists, Exists
  <2>1. PICK r : r = quotes'[q].currentRevision
    OBVIOUS
  <2>2. r \in Revision /\ Exists(r)
    BY <2>1 DEF Edited, IInv, TypeOK, QuoteDoc, CurrentExists
  <2> QED BY <1>3, <2>1, <2>2 DEF Exists
<1>9. OthersRejected'
  <2> SUFFICES ASSUME NEW p \in Newest, NEW q \in Newest, p # q,
                      quotes'[p].status = "ACCEPTED", {p, q} \cap exempt' = {}
               PROVE  quotes'[q].status = "REJECTED"
    BY DEF OthersRejected, Excluded, Newest
  <2>1. /\ quotes'[p].status = quotes[p].status /\ quotes'[q].status = quotes[q].status
        /\ {p, q} \cap exempt = {}
    BY NewestTyped DEF Edited
  <2> QED BY <2>1 DEF IInv, OthersRejected, Excluded
<1>10. WorkerRight(Idle, Closed)'
  BY IdleRightNext
<1>11. Idle \in Task /\ Closed \in Transaction \cup {Closed} /\ DOMAIN tx' = Worker
  BY IdleIs DEF Edited
<1> HIDE DEF Edited
<1> QED BY <1>1, <1>2, <1>5, <1>6, <1>7, <1>8, <1>9, <1>10, <1>11, StepRight

\* What is there before an edit.
LEMMA EditKnown ==
    ASSUME IInv, NEW w \in Worker, Edit(w)
    PROVE  /\ task[w] = Idle /\ UNCHANGED <<task, rfq, orders>>
           /\ calls' \in 0 .. MaxCalls /\ tx[w] = Closed
BY IdleClosed, CallsCounted DEF Edit

\* The transaction of an edit of document d, committed.
LEMMA EditCommitted ==
    ASSUME IInv, NEW w \in Worker, tx[w] = Closed, NEW d, Committed(w, {d}), Writable(w, d)
    PROVE  /\ DOMAIN tx' = Worker
           /\ \A u \in Worker : tx'[u] = Later(tx[u], {d}) /\ (u # w => Wrote(u) \cap {d} = {})
<1>1. \A u \in Worker : u # w => Wrote(u) \cap {d} = {}
  BY DEF Writable
<1>2. tx'[w] = Later(tx[w], {d})
  BY CommittedIs DEF Later
<1> QED BY <1>1, <1>2, CommittedIs

LEMMA SetCurrentRevisionRight ==
    ASSUME IInv, NEW w \in Worker, SetCurrentRevision(w)
    PROVE  IInv'
<1>1. PICK r \in Revision :
        /\ Edit(w) /\ Exists(r) /\ Writable(w, QuoteOf[r])
        /\ quotes' = [quotes EXCEPT ![QuoteOf[r]].currentRevision = r]
        /\ Committed(w, {QuoteOf[r]})
        /\ UNCHANGED <<revisions, canonical, exempt, edited>>
  BY DEF SetCurrentRevision
<1>2. PICK p : p = QuoteOf[r]
  OBVIOUS
<1>3. p \in Quote
  BY <1>2, QuoteAssumption
<1>4. /\ task[w] = Idle /\ UNCHANGED <<task, rfq, orders>>
      /\ calls' \in 0 .. MaxCalls /\ tx[w] = Closed
  BY <1>1, EditKnown
<1>5. /\ DOMAIN tx' = Worker
      /\ \A u \in Worker : tx'[u] = Later(tx[u], {p}) /\ (u # w => Wrote(u) \cap {p} = {})
  BY <1>1, <1>2, <1>4, EditCommitted
<1>6. /\ quotes' \in [Quote -> QuoteDoc]
      /\ \A q \in Quote : /\ q # p => quotes'[q] = quotes[q]
                          /\ quotes'[q].status = quotes[q].status
      /\ quotes'[p].currentRevision = r
  BY <1>1, <1>2, <1>3 DEF IInv, TypeOK, QuoteDoc
<1>7. PICK ds \in SUBSET Doc : ds = {p}
  BY <1>3 DEF Doc
<1>8. Edited(w, ds)
  <2>1. \A q \in Quote :
           \/ quotes'[q].currentRevision = quotes[q].currentRevision
           \/ /\ quotes'[q].currentRevision \in Revision
              /\ Exists(quotes'[q].currentRevision)
    BY <1>1, <1>4, <1>6
  <2>2. UNCHANGED <<revisions, canonical, exempt, edited>>
    BY <1>1
  <2> QED BY <1>4, <1>5, <1>6, <1>7, <2>1, <2>2 DEF Edited, IInv, TypeOK
<1> QED BY <1>8, EditedRight

LEMMA UpdateQuoteStatusRight ==
    ASSUME IInv, NEW w \in Worker, UpdateQuoteStatus(w)
    PROVE  IInv'
<1>1. PICK p \in Quote, status \in {"ACTIVE", "ACCEPTED", "REJECTED"} :
        /\ Edit(w) /\ Writable(w, p)
        /\ quotes' = [quotes EXCEPT ![p].status = status]
        /\ exempt' = exempt \cup {p}
        /\ Committed(w, {p})
        /\ UNCHANGED <<revisions, canonical, edited>>
  BY DEF UpdateQuoteStatus
<1>2. /\ task[w] = Idle /\ UNCHANGED <<task, rfq, orders>>
      /\ calls' \in 0 .. MaxCalls /\ tx[w] = Closed
  BY <1>1, EditKnown
<1>3. /\ DOMAIN tx' = Worker
      /\ \A u \in Worker : tx'[u] = Later(tx[u], {p}) /\ (u # w => Wrote(u) \cap {p} = {})
  BY <1>1, <1>2, EditCommitted
<1>4. /\ quotes' \in [Quote -> QuoteDoc]
      /\ \A q \in Quote : /\ q # p => quotes'[q] = quotes[q]
                          /\ quotes'[q].currentRevision = quotes[q].currentRevision
  BY <1>1 DEF IInv, TypeOK, QuoteDoc
<1>5. PICK ds \in SUBSET Doc : ds = {p}
  BY DEF Doc
<1>6. Edited(w, ds)
  BY <1>1, <1>2, <1>3, <1>4, <1>5 DEF Edited, IInv, TypeOK
<1> QED BY <1>6, EditedRight

LEMMA EditLineItemRight ==
    ASSUME IInv, NEW w \in Worker, EditLineItem(w)
    PROVE  IInv'
<1>1. PICK r \in Revision : \E l \in canonical[r] :
        /\ Edit(w)
        /\ \E n \in Quantity, b \in BOOLEAN :
              \E new \in {{}, {[l EXCEPT !.quantity = n, !.priced = b]}} :
                  canonical' = [canonical EXCEPT ![r] = (@ \ {l}) \cup new]
        /\ UNCHANGED <<quotes, revisions, exempt, tx>>
        /\ NoteEdit(r)
  BY DEF EditLineItem
<1>2. PICK l \in canonical[r] :
        /\ Edit(w)
        /\ \E n \in Quantity, b \in BOOLEAN :
              \E new \in {{}, {[l EXCEPT !.quantity = n, !.priced = b]}} :
                  canonical' = [canonical EXCEPT ![r] = (@ \ {l}) \cup new]
        /\ UNCHANGED <<quotes, revisions, exempt, tx>>
        /\ NoteEdit(r)
  BY <1>1
<1>3. PICK n \in Quantity, b \in BOOLEAN :
        \E new \in {{}, {[l EXCEPT !.quantity = n, !.priced = b]}} :
            canonical' = [canonical EXCEPT ![r] = (@ \ {l}) \cup new]
  BY <1>2
<1>4. PICK k : k = [l EXCEPT !.quantity = n, !.priced = b]
  OBVIOUS
<1>5. PICK new \in {{}, {k}} : canonical' = [canonical EXCEPT ![r] = (@ \ {l}) \cup new]
  BY <1>3, <1>4
<1>6. l \in Line /\ canonical[r] \in SUBSET Line /\ IdsUnique(canonical[r])
  BY DEF IInv, TypeOK
<1>7. k \in Line /\ k.id = l.id
  BY <1>6, <1>4 DEF Line
<1>8. PICK items : items = (canonical[r] \ {l}) \cup new
  OBVIOUS
<1>9. items \in SUBSET Line /\ IdsUnique(items)
  BY <1>6, <1>7, <1>8 DEF IdsUnique
<1>10. /\ canonical' \in [Revision -> SUBSET Line] /\ canonical'[r] = items
      /\ \A s \in Revision : s # r => canonical'[s] = canonical[s]
  BY <1>5, <1>8, <1>9 DEF IInv, TypeOK
<1>11. /\ task[w] = Idle /\ UNCHANGED <<task, rfq, orders>>
      /\ calls' \in 0 .. MaxCalls
  BY <1>2, EditKnown
<1>12. DOMAIN tx' = Worker /\ \A u \in Worker : tx'[u] = Later(tx[u], {})
  BY <1>2, UnchangedIs
<1>13. PICK ds \in SUBSET Doc : ds = {}
  OBVIOUS
<1>14. Edited(w, ds)
  <2>1. \A s \in Revision : IdsUnique(canonical'[s])
    BY <1>9, <1>10 DEF IInv, TypeOK
  <2>2. /\ edited \subseteq edited' /\ edited' \subseteq Revision
        /\ \A s \in Revision : IsSent(s) => s \in edited' \/ canonical'[s] = canonical[s]
    BY <1>2, <1>10, NotedEdit DEF IInv, TypeOK
  <2>3. UNCHANGED <<quotes, revisions, exempt>>
    BY <1>2
  <2> QED BY <1>10, <1>11, <1>12, <1>13, <2>1, <2>2, <2>3 DEF Edited, IInv, TypeOK
<1> QED BY <1>14, EditedRight
-------------------------------------------------------------------------------
(***************************************************************************)
(* The orders of an acceptance.                                            *)
(***************************************************************************)
OrderStep(w, o, t) ==
    /\ task' = [task EXCEPT ![w] = t]
    /\ UNCHANGED <<quotes, revisions, canonical, rfq, exempt, edited, tx, calls>>
    /\ t.op = o.op /\ t.quote = o.quote /\ t.revision = o.revision /\ t.promote = o.promote
    /\ t.lines = o.lines /\ t.wasSent = o.wasSent
    /\ t.step \in Ordering \cup {"again"}

LEMMA OrderStepIs ==
    ASSUME IInv, NEW w \in Worker, NEW o, NEW t, OrderStep(w, o, t)
    PROVE  Step(w, {}) /\ SentStay /\ task'[w] = t
<1>1. UNCHANGED <<quotes, revisions, canonical, rfq, exempt, edited, tx, calls>>
      /\ task' = [task EXCEPT ![w] = t]
  BY DEF OrderStep
<1>2. DOMAIN tx' = Worker /\ (\A u \in Worker : tx'[u] = Later(tx[u], {}))
  BY <1>1, UnchangedIs
<1>3. Step(w, {}) /\ SentStay
  BY <1>1, <1>2 DEF Step, SentStay, IInv, TypeOK, Exists, IsSent
<1> QED BY <1>1, <1>3 DEF IInv, TypeOK

LEMMA OrderStepRight ==
    ASSUME IInv, NEW w \in Worker, NEW o, o = task[w], o.step \in Ordering,
           NEW t \in Task, OrderStep(w, o, t), OrdersStep(w, t), orders' \in Seq(Order),
           OrdersRight(t)'
    PROVE  IInv'
<1>1. PICK v : v = tx[w]
  OBVIOUS
<1>2. o \in Task /\ RequestRight(o, v)
  BY <1>1, Known
<1>3. Accepts(o) /\ v = Closed
  BY <1>2, StepTells DEF Open, Ordering
<1>4. UNCHANGED <<quotes, revisions, canonical, rfq, exempt, edited, tx, calls>>
      /\ task' = [task EXCEPT ![w] = t]
  BY DEF OrderStep
<1>5. DOMAIN tx' = Worker /\ tx'[w] = Closed
  BY <1>1, <1>3, <1>4, UnchangedIs
<1>6. Step(w, {}) /\ SentStay
  BY OrderStepIs
<1>7. Beside(w, t)
  BY <1>4, <1>6 DEF Beside, Decides
<1>8. Documents'
  BY <1>4 DEF IInv, TypeOK, Documents
<1>9. CurrentExists' /\ OthersRejected'
  BY <1>4, CurrentSame DEF Exists
<1>10. RequestRight(t, Closed)'
  BY <1>2, <1>3, <1>4 DEF RequestRight, OrderStep, Accepts, Exists, Checked, Open, Ordering
<1>11. t.step \notin Checked
  BY DEF OrderStep, Ordering, Checked, Open
<1>12. WorkerRight(t, Closed)'
  BY <1>10, <1>11 DEF WorkerRight, SnapshotRight, SendingRight, AcceptingRight,
       ContractRight, DecisionRight, Past, Checked
<1>13. {} \in SUBSET Doc /\ Closed \in Transaction \cup {Closed}
  OBVIOUS
<1> HIDE DEF OrderStep
<1> QED BY <1>4, <1>5, <1>6, <1>7, <1>8, <1>9, <1>12, <1>13, StepRight

\* What an ordering request has, next to the orders.
LEMMA OrderKnown ==
    ASSUME IInv, NEW w \in Worker, NEW o, o = task[w], o.step \in Ordering
    PROVE  /\ o \in Task /\ Accepts(o) /\ o.quote \in Quote /\ o.revision \in Revision
           /\ o.lines \in SUBSET Line /\ o.pending \in SUBSET Line
           /\ OrdersRight(o) /\ AsSent(o, o.revision)
<1>1. PICK v : v = tx[w]
  OBVIOUS
<1>2. o \in Task /\ RequestRight(o, v) /\ OrdersRight(o)
  BY <1>1, Known DEF WorkerRight
<1>3. Accepts(o) /\ o.quote \in Quote /\ o.revision \in Revision
  BY <1>2, StepTells DEF Ordering
<1>4. o.lines \in SUBSET Line /\ o.pending \in SUBSET Line
  BY <1>2 DEF Task
<1>5. AsSent(o, o.revision)
  BY <1>2, <1>3 DEF OrdersRight
<1> QED BY <1>2, <1>3, <1>4, <1>5

LEMMA OrderedTyped ==
    ASSUME NEW lines \in SUBSET Line, NEW kind
    PROVE  Ordered(kind, lines) \in SUBSET Line
<1> SUFFICES ASSUME NEW k \in Ordered(kind, lines) PROVE k \in Line
  OBVIOUS
<1>1. PICK l \in lines : k = IF l.type = "RENTAL" THEN [l EXCEPT !.quantity = 1] ELSE l
  BY DEF Ordered
<1> QED BY <1>1 DEF Line

LEMMA AfterOrderIs ==
    ASSUME NEW kind \in {"SO", "PO"}, NEW q
    PROVE  /\ AfterOrder(kind, q) \in {"PO", "again"}
           /\ AfterOrder(kind, q) = "PO" <=> kind = "SO" /\ q \in WithBuyer
BY DEF AfterOrder

\* The same orders, for the same quote and lines.
LEMMA DoneSame ==
    ASSUME NEW o, NEW t, t.quote = o.quote, t.lines = o.lines, NEW n, NEW kind, NEW r,
           Done(n, kind, r, o)'
    PROVE  Done(n, kind, r, t)'
BY DEF Done, Filled

LEMMA AsSentSame ==
    ASSUME NEW w \in Worker, NEW o, NEW t, OrderStep(w, o, t), NEW r, AsSent(o, r)
    PROVE  AsSent(t, r)'
BY DEF OrderStep, AsSent, IsSent, Items

(***************************************************************************)
(* The order of a kind is being filled at t.order, or has been: a purchase *)
(* order comes after the sales order.                                      *)
(***************************************************************************)
After(kind, t) ==
    kind = "PO" => \E m \in Nat : m < t.order /\ Done(m, "SO", t.revision, t)

LEMMA Unfinished ==
    ASSUME NEW t, NEW kind \in {"SO", "PO"}, t.step = FillingOrder(kind),
           AsSent(t, t.revision)', Half(kind, t)', After(kind, t)'
    PROVE  OrdersRight(t)'
<1>1. t.step = IF kind = "SO" THEN "fillSO" ELSE "fillPO"
  BY DEF FillingOrder
<1>2. t.step = "fillPO" => \E n \in Nat : n < t.order /\ Done(n, "SO", t.revision, t)'
  BY <1>1 DEF After
<1> QED BY <1>1, <1>2 DEF OrdersRight, Ordering, Checked, Open

LEMMA Finished ==
    ASSUME NEW t \in Task, t.revision \in Revision, NEW kind \in {"SO", "PO"},
           t.step = AfterOrder(kind, t.quote),
           AsSent(t, t.revision)', Done(t.order, kind, t.revision, t)', After(kind, t)'
    PROVE  OrdersRight(t)'
<1>1. PICK k \in Nat : k = t.order
  BY DEF Task
<1>2. CASE t.step = "PO"
  <2>1. kind = "SO"
    BY <1>2, AfterOrderIs
  <2>2. \E n \in Nat : Done(n, "SO", t.revision, t)'
    BY <1>1, <2>1
  <2> QED BY <1>2, <2>2 DEF OrdersRight, Ordering, Checked, Open
<1>3. CASE t.step = "again"
  <2>1. Made(t)'
    <3>1. CASE kind = "SO"
      <4>1. t.quote \notin WithBuyer
        BY <1>3, <3>1, AfterOrderIs
      <4>2. Done(k, "SO", t.revision, t)'
        BY <1>1, <3>1
      <4> QED BY <4>1, <4>2 DEF Made
    <3>2. CASE kind = "PO"
      <4>1. PICK n \in Nat : n < k /\ Done(n, "SO", t.revision, t)'
        BY <1>1, <3>2 DEF After
      <4>2. k > n /\ Done(k, "PO", t.revision, t)'
        BY <1>1, <3>2, <4>1
      <4> QED BY <4>1, <4>2 DEF Made
    <3> QED BY <3>1, <3>2
  <2> QED BY <1>3, <2>1 DEF OrdersRight, Ordering
<1> QED BY <1>2, <1>3, AfterOrderIs

LEMMA CreateOrderRight ==
    ASSUME IInv, NEW w \in Worker, NEW kind \in {"SO", "PO"}, CreateOrder(w, kind)
    PROVE  IInv'
<1>1. PICK o : o = task[w]
  OBVIOUS
<1>2. o.step = kind /\ o.step \in Ordering
  BY <1>1 DEF CreateOrder, At, Ordering
<1>3. /\ o \in Task /\ Accepts(o) /\ o.quote \in Quote /\ o.revision \in Revision
      /\ o.lines \in SUBSET Line /\ OrdersRight(o) /\ AsSent(o, o.revision)
  BY <1>1, <1>2, OrderKnown
<1>4. PICK lines : lines = Ordered(kind, o.lines)
  OBVIOUS
<1>5. lines \in SUBSET Line
  BY <1>3, <1>4, OrderedTyped
<1>6. PICK d : d = [kind |-> kind, quote |-> o.quote, revision |-> o.revision, lines |-> {}]
  OBVIOUS
<1>7. d \in Order
  BY <1>3, <1>6 DEF Order
<1>8. PICK k : k = Len(orders) + 1
  OBVIOUS
<1>9. orders' = Append(orders, d) /\ orders \in Seq(Order)
  BY <1>1, <1>6 DEF CreateOrder, IInv, TypeOK
<1>10. /\ orders' \in Seq(Order) /\ k \in Nat /\ k \notin DOMAIN orders
       /\ DOMAIN orders' = DOMAIN orders \cup {k}
       /\ orders'[k] = d /\ \A n \in DOMAIN orders : orders'[n] = orders[n] /\ n < k
  BY <1>7, <1>8, <1>9
<1>11. PICK s : s = IF lines = {} THEN AfterOrder(kind, o.quote) ELSE FillingOrder(kind)
  OBVIOUS
<1>12. s \in {"fillSO", "fillPO", "PO", "again"}
       /\ (s \in {"fillSO", "fillPO"} => lines # {})
  BY <1>11, AfterOrderIs DEF FillingOrder
<1>13. PICK t : t = [o EXCEPT !.order = k, !.pending = lines, !.step = s]
  OBVIOUS
<1>14. /\ t \in Task /\ t.op = o.op /\ t.step = s /\ t.quote = o.quote
       /\ t.revision = o.revision /\ t.promote = o.promote /\ t.lines = o.lines
       /\ t.wasSent = o.wasSent /\ t.order = k /\ t.pending = lines
  BY <1>3, <1>5, <1>10, <1>12, <1>13 DEF Task
<1>15. UNCHANGED <<quotes, revisions, canonical, rfq, exempt, edited, tx, calls>>
       /\ task' = [task EXCEPT ![w] = t]
  BY <1>1, <1>4, <1>8, <1>11, <1>13 DEF CreateOrder, Become
<1>16. OrderStep(w, o, t)
  BY <1>12, <1>14, <1>15 DEF OrderStep, Ordering
<1>17. Step(w, {}) /\ SentStay /\ task'[w] = t
  BY <1>16, OrderStepIs
<1>18. OrdersStep(w, t)
  BY <1>10, <1>14 DEF OrdersStep
<1>19. AsSent(t, t.revision)'
  BY <1>3, <1>14, <1>16, AsSentSame
<1>20. Filled(k, kind, t.revision, t, {})'
  BY <1>6, <1>10, <1>14 DEF Filled
<1>21. After(kind, t)'
  <2> SUFFICES ASSUME kind = "PO"
               PROVE  \E m \in Nat : m < k /\ Done(m, "SO", t.revision, t)'
    BY <1>14 DEF After
  <2>1. PICK n \in Nat : Done(n, "SO", o.revision, o)
    BY <1>2, <1>3 DEF OrdersRight
  <2>2. n < k
    BY <1>10, <2>1 DEF Done, Kept
  <2>3. Done(n, "SO", o.revision, o)'
    BY <1>17, <1>18, <2>1, DoneStays
  <2>4. Done(n, "SO", o.revision, t)'
    BY <1>14, <2>3, DoneSame
  <2> QED BY <1>14, <2>2, <2>4
<1>22. OrdersRight(t)'
  <2>1. CASE lines # {}
    <3>1. t.step = FillingOrder(kind)
      BY <1>11, <1>14, <2>1
    <3>2. t.pending = Ordered(kind, t.lines) /\ Ordered(kind, t.lines) \ t.pending = {}
      BY <1>4, <1>14
    <3>3. Half(kind, t)'
      BY <1>14, <1>20, <3>2 DEF Half
    <3> QED BY <1>19, <1>21, <3>1, <3>3, Unfinished
  <2>2. CASE lines = {}
    <3>1. t.step = AfterOrder(kind, t.quote)
      BY <1>11, <1>14, <2>2
    <3>2. ~Filling(t)
      BY <1>12, <1>14, <2>2 DEF Filling
    <3>3. Kept(k)'
      <4>1. ASSUME NEW u \in Worker, Filling(task'[u]) PROVE task'[u].order # k
        <5>1. u # w
          BY <1>17, <3>2, <4>1
        <5>2. task'[u] = task[u] /\ task[u].order \in DOMAIN orders
          BY <1>17, <4>1, <5>1 DEF Step, IInv, FillersApart
        <5> QED BY <1>10, <5>2
      <4> QED BY <1>10, <4>1 DEF Kept, Filling
    <3>4. Ordered(kind, t.lines) = {}
      BY <1>4, <1>14, <2>2
    <3>5. Done(t.order, kind, t.revision, t)'
      BY <1>14, <1>20, <3>3, <3>4 DEF Done
    <3>6. t.revision \in Revision
      BY <1>3, <1>14
    <3> QED BY <1>14, <1>19, <1>21, <3>1, <3>5, <3>6, Finished
  <2> QED BY <2>1, <2>2
<1> QED BY <1>1, <1>2, <1>10, <1>14, <1>16, <1>18, <1>22, OrderStepRight

AddedTo(s, n, l) == [s EXCEPT ![n].lines = @ \cup {l}]

LEMMA AddedIs ==
    ASSUME NEW s \in Seq(Order), NEW n \in DOMAIN s, NEW l \in Line, NEW s1, s1 = AddedTo(s, n, l)
    PROVE  /\ s1 \in Seq(Order) /\ DOMAIN s1 = DOMAIN s
           /\ \A m \in DOMAIN s : m # n => s1[m] = s[m]
           /\ s1[n] = [s[n] EXCEPT !.lines = s[n].lines \cup {l}]
<1>1. DOMAIN s = 1 .. Len(s)
  OBVIOUS
<1>2. s[n] \in Order
  BY <1>1
<1>3. [s[n] EXCEPT !.lines = s[n].lines \cup {l}] \in Order
  BY <1>2 DEF Order
<1>4. PICK d \in Order : d = [s[n] EXCEPT !.lines = s[n].lines \cup {l}]
  BY <1>3
<1>5. s1 = [s EXCEPT ![n] = d]
  BY <1>4 DEF AddedTo
<1> QED BY <1>1, <1>4, <1>5

\* One line item of the order is written; what is left is t's.
LEMMA LineItemFilled ==
    ASSUME NEW o, NEW t, NEW kind, orders \in Seq(Order), Half(kind, o),
           NEW l \in Line, l \in o.pending,
           orders' = AddedTo(orders, o.order, l),
           t.quote = o.quote, t.revision = o.revision, t.lines = o.lines,
           t.order = o.order, t.pending = o.pending \ {l}
    PROVE  /\ orders' \in Seq(Order) /\ DOMAIN orders' = DOMAIN orders
           /\ \A m \in DOMAIN orders : m # o.order => orders'[m] = orders[m]
           /\ Half(kind, t)'
<1>1. PICK s1 : s1 = orders'
  OBVIOUS
<1>2. PICK all : all = Ordered(kind, o.lines)
  OBVIOUS
<1>3. PICK ls : ls = all \ o.pending
  OBVIOUS
<1>4. /\ o.pending \subseteq all /\ o.order \in DOMAIN orders
      /\ orders[o.order] =
            [kind |-> kind, quote |-> o.quote, revision |-> o.revision, lines |-> ls]
  BY <1>2, <1>3 DEF Half, Filled
<1>5. /\ s1 \in Seq(Order) /\ DOMAIN s1 = DOMAIN orders
      /\ \A m \in DOMAIN orders : m # o.order => s1[m] = orders[m]
      /\ s1[o.order] = [orders[o.order] EXCEPT !.lines = orders[o.order].lines \cup {l}]
  <2>1. s1 = AddedTo(orders, o.order, l)
    BY <1>1
  <2> QED BY <1>4, <2>1, AddedIs
<1>6. s1[o.order] = [kind |-> kind, quote |-> o.quote, revision |-> o.revision,
                     lines |-> ls \cup {l}]
  <2>1. PICK d : d = orders[o.order]
    OBVIOUS
  <2>2. d = [kind |-> kind, quote |-> o.quote, revision |-> o.revision, lines |-> ls]
    BY <1>4, <2>1
  <2>3. s1[o.order] = [d EXCEPT !.lines = d.lines \cup {l}]
    BY <1>5, <2>1
  <2>4. d.lines = ls
    BY <2>2
  <2> QED BY <2>2, <2>3, <2>4
<1>7. t.pending \subseteq all /\ all \ t.pending = ls \cup {l}
  BY <1>3, <1>4
<1>8. Filled(t.order, kind, t.revision, t, all \ t.pending)'
  BY <1>1, <1>4, <1>5, <1>6, <1>7 DEF Filled
<1>9. Half(kind, t)'
  BY <1>2, <1>7, <1>8 DEF Half
<1> QED BY <1>1, <1>5, <1>9

LEMMA CreateLineItemRight ==
    ASSUME IInv, NEW w \in Worker, NEW kind \in {"SO", "PO"}, CreateLineItem(w, kind)
    PROVE  IInv'
<1>1. PICK o : o = task[w]
  OBVIOUS
<1>2. /\ o.step = FillingOrder(kind) /\ o.step \in Ordering /\ Filling(o)
      /\ o.step = IF kind = "SO" THEN "fillSO" ELSE "fillPO"
  BY <1>1 DEF CreateLineItem, At, Ordering, Filling, FillingOrder
<1>3. /\ o \in Task /\ Accepts(o) /\ o.quote \in Quote /\ o.revision \in Revision
      /\ o.lines \in SUBSET Line /\ o.pending \in SUBSET Line
      /\ OrdersRight(o) /\ AsSent(o, o.revision)
  BY <1>1, <1>2, OrderKnown
<1>4. Half(kind, o)
  BY <1>2, <1>3 DEF OrdersRight
<1>5. kind = "PO" => \E n \in Nat : n < o.order /\ Done(n, "SO", o.revision, o)
  BY <1>2, <1>3 DEF OrdersRight
<1>6. PICK l \in o.pending :
        /\ orders' = [orders EXCEPT ![o.order].lines = @ \cup {l}]
        /\ Become(w, [o EXCEPT !.pending = @ \ {l},
                         !.step = IF o.pending = {l} THEN AfterOrder(kind, o.quote) ELSE @])
        /\ UNCHANGED <<quotes, revisions, canonical, rfq, exempt, edited, tx>>
  BY <1>1 DEF CreateLineItem
<1>7. PICK s : s = IF o.pending = {l} THEN AfterOrder(kind, o.quote) ELSE o.step
  OBVIOUS
<1>8. s \in Ordering \cup {"again"}
  BY <1>2, <1>7, AfterOrderIs DEF Ordering
<1>9. PICK t : t = [o EXCEPT !.pending = o.pending \ {l}, !.step = s]
  OBVIOUS
<1>10. /\ t \in Task /\ t.op = o.op /\ t.step = s /\ t.quote = o.quote
       /\ t.revision = o.revision /\ t.promote = o.promote /\ t.lines = o.lines
       /\ t.wasSent = o.wasSent /\ t.order = o.order /\ t.pending = o.pending \ {l}
  BY <1>3, <1>8, <1>9 DEF Task, Ordering
<1>11. UNCHANGED <<quotes, revisions, canonical, rfq, exempt, edited, tx, calls>>
       /\ task' = [task EXCEPT ![w] = t]
  <2>1. t = [o EXCEPT !.pending = @ \ {l},
                 !.step = IF o.pending = {l} THEN AfterOrder(kind, o.quote) ELSE @]
    <3>1. CASE o.pending = {l}
      BY <1>3, <1>7, <1>9, <3>1 DEF Task
    <3>2. CASE o.pending # {l}
      BY <1>3, <1>7, <1>9, <3>2 DEF Task
    <3> QED BY <3>1, <3>2
  <2> QED BY <1>6, <2>1 DEF Become
<1>12. OrderStep(w, o, t)
  BY <1>8, <1>10, <1>11 DEF OrderStep
<1>13. Step(w, {}) /\ SentStay /\ task'[w] = t
  BY <1>12, OrderStepIs
<1>14. /\ orders' \in Seq(Order) /\ DOMAIN orders' = DOMAIN orders
       /\ \A m \in DOMAIN orders : m # o.order => orders'[m] = orders[m]
       /\ Half(kind, t)'
  <2>1. orders \in Seq(Order) /\ l \in Line
    BY <1>3, <1>6 DEF IInv, TypeOK
  <2>2. orders' = AddedTo(orders, o.order, l)
    BY <1>6 DEF AddedTo
  <2> QED BY <1>4, <1>10, <2>1, <2>2, LineItemFilled
<1>15. OrdersStep(w, t)
  BY <1>1, <1>2, <1>10, <1>14 DEF OrdersStep
<1>16. AsSent(t, t.revision)'
  BY <1>3, <1>10, <1>12, AsSentSame
<1>17. After(kind, t)'
  <2> SUFFICES ASSUME kind = "PO"
               PROVE  \E m \in Nat : m < t.order /\ Done(m, "SO", t.revision, t)'
    BY DEF After
  <2>1. PICK n \in Nat : n < o.order /\ Done(n, "SO", o.revision, o)
    BY <1>5
  <2>2. Done(n, "SO", o.revision, o)'
    BY <1>13, <1>15, <2>1, DoneStays
  <2>3. Done(n, "SO", o.revision, t)'
    BY <1>10, <2>2, DoneSame
  <2> QED BY <1>10, <2>1, <2>3
<1>18. OrdersRight(t)'
  <2>1. CASE o.pending # {l}
    <3>1. t.step = FillingOrder(kind)
      BY <1>2, <1>7, <1>10, <2>1
    <3> QED BY <1>14, <1>16, <1>17, <3>1, Unfinished
  <2>2. CASE o.pending = {l}
    <3>1. t.step = AfterOrder(kind, t.quote)
      BY <1>7, <1>10, <2>2
    <3>2. ~Filling(t)
      BY <3>1, AfterOrderIs DEF Filling
    <3>3. Kept(t.order)'
      <4>1. ASSUME NEW u \in Worker, Filling(task'[u]) PROVE task'[u].order # o.order
        <5>1. u # w
          BY <1>13, <3>2, <4>1
        <5>2. task'[u] = task[u]
          BY <1>13, <5>1 DEF Step
        <5> QED BY <1>1, <1>2, <4>1, <5>1, <5>2 DEF IInv, FillersApart
      <4>2. o.order \in DOMAIN orders'
        BY <1>4, <1>14 DEF Half, Filled
      <4> QED BY <1>10, <4>1, <4>2 DEF Kept, Filling
    <3>4. t.pending = {}
      BY <1>10, <2>2
    <3>5. Done(t.order, kind, t.revision, t)'
      <4>1. Filled(t.order, kind, t.revision, t, Ordered(kind, t.lines) \ t.pending)'
        BY <1>14 DEF Half
      <4>2. Ordered(kind, t.lines) \ t.pending = Ordered(kind, t.lines)
        BY <3>4
      <4> QED BY <3>3, <4>1, <4>2 DEF Done
    <3>6. t.revision \in Revision
      BY <1>3, <1>10
    <3> QED BY <1>10, <1>16, <1>17, <3>1, <3>5, <3>6, Finished
  <2> QED BY <2>1, <2>2
<1> QED BY <1>1, <1>2, <1>10, <1>12, <1>14, <1>15, <1>18, OrderStepRight
-------------------------------------------------------------------------------
(***************************************************************************)
(* Decisions: the request for quotes, a rejection, a commit.               *)
(***************************************************************************)
LEMMA UpdateRFQRight ==
    ASSUME IInv, NEW w \in Worker, UpdateRFQ(w)
    PROVE  IInv'
<1>1. PICK o : o = task[w]
  OBVIOUS
<1>2. PICK v : v = tx[w]
  OBVIOUS
<1>3. o \in Task /\ RequestRight(o, v) /\ o.step = "rfq" /\ WorkerRight(o, v)
      /\ v \in Transaction \cup {Closed}
  BY <1>1, <1>2, Known DEF UpdateRFQ, At
<1>4. Accepts(o) /\ v # Closed
  BY <1>3, StepTells DEF Open
<1>5. PICK t : t = [o EXCEPT !.step = "active"]
  OBVIOUS
<1>6. t \in Task /\ t.step = "active" /\ SameRequest(o, t) /\ ~Filling(t)
  BY <1>3, <1>5 DEF Task, SameRequest, Filling
<1>7. /\ rfq' = "ACCEPTED" /\ task' = [task EXCEPT ![w] = t]
      /\ UNCHANGED <<quotes, revisions, canonical, orders, exempt, edited, tx, calls>>
  BY <1>1, <1>5 DEF UpdateRFQ, Goto, Become
<1>8. DOMAIN tx' = Worker /\ (\A u \in Worker : tx'[u] = Later(tx[u], {})) /\ tx'[w] = v
  BY <1>2, <1>7, UnchangedIs
<1>9. Step(w, {}) /\ task'[w] = t
  BY <1>7, <1>8 DEF Step, IInv, TypeOK, Exists
<1>10. Beside(w, t)
  <2>1. SentStay /\ Decides(w)
    BY <1>7 DEF SentStay, Decides, IsSent
  <2>2. OrdersStep(w, t)
    BY <1>6, <1>7, NoOrderStep
  <2> QED BY <2>1, <2>2 DEF Beside
<1>11. Documents'
  BY <1>7 DEF IInv, TypeOK, Documents
<1>12. CurrentExists' /\ OthersRejected'
  BY <1>7, CurrentSame DEF Exists
<1>13. RequestRight(t, v)'
  BY <1>3, <1>4, <1>6, <1>7
     DEF RequestRight, Accepts, Checked, Open, Ordering, SameRequest, Exists
<1>14. SnapshotRight(v)' /\ SendingRight(t, v)' /\ AcceptingRight(t, v)'
  <2>1. SnapshotRight(v) /\ AcceptingRight(o, v)
    BY <1>3 DEF WorkerRight
  <2>2. SnapshotRight(v)'
    BY <1>7, <2>1 DEF SnapshotRight
  <2>3. SendingRight(t, v)'
    BY <1>4, <1>6 DEF SendingRight, SameRequest, Accepts
  <2>4. AcceptingRight(t, v)'
    BY <1>3, <1>4, <1>6, <1>7, <2>1 DEF AcceptingRight, SameRequest, Accepts
  <2> QED BY <2>2, <2>3, <2>4
<1>15. ContractRight(t) /\ OrdersRight(t)
  BY <1>3, <1>4, <1>6, CheckedOn DEF WorkerRight, Open
<1>16. ContractRight(t)'
  BY <1>7, <1>15 DEF ContractRight, IsSent
<1>17. OrdersRight(t)'
  <2>1. RequestRight(t, v)
    BY <1>3, <1>4, <1>6 DEF RequestRight, Accepts, Checked, Open, Ordering, SameRequest
  <2>2. OrdersStep(w, task'[w]) /\ SentStay /\ FillersApart
    BY <1>9, <1>10 DEF Beside, IInv
  <2> QED BY <1>6, <1>9, <1>15, <2>1, <2>2, OrdersStay
<1>18. DecisionRight(t, v)'
  <2>1. DecisionRight(o, v)
    BY <1>3 DEF WorkerRight
  <2>2. DecisionRight(t, v)
    BY <1>3, <1>6, <2>1, DecisionOn DEF Checked, Open
  <2> QED BY <1>7, <2>2 DEF DecisionRight, Settled, Excluded
<1>19. WorkerRight(t, v)'
  BY <1>13, <1>14, <1>16, <1>17, <1>18 DEF WorkerRight
<1>20. {} \in SUBSET Doc /\ \A u \in Worker : u # w => Wrote(u) \cap (v.wrote \cup v.sent) = {}
  BY <1>2, <1>4, OthersWrote
<1> QED BY <1>3, <1>6, <1>7, <1>8, <1>9, <1>10, <1>11, <1>12, <1>19, <1>20, StepRight

\* w ends with what it wrote to ds committed.
LEMMA EndsRight ==
    ASSUME IInv, NEW w \in Worker, NEW ds \in SUBSET Doc, Committed(w, ds), Become(w, Idle),
           Step(w, ds), Beside(w, Idle), Documents', CurrentExists', OthersRejected'
    PROVE  IInv'
<1>1. DOMAIN tx' = Worker /\ tx'[w] = Closed
  BY CommittedIs
<1>2. task' = [task EXCEPT ![w] = Idle]
  BY DEF Become
<1>3. WorkerRight(Idle, Closed)'
  BY IdleRightNext
<1>4. Idle \in Task /\ Closed \in Transaction \cup {Closed}
  BY IdleIs
<1> QED BY <1>1, <1>2, <1>3, <1>4, StepRight

LEMMA WriteRejectionRight ==
    ASSUME IInv, NEW w \in Worker, WriteRejection(w)
    PROVE  IInv'
<1>1. PICK o : o = task[w]
  OBVIOUS
<1>2. PICK v : v = tx[w]
  OBVIOUS
<1>3. o \in Task /\ RequestRight(o, v) /\ o.step = "reject"
  BY <1>1, <1>2, Known DEF WriteRejection, At
<1>4. PICK p \in Quote : p = o.quote
  BY <1>3, StepTells
<1>5. /\ Writable(w, p) /\ quotes' = [quotes EXCEPT ![p].status = "REJECTED"]
      /\ Committed(w, {p}) /\ Become(w, Idle)
      /\ UNCHANGED <<revisions, canonical, rfq, orders, exempt, edited>>
  BY <1>1, <1>4 DEF WriteRejection
<1>6. /\ quotes' \in [Quote -> QuoteDoc] /\ quotes'[p].status = "REJECTED"
      /\ \A q \in Quote : /\ q # p => quotes'[q] = quotes[q]
                          /\ quotes'[q].currentRevision = quotes[q].currentRevision
  BY <1>5 DEF IInv, TypeOK, QuoteDoc
<1>7. PICK ds \in SUBSET Doc : ds = {p}
  BY DEF Doc
<1>8. /\ \A u \in Worker \ {w} : tx'[u] = Later(tx[u], ds)
      /\ \A u \in Worker \ {w} : Wrote(u) \cap ds = {}
      /\ \A u \in Worker \ {w} : task'[u] = task[u]
  <2>1. \A u \in Worker \ {w} : tx'[u] = Later(tx[u], {p})
    BY <1>5, CommittedIs
  <2>2. \A u \in Worker \ {w} : p \notin Wrote(u)
    BY <1>5 DEF Writable
  <2> QED BY <1>5, <1>7, <2>1, <2>2 DEF Become, IInv, TypeOK
<1>9. Step(w, ds)
  BY <1>5, <1>6, <1>7, <1>8 DEF Step, Exists
<1>10. Beside(w, Idle)
  <2>1. SentStay
    BY <1>5 DEF SentStay, IsSent
  <2>2. OrdersStep(w, Idle)
    BY <1>5, IdleIs, NoOrderStep
  <2>3. Decides(w)
    BY <1>6, QuoteAssumption DEF Decides
  <2> QED BY <2>1, <2>2, <2>3 DEF Beside
<1>11. Documents'
  BY <1>5, <1>6, CallsSame DEF IInv, TypeOK, Documents, Become
<1>12. CurrentExists'
  <2>1. ASSUME NEW q \in Quote, quotes'[q].currentRevision # NoRevision
        PROVE  Exists(quotes[q].currentRevision)
    BY <1>6, <2>1 DEF IInv, CurrentExists
  <2> QED BY <1>5, <1>6, <2>1 DEF CurrentExists, Exists
<1>13. OthersRejected'
  <2> SUFFICES ASSUME NEW a \in Newest, NEW b \in Newest, a # b, quotes'[a].status = "ACCEPTED"
               PROVE  quotes'[b].status = "REJECTED" \/ Excluded(a, b)'
    BY DEF OthersRejected, Newest
  <2>1. quotes[a].status = "ACCEPTED"
    BY <1>6, NewestTyped
  <2>2. quotes[b].status = "REJECTED" \/ Excluded(a, b)
    BY <2>1 DEF IInv, OthersRejected
  <2> QED BY <1>5, <1>6, <2>2, NewestTyped DEF Excluded
<1> QED BY <1>5, <1>7, <1>9, <1>10, <1>11, <1>12, <1>13, EndsRight

\* What a commit writes.
LEMMA CommitIs ==
    ASSUME IInv, NEW w \in Worker, CommitTransaction(w), NEW o, o = task[w], NEW v, v = tx[w]
    PROVE  /\ o \in Task /\ v \in Transaction /\ v # Closed /\ WorkerRight(o, v)
           /\ o.quote \in Quote /\ o.revision \in Revision /\ Exists(o.revision)
           /\ o.step = "commit" \/ (o.step = "others" /\ o.others = {} /\ Accepts(o))
           /\ o.op = "send" \/ Accepts(o)
           /\ quotes' \in [Quote -> QuoteDoc]
           /\ \A q \in Quote : /\ q \in v.wrote => quotes'[q] = v.quotes[q]
                               /\ q \notin v.wrote => quotes'[q] = quotes[q]
           /\ revisions' \in [Revision -> RevisionDoc]
           /\ \A r \in Revision : /\ revisions'[r].lines = revisions[r].lines
                                  /\ r \in v.sent => revisions'[r].status = "SENT"
                                  /\ r \notin v.sent => revisions'[r] = revisions[r]
<1>1. /\ o \in Task /\ v \in Transaction \cup {Closed} /\ WorkerRight(o, v)
      /\ RequestRight(o, v)
  BY Known
<1>2. o.step = "commit" \/ (o.step = "others" /\ o.others = {})
  BY DEF CommitTransaction, At
<1>3. /\ v # Closed /\ o.quote \in Quote /\ o.revision \in Revision /\ Exists(o.revision)
      /\ o.op = "send" \/ Accepts(o)
  BY <1>1, <1>2, StepTells DEF Open
<1>4. o.step = "others" => Accepts(o)
  BY <1>1, StepTells
<1>5. v \in Transaction
  BY <1>1, <1>3
<1>6. quotes' = [q \in Quote |-> IF q \in v.wrote THEN v.quotes[q] ELSE quotes[q]]
  BY DEF CommitTransaction, QuotesAfter
<1>7. /\ quotes' \in [Quote -> QuoteDoc]
      /\ \A q \in Quote : /\ q \in v.wrote => quotes'[q] = v.quotes[q]
                          /\ q \notin v.wrote => quotes'[q] = quotes[q]
  BY <1>5, <1>6 DEF IInv, TypeOK, Transaction
<1>8. revisions' = [r \in Revision |->
         IF r \in v.sent THEN [revisions[r] EXCEPT !.status = "SENT"] ELSE revisions[r]]
  BY DEF CommitTransaction, RevisionsAfter
<1>9. ASSUME NEW r \in Revision
      PROVE  /\ revisions'[r] \in RevisionDoc /\ revisions'[r].lines = revisions[r].lines
             /\ r \in v.sent => revisions'[r].status = "SENT"
             /\ r \notin v.sent => revisions'[r] = revisions[r]
  <2>1. PICK d \in RevisionDoc : d = revisions[r]
    BY DEF IInv, TypeOK
  <2>2. CASE r \in v.sent
    <3>1. PICK e : e = [d EXCEPT !.status = "SENT"]
      OBVIOUS
    <3>2. e \in RevisionDoc /\ e.lines = d.lines /\ e.status = "SENT"
      BY <3>1 DEF RevisionDoc
    <3>3. revisions'[r] = e
      BY <1>8, <2>1, <2>2, <3>1
    <3> QED BY <2>1, <2>2, <3>2, <3>3
  <2>3. CASE r \notin v.sent
    BY <1>8, <2>1, <2>3
  <2> QED BY <2>2, <2>3
<1>10. revisions' \in [Revision -> RevisionDoc]
  BY <1>8, <1>9
<1> QED BY <1>1, <1>2, <1>3, <1>4, <1>5, <1>7, <1>9, <1>10

\* What the history notes of a commit.
LEMMA CommitNotes ==
    ASSUME IInv, NEW w \in Worker, CommitTransaction(w), NEW o, o = task[w]
    PROVE  /\ exempt \subseteq exempt' /\ exempt' \subseteq Quote
           /\ o.op = "send" /\ quotes'[o.quote].status # quotes[o.quote].status =>
                 o.quote \in exempt'
           /\ o.op # "send" /\ o.quote \in OfRFQ =>
                 \A u \in Worker : u # w /\ Past(task[u]) /\ task[u].quote \in OfRFQ =>
                    task[u].quote \in exempt'
<1>1. exempt' = exempt \cup
        IF o.op = "send"
        THEN {p \in {o.quote} : quotes'[p].status # quotes[p].status}
        ELSE {p \in OfRFQ : o.quote \in OfRFQ /\
                 \E v \in Worker \ {w} : PastCheck(v) /\ task[v].quote = p}
  BY DEF CommitTransaction, NoteCommit
<1>2. \A u \in Worker : Past(task[u]) => PastCheck(u)
  BY DEF Past, PastCheck, Accepts, Accepting, Checked, Open
<1>3. o.quote \in Quote
  <2>1. PICK v : v = tx[w]
    OBVIOUS
  <2> QED BY <2>1, CommitIs
<1> QED BY <1>1, <1>2, <1>3, QuoteAssumption DEF IInv, TypeOK

\* A commit of sendQuote.
LEMMA CommitSend ==
    ASSUME IInv, NEW w \in Worker, CommitTransaction(w), NEW o, o = task[w], o.op = "send",
           NEW q \in Quote
    PROVE  /\ q \in exempt' \/ quotes'[q].status = quotes[q].status
           /\ \/ quotes'[q].currentRevision = quotes[q].currentRevision
              \/ quotes'[q].currentRevision = o.revision
<1>1. PICK v : v = tx[w]
  OBVIOUS
<1>2. /\ WorkerRight(o, v) /\ v # Closed /\ o.quote \in Quote
      /\ o.step = "commit" \/ (o.step = "others" /\ o.others = {} /\ Accepts(o))
  BY <1>1, CommitIs
<1>3. /\ q \in v.wrote => quotes'[q] = v.quotes[q]
      /\ q \notin v.wrote => quotes'[q] = quotes[q]
  BY <1>1, CommitIs
<1>4. o.step = "commit"
  BY <1>2 DEF Accepts
<1>5. /\ v.wrote = {o.quote}
      /\ v.quotes[o.quote] = [status |-> NewStatus(o), currentRevision |-> o.revision]
  BY <1>2, <1>4 DEF WorkerRight, SendingRight
<1>6. quotes'[o.quote].status # quotes[o.quote].status => o.quote \in exempt'
  BY CommitNotes
<1> QED BY <1>3, <1>5, <1>6

\* A commit of acceptQuote.
LEMMA CommitAccept ==
    ASSUME IInv, NEW w \in Worker, CommitTransaction(w), NEW o, o = task[w], Accepts(o),
           NEW v, v = tx[w]
    PROVE  /\ o.quote \in v.wrote /\ quotes'[o.quote].status = "ACCEPTED"
           /\ v.sent = IF o.promote THEN {o.revision} ELSE {}
           /\ o.step = "commit" => v.wrote = {o.quote} /\ o.quote \notin OfRFQ
           /\ o.step # "commit" => o.quote \in OfRFQ /\ v.wrote \subseteq OfRFQ /\ rfq = "ACCEPTED"
<1>1. /\ WorkerRight(o, v) /\ v # Closed /\ o.quote \in Quote
      /\ o.step = "commit" \/ (o.step = "others" /\ o.others = {} /\ Accepts(o))
  BY CommitIs
<1>2. \A q \in Quote : q \in v.wrote => quotes'[q] = v.quotes[q]
  BY CommitIs
<1>3. /\ v.sent = IF o.promote THEN {o.revision} ELSE {}
      /\ o.step = "commit" => v.wrote = {o.quote} /\ o.quote \notin OfRFQ
      /\ o.step = "others" => o.quote \in v.wrote /\ o.quote \in OfRFQ /\ v.wrote \subseteq OfRFQ
                              /\ rfq = "ACCEPTED"
      /\ \A q \in v.wrote : v.quotes[q].status = IF q = o.quote THEN "ACCEPTED" ELSE "REJECTED"
  BY <1>1 DEF WorkerRight, AcceptingRight
<1>4. o.quote \in v.wrote /\ quotes'[o.quote].status = "ACCEPTED"
  BY <1>1, <1>2, <1>3
<1> QED BY <1>1, <1>3, <1>4

LEMMA CommitAcceptQuote ==
    ASSUME IInv, NEW w \in Worker, CommitTransaction(w), NEW o, o = task[w], Accepts(o),
           NEW v, v = tx[w], NEW q \in Quote
    PROVE  /\ quotes'[q].currentRevision = quotes[q].currentRevision
           /\ q \in v.wrote /\ q # o.quote => quotes'[q].status = "REJECTED"
           /\ q \notin v.wrote => quotes'[q] = quotes[q]
<1>1. WorkerRight(o, v) /\ v # Closed
  BY CommitIs
<1>2. /\ q \in v.wrote => quotes'[q] = v.quotes[q]
      /\ q \notin v.wrote => quotes'[q] = quotes[q]
  BY CommitIs
<1>3. q \in v.wrote =>
         /\ v.quotes[q].currentRevision = quotes[q].currentRevision
         /\ v.quotes[q].status = IF q = o.quote THEN "ACCEPTED" ELSE "REJECTED"
  BY <1>1 DEF WorkerRight, AcceptingRight
<1> QED BY <1>2, <1>3

\* What an acceptance that commits knows of another of the newest.
LEMMA CommitSettled ==
    ASSUME IInv, NEW w \in Worker, CommitTransaction(w), NEW o, o = task[w], Accepts(o),
           NEW v, v = tx[w], o.quote \in Newest, NEW q \in Newest, q # o.quote
    PROVE  /\ quotes[q].status = "ACCEPTED" => Excluded(o.quote, q)
           /\ o.step # "commit" =>
                 q \in v.wrote \/ quotes[q].status = "REJECTED" \/ Excluded(o.quote, q)
<1>1. /\ WorkerRight(o, v)
      /\ o.step = "commit" \/ (o.step = "others" /\ o.others = {} /\ Accepts(o))
  BY CommitIs
<1>2. DecisionRight(o, v) /\ Past(o)
  BY <1>1 DEF WorkerRight, Past, Checked, Open
<1>3. /\ quotes[q].status = "ACCEPTED" => Excluded(o.quote, q)
      /\ o.step = "others" => Settled(q, o, v)
  BY <1>2 DEF DecisionRight
<1> QED BY <1>1, <1>3 DEF Settled

LEMMA CommitBeside ==
    ASSUME IInv, NEW w \in Worker, CommitTransaction(w)
    PROVE  Beside(w, Idle)
<1>1. PICK o : o = task[w]
  OBVIOUS
<1>2. PICK v : v = tx[w]
  OBVIOUS
<1>3. \A r \in Revision : /\ revisions'[r].lines = revisions[r].lines
                          /\ r \in v.sent => revisions'[r].status = "SENT"
                          /\ r \notin v.sent => revisions'[r] = revisions[r]
  BY <1>1, <1>2, CommitIs
<1>4. UNCHANGED <<canonical, orders>>
  BY DEF CommitTransaction
<1>5. SentStay
  BY <1>3, <1>4 DEF SentStay, IsSent
<1>6. OrdersStep(w, Idle)
  BY <1>4, IdleIs, NoOrderStep
<1>7. Decides(w)
  <2> SUFFICES ASSUME NEW q \in OfRFQ
               PROVE  \/ quotes'[q].status = quotes[q].status
                      \/ q \in exempt'
                      \/ quotes'[q].status = "REJECTED"
                      \/ \A u \in Worker : u # w /\ Past(task[u]) /\ task[u].quote \in OfRFQ =>
                            task[u].quote \in exempt'
    BY DEF Decides
  <2>1. q \in Quote /\ (o.op = "send" \/ Accepts(o))
    <3>1. o.op = "send" \/ Accepts(o)
      BY <1>1, <1>2, CommitIs
    <3> QED BY <3>1, QuoteAssumption
  <2>2. CASE o.op = "send"
    BY <1>1, <2>1, <2>2, CommitSend
  <2>3. CASE Accepts(o)
    <3>1. CASE q # o.quote
      BY <1>1, <1>2, <2>1, <2>3, <3>1, CommitAcceptQuote
    <3>2. CASE q = o.quote
      <4>1. o.op # "send"
        BY <2>3 DEF Accepts
      <4> QED BY <1>1, <3>2, <4>1, CommitNotes
    <3> QED BY <3>1, <3>2
  <2> QED BY <2>1, <2>2, <2>3
<1> QED BY <1>5, <1>6, <1>7 DEF Beside

LEMMA CommitCurrent ==
    ASSUME IInv, NEW w \in Worker, CommitTransaction(w),
           \A r \in Revision : Exists(r) => Exists(r)'
    PROVE  CurrentExists'
<1>1. PICK o : o = task[w]
  OBVIOUS
<1>2. PICK v : v = tx[w]
  OBVIOUS
<1> SUFFICES ASSUME NEW q \in Quote, quotes'[q].currentRevision # NoRevision
             PROVE  revisions'[quotes'[q].currentRevision].status # "NONE"
  BY DEF CurrentExists, Exists
<1>3. PICK r : r = quotes'[q].currentRevision
  OBVIOUS
<1>4. o.revision \in Revision /\ Exists(o.revision) /\ (o.op = "send" \/ Accepts(o))
  BY <1>1, <1>2, CommitIs
<1>5. quotes'[q].currentRevision = quotes[q].currentRevision
      \/ quotes'[q].currentRevision = o.revision
  <2>1. CASE o.op = "send"
    BY <1>1, <2>1, CommitSend
  <2>2. CASE Accepts(o)
    BY <1>1, <1>2, <2>2, CommitAcceptQuote
  <2> QED BY <1>4, <2>1, <2>2
<1>6. r \in Revision /\ Exists(r)
  BY <1>3, <1>4, <1>5 DEF IInv, CurrentExists, TypeOK, QuoteDoc
<1> QED BY <1>3, <1>6 DEF Exists

LEMMA CommitRejects ==
    ASSUME IInv, NEW w \in Worker, CommitTransaction(w)
    PROVE  OthersRejected'
<1>1. PICK o : o = task[w]
  OBVIOUS
<1>2. PICK v : v = tx[w]
  OBVIOUS
<1> SUFFICES ASSUME NEW p \in Newest, NEW q \in Newest, p # q,
                    quotes'[p].status = "ACCEPTED", {p, q} \cap exempt' = {}
             PROVE  quotes'[q].status = "REJECTED"
  BY DEF OthersRejected, Excluded, Newest
<1>3. p \in Quote /\ q \in Quote /\ p \in OfRFQ /\ q \in OfRFQ
  BY NewestTyped
<1>4. exempt \subseteq exempt'
  BY <1>1, CommitNotes
<1>5. {p, q} \cap exempt = {}
  BY <1>4
<1>6. quotes[p].status = "ACCEPTED" => quotes[q].status = "REJECTED"
  BY <1>5 DEF IInv, OthersRejected, Excluded
<1>7. o.op = "send" \/ Accepts(o)
  BY <1>1, <1>2, CommitIs
<1>8. CASE o.op = "send"
  <2>1. quotes'[p].status = quotes[p].status
    BY <1>1, <1>3, <1>8, CommitSend
  <2>2. quotes'[q].status = quotes[q].status
    BY <1>1, <1>3, <1>8, CommitSend
  <2> QED BY <1>6, <2>1, <2>2
<1>9. CASE Accepts(o)
  <2>1. /\ o.quote \in v.wrote /\ quotes'[o.quote].status = "ACCEPTED"
        /\ o.step = "commit" => v.wrote = {o.quote} /\ o.quote \notin OfRFQ
    BY <1>1, <1>2, <1>9, CommitAccept
  <2>2. /\ p \in v.wrote /\ p # o.quote => quotes'[p].status = "REJECTED"
        /\ p \notin v.wrote => quotes'[p] = quotes[p]
    BY <1>1, <1>2, <1>3, <1>9, CommitAcceptQuote
  <2>3. /\ q \in v.wrote /\ q # o.quote => quotes'[q].status = "REJECTED"
        /\ q \notin v.wrote => quotes'[q] = quotes[q]
    BY <1>1, <1>2, <1>3, <1>9, CommitAcceptQuote
  <2>4. CASE p # o.quote
    <3>1. quotes[p].status = "ACCEPTED" /\ quotes[q].status = "REJECTED"
      BY <1>6, <2>2, <2>4
    <3>2. q # o.quote
      <4>1. CASE o.quote \in Newest
        <5>1. Excluded(o.quote, p)
          BY <1>1, <1>2, <1>9, <2>4, <3>1, <4>1, CommitSettled
        <5> QED BY <1>5, <5>1 DEF Excluded
      <4>2. CASE o.quote \notin Newest
        BY <4>2
      <4> QED BY <4>1, <4>2
    <3> QED BY <2>3, <3>1, <3>2
  <2>5. CASE p = o.quote
    <3>1. q # o.quote /\ o.quote \in Newest /\ o.step # "commit"
      BY <1>3, <2>1, <2>5
    <3>2. q \in v.wrote \/ quotes[q].status = "REJECTED" \/ Excluded(o.quote, q)
      BY <1>1, <1>2, <1>9, <3>1, CommitSettled
    <3> QED BY <1>5, <2>3, <2>5, <3>1, <3>2 DEF Excluded
  <2> QED BY <2>4, <2>5
<1> QED BY <1>7, <1>8, <1>9

LEMMA CommitTransactionRight ==
    ASSUME IInv, NEW w \in Worker, CommitTransaction(w)
    PROVE  IInv'
<1>1. PICK o : o = task[w]
  OBVIOUS
<1>2. PICK v : v = tx[w]
  OBVIOUS
<1>3. /\ v \in Transaction /\ v # Closed /\ o.revision \in Revision
      /\ quotes' \in [Quote -> QuoteDoc] /\ revisions' \in [Revision -> RevisionDoc]
      /\ o.op = "send" \/ Accepts(o)
  BY <1>1, <1>2, CommitIs
<1>4. \A q \in Quote : q \notin v.wrote => quotes'[q] = quotes[q]
  BY <1>1, <1>2, CommitIs
<1>5. \A r \in Revision : /\ r \in v.sent => revisions'[r].status = "SENT"
                          /\ r \notin v.sent => revisions'[r] = revisions[r]
  BY <1>1, <1>2, CommitIs
<1>6. \A r \in Revision : Exists(r) => Exists(r)'
  BY <1>5 DEF Exists
<1>7. /\ Committed(w, Wrote(w)) /\ Become(w, Idle)
      /\ UNCHANGED <<canonical, rfq, orders, edited>>
  BY DEF CommitTransaction
<1>8. exempt \subseteq exempt' /\ exempt' \subseteq Quote
  BY <1>1, CommitNotes
<1>9. PICK ds \in SUBSET Doc : ds = Wrote(w)
  BY <1>2, <1>3 DEF Wrote, Transaction, Doc
<1>10. ds = v.wrote \cup v.sent
  BY <1>2, <1>3, <1>9 DEF Wrote
<1>11. \A u \in Worker \ {w} : Wrote(u) \cap ds = {}
  BY <1>9 DEF IInv, WritersExclude
<1>12. \A u \in Worker \ {w} : tx'[u] = Later(tx[u], ds)
  BY <1>7, <1>9, CommittedIs
<1>13. ASSUME NEW q \in Quote, quotes[q].currentRevision # NoRevision
       PROVE  quotes'[q].currentRevision # NoRevision
  <2>1. CASE o.op = "send"
    BY <1>1, <1>3, <1>13, <2>1, CommitSend, QuoteAssumption
  <2>2. CASE Accepts(o)
    BY <1>1, <1>2, <1>13, <2>2, CommitAcceptQuote
  <2> QED BY <1>3, <2>1, <2>2
<1>14. Step(w, ds)
  <2>1. \A u \in Worker \ {w} : task'[u] = task[u]
    BY <1>7 DEF Become, IInv, TypeOK
  <2>2. \A q \in Quote : q \notin ds => quotes'[q] = quotes[q]
    BY <1>4, <1>10
  <2> QED BY <1>6, <1>7, <1>8, <1>11, <1>12, <1>13, <2>1, <2>2 DEF Step
<1>15. Documents'
  BY <1>3, <1>7, <1>8, CallsSame DEF IInv, TypeOK, Documents, Become
<1>16. Beside(w, Idle) /\ CurrentExists' /\ OthersRejected'
  BY <1>6, CommitBeside, CommitCurrent, CommitRejects
<1>17. Committed(w, ds) /\ Become(w, Idle)
  BY <1>7, <1>9
<1> QED BY <1>14, <1>15, <1>16, <1>17, EndsRight
-------------------------------------------------------------------------------
(***************************************************************************)
(* The invariant.                                                          *)
(***************************************************************************)
\* The line items of a revision that is sent before the start.
LEMMA StartTyped ==
    /\ {[l EXCEPT !.id = 0] : l \in StartItems} \in SUBSET Line
    /\ StartItems \in SUBSET Line /\ IdsUnique(StartItems) /\ IdsUnique({})
<1>1. StartItems \in SUBSET Line /\ IdsUnique(StartItems) /\ IdsUnique({})
  BY LineAssumption DEF IdsUnique
<1>2. ASSUME NEW l \in StartItems PROVE [l EXCEPT !.id = 0] \in Line
  BY <1>1 DEF Line
<1> QED BY <1>1, <1>2

LEMMA InitRight == Init => IInv
<1> SUFFICES ASSUME Init PROVE IInv
  OBVIOUS
<1>1. ASSUME NEW q \in Quote
      PROVE  /\ quotes[q] \in QuoteDoc /\ quotes[q].status = "ACTIVE"
             /\ quotes[q].currentRevision # NoRevision => quotes[q].currentRevision \in Sent
  <2>1. PICK r : r = quotes[q].currentRevision
    OBVIOUS
  <2>2. quotes[q] = [status |-> "ACTIVE", currentRevision |-> r]
    BY <2>1 DEF Init
  <2>3. CASE \E s \in Sent : QuoteOf[s] = q
    <3>1. r = CHOOSE s \in Sent : QuoteOf[s] = q
      BY <2>1, <2>3 DEF Init
    <3>2. r \in Sent
      BY <2>3, <3>1
    <3>3. r \in Revision
      BY <3>2, QuoteAssumption
    <3> QED BY <2>1, <2>2, <3>2, <3>3 DEF QuoteDoc
  <2>4. CASE ~\E s \in Sent : QuoteOf[s] = q
    <3>1. r = NoRevision
      BY <2>1, <2>4 DEF Init
    <3> QED BY <2>1, <2>2, <3>1 DEF QuoteDoc
  <2> QED BY <2>3, <2>4
<1>2. quotes \in [Quote -> QuoteDoc]
  <2>1. quotes = [q \in Quote |-> quotes[q]]
    BY DEF Init
  <2> QED BY <1>1, <2>1
<1>3. PICK start \in SUBSET Line : start = {[l EXCEPT !.id = 0] : l \in StartItems}
  BY StartTyped
<1>4. /\ revisions = [r \in Revision |-> IF r \in Sent THEN [status |-> "SENT", lines |-> start]
                                         ELSE [status |-> "NONE", lines |-> {}]]
      /\ canonical = [r \in Revision |-> IF r \in Sent THEN StartItems ELSE {}]
  BY <1>3 DEF Init
<1>5. ASSUME NEW r \in Revision
      PROVE  /\ revisions[r] \in RevisionDoc /\ canonical[r] \in SUBSET Line
             /\ IdsUnique(canonical[r])
             /\ r \in Sent => Exists(r)
  BY <1>4, StartTyped DEF RevisionDoc, Exists
<1>6. revisions \in [Revision -> RevisionDoc] /\ canonical \in [Revision -> SUBSET Line]
  <2>1. /\ revisions = [r \in Revision |-> revisions[r]]
        /\ canonical = [r \in Revision |-> canonical[r]]
    BY <1>4
  <2> QED BY <1>5, <2>1
<1>7. task = [w \in Worker |-> Idle] /\ tx = [w \in Worker |-> Closed]
  BY DEF Init
<1>8. TypeOK
  <2>1. rfq = "SENT" /\ orders = <<>> /\ exempt = {} /\ edited = {} /\ calls = 0
    BY DEF Init
  <2>2. calls \in 0 .. MaxCalls /\ orders \in Seq(Order)
    BY <2>1, BoundsAssumption
  <2>3. task \in [Worker -> Task]
    BY <1>7, IdleIs
  <2> QED BY <1>2, <1>5, <1>6, <1>7, <2>1, <2>2, <2>3 DEF TypeOK
<1>9. CurrentExists
  BY <1>1, <1>5, QuoteAssumption DEF CurrentExists
<1>10. OthersRejected
  BY <1>1, NewestTyped DEF OthersRejected
<1>11. WritersExclude /\ FillersApart /\ DOMAIN tx = Worker
  BY <1>7, IdleIs DEF WritersExclude, FillersApart, Wrote
<1>12. \A w \in Worker : RightOf(w)
  BY <1>7, IdleRight DEF RightOf
<1> QED BY <1>8, <1>9, <1>10, <1>11, <1>12 DEF IInv

LEMMA StutterRight ==
    ASSUME IInv, UNCHANGED vars
    PROVE  IInv'
<1>1. UNCHANGED <<quotes, revisions, canonical, rfq, orders, exempt, edited, task, tx, calls>>
  BY DEF vars, db
<1>2. TypeOK'
  BY <1>1 DEF IInv, TypeOK
<1>3. CurrentExists' /\ OthersRejected'
  BY <1>1 DEF IInv, CurrentExists, OthersRejected, Exists, Excluded
<1>4. WritersExclude' /\ FillersApart' /\ DOMAIN tx' = Worker
  BY <1>1 DEF IInv, WritersExclude, FillersApart, Wrote
<1>5. ASSUME NEW w \in Worker PROVE RightOf(w)'
  <2>1. PICK t : t = task[w]
    OBVIOUS
  <2>2. PICK v : v = tx[w]
    OBVIOUS
  <2>3. WorkerRight(t, v)
    BY <2>1, <2>2, Known
  <2>4. RequestRight(t, v)' /\ SnapshotRight(v)' /\ SendingRight(t, v)' /\ AcceptingRight(t, v)'
    BY <1>1, <2>3
       DEF WorkerRight, RequestRight, SnapshotRight, SendingRight, AcceptingRight, Exists
  <2>5. ContractRight(t)' /\ DecisionRight(t, v)'
    BY <1>1, <2>3 DEF WorkerRight, ContractRight, DecisionRight, IsSent, Settled, Excluded
  <2>6. OrdersRight(t)'
    BY <1>1, <2>3
       DEF WorkerRight, OrdersRight, Made, Half, Done, Kept, Filled, AsSent, IsSent, Items
  <2>7. WorkerRight(t, v)'
    BY <2>4, <2>5, <2>6 DEF WorkerRight
  <2>8. task'[w] = t /\ tx'[w] = v
    BY <1>1, <2>1, <2>2
  <2> QED BY <2>7, <2>8 DEF RightOf
<1> QED BY <1>2, <1>3, <1>4, <1>5 DEF IInv

LEMMA NextRight == IInv /\ [Next]_vars => IInv'
<1> SUFFICES ASSUME IInv, [Next]_vars PROVE IInv'
  OBVIOUS
<1>1. CASE UNCHANGED vars
  BY <1>1, StutterRight
<1>2. ASSUME NEW w \in Worker,
             \/ CreateQuoteRevision(w) \/ UpdateQuoteRevision(w) \/ WriteRevision(w)
             \/ CopyRevision(w) \/ ListCanonical(w) \/ UpsertLineItem(w)
             \/ SoftDeleteLineItem(w) \/ Synced(w)
      PROVE  IInv'
  BY <1>2, CreateQuoteRevisionRight, UpdateQuoteRevisionRight, WriteRevisionRight,
     CopyRevisionRight, ListCanonicalRight, UpsertLineItemRight, SoftDeleteLineItemRight,
     SyncedRight
<1>3. ASSUME NEW w \in Worker,
             \/ BeginTransaction(w) \/ PromoteRevision(w) \/ CommitTransaction(w)
             \/ SendQuote(w) \/ CheckPrices(w) \/ UpdateSentQuote(w) \/ SetCurrentRevision(w)
             \/ UpdateQuoteStatus(w) \/ EditLineItem(w)
      PROVE  IInv'
  BY <1>3, BeginTransactionRight, PromoteRevisionRight, CommitTransactionRight, SendQuoteRight,
     CheckPricesRight, UpdateSentQuoteRight, SetCurrentRevisionRight, UpdateQuoteStatusRight,
     EditLineItemRight
<1>4. ASSUME NEW w \in Worker,
             \/ AcceptQuote(w) \/ ReadRevision(w) \/ ReadLineItems(w)
             \/ ReadQuoteAgain(w) \/ CheckRevision(w) \/ UpdateAcceptedQuote(w)
      PROVE  IInv'
  BY <1>4, AcceptQuoteRight, ReadRevisionRight, ReadLineItemsRight, ReadQuoteAgainRight,
     CheckRevisionRight, UpdateAcceptedQuoteRight
<1>5. ASSUME NEW w \in Worker,
             \/ UpdateRFQ(w) \/ ListActiveQuotes(w) \/ RejectOtherQuote(w)
             \/ RejectQuote(w) \/ WriteRejection(w)
      PROVE  IInv'
  BY <1>5, UpdateRFQRight, ListActiveQuotesRight, RejectOtherQuoteRight, RejectQuoteRight,
     WriteRejectionRight
<1>6. ASSUME NEW w \in Worker, NEW kind \in {"SO", "PO"},
             CreateOrder(w, kind) \/ CreateLineItem(w, kind)
      PROVE  IInv'
  BY <1>6, CreateOrderRight, CreateLineItemRight
<1>7. ASSUME NEW w \in Worker,
             \/ CreateSalesOrder(w) \/ CreateSalesOrderLineItem(w)
             \/ CreatePurchaseOrder(w) \/ CreatePurchaseOrderLineItem(w)
      PROVE  \E kind \in {"SO", "PO"} : CreateOrder(w, kind) \/ CreateLineItem(w, kind)
  BY <1>7 DEF CreateSalesOrder, CreateSalesOrderLineItem, CreatePurchaseOrder,
     CreatePurchaseOrderLineItem
<1>8. ASSUME NEW w \in Worker, TransientFault(w) \/ Abort(w)
      PROVE  IInv'
  BY <1>8, RetryRight, ThrowRight DEF TransientFault, Abort
<1>9. CASE Next
  BY <1>2, <1>3, <1>4, <1>5, <1>6, <1>7, <1>8, <1>9 DEF Next
<1> QED BY <1>1, <1>9

LEMMA Invariance == Spec => []IInv
<1> QED BY InitRight, NextRight, PTL DEF Spec
-------------------------------------------------------------------------------
(***************************************************************************)
(* The steps that write a quote.                                           *)
(***************************************************************************)
Decisive(w) ==
    CommitTransaction(w) \/ SetCurrentRevision(w) \/ UpdateQuoteStatus(w) \/ WriteRejection(w)

LEMMA QuoteWriters ==
    ASSUME [Next]_vars, quotes' # quotes
    PROVE  \E w \in Worker : Decisive(w)
<1>1. CASE UNCHANGED vars
  BY <1>1 DEF vars, db
<1>2. ASSUME NEW w \in Worker,
             \/ CreateQuoteRevision(w) \/ UpdateQuoteRevision(w) \/ WriteRevision(w)
             \/ CopyRevision(w) \/ ListCanonical(w) \/ UpsertLineItem(w)
             \/ SoftDeleteLineItem(w) \/ Synced(w) \/ EditLineItem(w)
      PROVE  FALSE
  BY <1>2 DEF CreateQuoteRevision, UpdateQuoteRevision, WriteRevision, CopyRevision,
     ListCanonical, UpsertLineItem, SoftDeleteLineItem, Synced, EditLineItem, Local, db
<1>3. ASSUME NEW w \in Worker,
             \/ SendQuote(w) \/ AcceptQuote(w) \/ ReadRevision(w) \/ ReadLineItems(w)
             \/ ListActiveQuotes(w) \/ RejectQuote(w) \/ UpdateRFQ(w)
      PROVE  FALSE
  BY <1>3 DEF SendQuote, AcceptQuote, ReadRevision, ReadLineItems, ListActiveQuotes,
     RejectQuote, UpdateRFQ, Local, Throw, db
<1>4. ASSUME NEW w \in Worker,
             \/ CheckPrices(w) \/ ReadQuoteAgain(w) \/ CheckRevision(w)
             \/ BeginTransaction(w) \/ PromoteRevision(w) \/ TransientFault(w) \/ Abort(w)
      PROVE  FALSE
  BY <1>4 DEF CheckPrices, ReadQuoteAgain, CheckRevision, BeginTransaction, PromoteRevision,
     TransientFault, Abort, Local, Retry, Throw, db
<1>5. ASSUME NEW w \in Worker,
             UpdateSentQuote(w) \/ UpdateAcceptedQuote(w) \/ RejectOtherQuote(w)
      PROVE  FALSE
  BY <1>5 DEF UpdateSentQuote, UpdateAcceptedQuote, RejectOtherQuote, WriteQuote, Retry, Throw, db
<1>6. ASSUME NEW w \in Worker, NEW kind, CreateOrder(w, kind) \/ CreateLineItem(w, kind)
      PROVE  FALSE
  BY <1>6 DEF CreateOrder, CreateLineItem
<1>7. ASSUME NEW w \in Worker,
             \/ CreateSalesOrder(w) \/ CreateSalesOrderLineItem(w)
             \/ CreatePurchaseOrder(w) \/ CreatePurchaseOrderLineItem(w)
      PROVE  FALSE
  BY <1>6, <1>7 DEF CreateSalesOrder, CreateSalesOrderLineItem, CreatePurchaseOrder,
     CreatePurchaseOrderLineItem
<1> QED BY <1>1, <1>2, <1>3, <1>4, <1>5, <1>7 DEF Next, Decisive

\* An edit is counted.
LEMMA EditCounted ==
    ASSUME IInv, NEW w \in Worker, Edit(w)
    PROVE  calls' # calls
<1>1. calls \in Nat /\ calls' = calls + 1
  BY BoundsAssumption DEF Edit, IInv, TypeOK
<1> QED BY <1>1

(***************************************************************************)
(* The status of a quote changes, edits and sendQuote aside, by a request  *)
(* to reject it or by the commit of an acceptance.                         *)
(***************************************************************************)
LEMMA StatusChanges ==
    ASSUME IInv, [Next]_vars, ~StatusWritten, NEW q \in Quote,
           quotes'[q].status # quotes[q].status
    PROVE  \E w \in Worker :
              \/ WriteRejection(w) /\ task[w].quote = q /\ quotes'[q].status = "REJECTED"
              \/ CommitTransaction(w) /\ Accepts(task[w])
<1>1. PICK w \in Worker : Decisive(w)
  BY QuoteWriters
<1>2. calls' = calls
  BY DEF StatusWritten
<1>3. ~SetCurrentRevision(w) /\ ~UpdateQuoteStatus(w)
  BY <1>2, EditCounted DEF SetCurrentRevision, UpdateQuoteStatus
<1>4. CASE WriteRejection(w)
  <2>1. quotes' = [quotes EXCEPT ![task[w].quote].status = "REJECTED"]
    BY <1>4 DEF WriteRejection
  <2>2. quotes \in [Quote -> QuoteDoc]
    BY DEF IInv, TypeOK
  <2>3. q = task[w].quote /\ quotes'[q].status = "REJECTED"
    BY <2>1, <2>2 DEF QuoteDoc
  <2> QED BY <1>4, <2>3
<1>5. CASE CommitTransaction(w)
  <2>1. PICK o : o = task[w]
    OBVIOUS
  <2>2. PICK v : v = tx[w]
    OBVIOUS
  <2>3. o.op = "send" \/ Accepts(o)
    BY <1>5, <2>1, <2>2, CommitIs
  <2>4. o.step = "commit" \/ o.step = "others"
    BY <1>5, <2>1 DEF CommitTransaction, At
  <2>5. task'[w] = Idle /\ o # Idle
    BY <1>5, <2>1, <2>4, IdleIs DEF CommitTransaction, Become, IInv, TypeOK
  <2>6. o.op # "send"
    BY <2>1, <2>5 DEF StatusWritten
  <2> QED BY <1>5, <2>1, <2>3, <2>6
<1> QED BY <1>1, <1>3, <1>4, <1>5 DEF Decisive

\* The commit of an acceptance is its end.
LEMMA CommitEnds ==
    ASSUME IInv, NEW w \in Worker, CommitTransaction(w), Accepts(task[w])
    PROVE  Ends(w)
<1>1. task'[w] = Idle
  BY DEF CommitTransaction, Become, IInv, TypeOK
<1> QED BY <1>1 DEF CommitTransaction, At, Ends, Accepting, Accepts
-------------------------------------------------------------------------------
(***************************************************************************)
(* Every request, transaction and document has its type, and only a        *)
(* sendQuote or an acceptance has a transaction open.                      *)
(***************************************************************************)
THEOREM TypeCorrect == Spec => []TypeOK
<1>1. IInv => TypeOK
  BY DEF IInv
<1> QED BY <1>1, Invariance, PTL

(***************************************************************************)
(* Of the newest quotes that answer a request for quotes one is accepted,  *)
(* for any number of acceptances and other requests at once, those quotes  *)
(* aside whose status an edit or a sendQuote has written, or whose         *)
(* acceptance was past its look at the status when another was committed.  *)
(***************************************************************************)
THEOREM OneIsAccepted == Spec => []OneAccepted
<1>1. IInv => OneAccepted
  BY DEF IInv, OthersRejected, OneAccepted, Excluded
<1> QED BY <1>1, Invariance, PTL

(***************************************************************************)
(* A quote is rejected by request or in the step that commits the          *)
(* acceptance of another quote of its request for quotes, and in no other, *)
(* however many requests there are and however often they are tried again. *)
(***************************************************************************)
THEOREM RejectedWithAcceptance == Spec => RejectedForAccepted
<1>1. ASSUME IInv, [Next]_vars
      PROVE  \A q \in Quote : Becomes(q, "REJECTED") /\ ~StatusWritten =>
               \E w \in Worker :
                 \/ At(w, "reject") /\ task[w].quote = q
                 \/ LET p == task[w].quote IN
                    /\ Ends(w) /\ quotes'[p].status = "ACCEPTED"
                    /\ p # q /\ {p, q} \subseteq OfRFQ
  <2> SUFFICES ASSUME NEW q \in Quote, Becomes(q, "REJECTED"), ~StatusWritten
               PROVE  \E w \in Worker :
                         \/ At(w, "reject") /\ task[w].quote = q
                         \/ LET p == task[w].quote IN
                            /\ Ends(w) /\ quotes'[p].status = "ACCEPTED"
                            /\ p # q /\ {p, q} \subseteq OfRFQ
    OBVIOUS
  <2>1. quotes'[q].status = "REJECTED" /\ quotes'[q].status # quotes[q].status
    BY DEF Becomes
  <2>2. PICK w \in Worker :
           \/ WriteRejection(w) /\ task[w].quote = q
           \/ CommitTransaction(w) /\ Accepts(task[w])
    BY <1>1, <2>1, StatusChanges
  <2>3. CASE WriteRejection(w) /\ task[w].quote = q
    BY <2>3 DEF WriteRejection
  <2>4. CASE CommitTransaction(w) /\ Accepts(task[w])
    <3>1. PICK o : o = task[w]
      OBVIOUS
    <3>2. PICK v : v = tx[w]
      OBVIOUS
    <3>3. /\ quotes'[o.quote].status = "ACCEPTED"
          /\ o.step = "commit" => v.wrote = {o.quote}
          /\ o.step # "commit" => o.quote \in OfRFQ /\ v.wrote \subseteq OfRFQ
      BY <1>1, <2>4, <3>1, <3>2, CommitAccept
    <3>4. q \notin v.wrote => quotes'[q] = quotes[q]
      BY <1>1, <2>4, <3>1, <3>2, CommitAcceptQuote
    <3>5. q \in v.wrote /\ o.quote # q
      BY <2>1, <3>3, <3>4
    <3>6. {o.quote, q} \subseteq OfRFQ
      BY <3>3, <3>5
    <3>7. Ends(w)
      BY <1>1, <2>4, CommitEnds
    <3> QED BY <3>1, <3>3, <3>5, <3>6, <3>7
  <2> QED BY <2>2, <2>3, <2>4
<1> QED BY <1>1, Invariance, PTL DEF Spec, RejectedForAccepted

LEMMA OrderTwin ==
    ASSUME NEW q \in Quote, NEW r \in Revision, NEW a \in SUBSET Line, NEW b \in SUBSET Line,
           NEW d \in Order, d = [kind |-> "SO", quote |-> q, revision |-> r, lines |-> a],
           NEW e, e = [d EXCEPT !.kind = "PO", !.lines = b]
    PROVE  e = [kind |-> "PO", quote |-> q, revision |-> r, lines |-> b]
BY DEF Order

PurchaseOf(d, t) == [d EXCEPT !.kind = "PO", !.lines = Ordered("PO", t.lines)]

\* A sales order of t as Made has it, and the purchase order beside it.
LEMMA PurchaseIs ==
    ASSUME NEW t \in Task, t.quote \in Quote, NEW r \in Revision, NEW n, NEW m,
           Done(n, "SO", r, t), Done(m, "PO", r, t)
    PROVE  m \in DOMAIN orders /\ orders[m] = PurchaseOf(orders[n], t)
<1>1. PICK a \in SUBSET Line : a = Ordered("SO", t.lines)
  BY OrderedTyped DEF Task
<1>2. PICK b \in SUBSET Line : b = Ordered("PO", t.lines)
  BY OrderedTyped DEF Task
<1>3. PICK q \in Quote : q = t.quote
  OBVIOUS
<1>4. PICK d : d = [kind |-> "SO", quote |-> q, revision |-> r, lines |-> a]
  OBVIOUS
<1>5. d \in Order
  BY <1>4 DEF Order
<1>6. d = orders[n]
  BY <1>1, <1>3, <1>4 DEF Done, Filled
<1>7. /\ m \in DOMAIN orders
      /\ orders[m] = [kind |-> "PO", quote |-> q, revision |-> r, lines |-> b]
  BY <1>2, <1>3 DEF Done, Filled
<1>8. PICK e : e = [d EXCEPT !.kind = "PO", !.lines = b]
  OBVIOUS
<1>9. e = [kind |-> "PO", quote |-> q, revision |-> r, lines |-> b]
  BY <1>4, <1>5, <1>8, OrderTwin
<1> QED BY <1>2, <1>6, <1>7, <1>8, <1>9 DEF PurchaseOf

\* The sales order as it was made from a revision that is still the sent one.
LEMMA SalesIs ==
    ASSUME NEW n, NEW r, NEW t, Done(n, "SO", r, t), AsSent(t, r)
    PROVE  /\ n \in DOMAIN orders
           /\ orders[n].kind = "SO" /\ orders[n].quote = t.quote /\ orders[n].revision = r
           /\ orders[n].lines = Ordered("SO", t.lines)
           /\ t.wasSent /\ r \notin edited => orders[n].lines = Ordered("SO", Items(r))
<1>1. PICK a : a = Ordered("SO", t.lines)
  OBVIOUS
<1>2. /\ n \in DOMAIN orders
      /\ orders[n] = [kind |-> "SO", quote |-> t.quote, revision |-> r, lines |-> a]
  BY <1>1 DEF Done, Filled
<1>3. t.wasSent /\ r \notin edited => t.lines = Items(r)
  BY DEF AsSent
<1>4. t.wasSent /\ r \notin edited => a = Ordered("SO", Items(r))
  BY <1>1, <1>3
<1> QED BY <1>1, <1>2, <1>4

(***************************************************************************)
(* A quote is accepted only when its orders are complete: the sales order, *)
(* and the purchase order of a buyer with a workspace, are there with all  *)
(* the line items that were read, and with those that the revision has at  *)
(* the acceptance, if it was the current one all along and SENT when it    *)
(* was read, and no late edit has touched it.  The revision that was       *)
(* checked is SENT, whatever retries and other requests come between.      *)
(***************************************************************************)
THEOREM AcceptedWhole == Spec => AcceptanceIsWhole
<1>1. ASSUME IInv, [Next]_vars
      PROVE  \A q \in Quote : Becomes(q, "ACCEPTED") /\ ~StatusWritten =>
        LET r == quotes[q].currentRevision IN
        /\ quotes'[q].currentRevision = r
        /\ q \in OfRFQ => rfq = "ACCEPTED"
        /\ \E w \in Worker, n \in DOMAIN orders :
            /\ Ends(w) /\ task[w].quote = q
            /\ revisions'[task[w].revision].status = "SENT"
            /\ orders[n].kind = "SO" /\ orders[n].quote = q
            /\ orders[n].lines = Ordered("SO", task[w].lines)
            /\ orders[n].revision = r /\ task[w].wasSent /\ r \notin edited =>
                  orders[n].lines = Ordered("SO", Items(r))
            /\ q \in WithBuyer =>
                 \E m \in DOMAIN orders :
                    /\ m > n
                    /\ orders[m] = [orders[n] EXCEPT !.kind = "PO",
                                       !.lines = Ordered("PO", task[w].lines)]
  <2> TAKE q \in Quote
  <2> HAVE Becomes(q, "ACCEPTED") /\ ~StatusWritten
  <2>1. quotes'[q].status = "ACCEPTED" /\ quotes'[q].status # quotes[q].status
    BY DEF Becomes
  <2>2. PICK w \in Worker : CommitTransaction(w) /\ Accepts(task[w])
    BY <1>1, <2>1, StatusChanges
  <2>3. PICK o : o = task[w]
    OBVIOUS
  <2>4. PICK v : v = tx[w]
    OBVIOUS
  <2>5. /\ WorkerRight(o, v) /\ v # Closed /\ o.revision \in Revision
        /\ o \in Task /\ o.quote \in Quote
        /\ o.step = "commit" \/ (o.step = "others" /\ o.others = {} /\ Accepts(o))
    BY <1>1, <2>2, <2>3, <2>4, CommitIs
  <2>6. Accepts(o) /\ Ends(w)
    BY <1>1, <2>2, <2>3, CommitEnds
  <2>7. quotes'[q].currentRevision = quotes[q].currentRevision /\ q = o.quote
    <3>1. /\ quotes'[q].currentRevision = quotes[q].currentRevision
          /\ q \in v.wrote /\ q # o.quote => quotes'[q].status = "REJECTED"
          /\ q \notin v.wrote => quotes'[q] = quotes[q]
      BY <1>1, <2>2, <2>3, <2>4, <2>6, CommitAcceptQuote
    <3> QED BY <2>1, <3>1
  <2>8. /\ v.sent = IF o.promote THEN {o.revision} ELSE {}
        /\ q \in OfRFQ => rfq = "ACCEPTED"
    <3>1. /\ v.sent = IF o.promote THEN {o.revision} ELSE {}
          /\ o.step = "commit" => o.quote \notin OfRFQ
          /\ o.step # "commit" => rfq = "ACCEPTED"
      BY <1>1, <2>2, <2>3, <2>4, <2>6, CommitAccept
    <3> QED BY <2>7, <3>1
  <2>9. revisions'[o.revision].status = "SENT"
    <3>1. /\ o.revision \in v.sent => revisions'[o.revision].status = "SENT"
          /\ o.revision \notin v.sent => revisions'[o.revision] = revisions[o.revision]
      BY <1>1, <2>2, <2>3, <2>4, <2>5, CommitIs
    <3>2. IsSent(o.revision) \/ o.promote
      BY <2>5, <2>6 DEF WorkerRight, ContractRight, Open
    <3> QED BY <2>8, <3>1, <3>2 DEF IsSent
  <2>10. Made(o)
    BY <2>5, <2>6 DEF WorkerRight, OrdersRight, Checked, Open
  <2>11. PICK n \in Nat, r \in Revision :
            /\ Done(n, "SO", r, o)
            /\ AsSent(o, r)
            /\ o.quote \in WithBuyer => \E m \in Nat : m > n /\ Done(m, "PO", r, o)
    BY <2>10 DEF Made
  <2>12. /\ n \in DOMAIN orders
         /\ orders[n].kind = "SO" /\ orders[n].quote = o.quote /\ orders[n].revision = r
         /\ orders[n].lines = Ordered("SO", o.lines)
         /\ o.wasSent /\ r \notin edited => orders[n].lines = Ordered("SO", Items(r))
    BY <2>11, SalesIs
  <2>13. ASSUME o.quote \in WithBuyer
         PROVE  \E m \in DOMAIN orders :
                   /\ m > n
                   /\ orders[m] = [orders[n] EXCEPT !.kind = "PO",
                                      !.lines = Ordered("PO", o.lines)]
    <3>1. PICK m \in Nat : m > n /\ Done(m, "PO", r, o)
      BY <2>11, <2>13
    <3>2. m \in DOMAIN orders /\ orders[m] = PurchaseOf(orders[n], o)
      BY <2>5, <2>11, <3>1, PurchaseIs
    <3> QED BY <3>1, <3>2 DEF PurchaseOf
  <2>14. PICK c : c = quotes[q].currentRevision
    OBVIOUS
  <2>15. orders[n].revision = c /\ o.wasSent /\ c \notin edited =>
            orders[n].lines = Ordered("SO", Items(c))
    BY <2>12
  <2>16. \E u \in Worker, k \in DOMAIN orders :
            /\ Ends(u) /\ task[u].quote = q
            /\ revisions'[task[u].revision].status = "SENT"
            /\ orders[k].kind = "SO" /\ orders[k].quote = q
            /\ orders[k].lines = Ordered("SO", task[u].lines)
            /\ orders[k].revision = c /\ task[u].wasSent /\ c \notin edited =>
                  orders[k].lines = Ordered("SO", Items(c))
            /\ q \in WithBuyer =>
                 \E m \in DOMAIN orders :
                    /\ m > k
                    /\ orders[m] = [orders[k] EXCEPT !.kind = "PO",
                                       !.lines = Ordered("PO", task[u].lines)]
    BY <2>3, <2>6, <2>7, <2>9, <2>12, <2>13, <2>15, Zenon
  <2> QED BY <2>7, <2>8, <2>14, <2>16, Zenon
<1> QED BY <1>1, Invariance, PTL DEF Spec, AcceptanceIsWhole
===============================================================================
