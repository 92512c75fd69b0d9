-------------------------------- MODULE Quoting --------------------------------
(***************************************************************************)
(* Quotes, their revisions and the canonical copy of a revision's line     *)
(* items (services/quoting, services/line_items), and the resolver of      *)
(* graphql/schema/quoting.ts that turns a quote into orders and accepts it.*)
(*                                                                         *)
(* A revision is written in one transaction and copied, line by line, to   *)
(* the canonical line items afterwards.  Sending and accepting read, check *)
(* and then write in a transaction; accepting first creates the orders,    *)
(* document by document, from the canonical line items.                    *)
(*                                                                         *)
(* Transactions are those of EventStore: an open one knows which documents *)
(* were committed since its snapshot ("stale") and what it has written.    *)
(* An event on one document in a transaction of its own is one step.       *)
(***************************************************************************)
EXTENDS Integers, Sequences, FiniteSets

CONSTANTS
    Worker,      \* concurrent requests
    Quote,       \* numbered in the order of their creation
    Revision,
    QuoteOf,     \* [Revision -> Quote]
    OfRFQ,       \* quotes that answer the request for quotes
    PageSize,    \* the default limit of listQuotes: 10
    WithBuyer,   \* quotes with a buyerWorkspaceId
    Key,         \* ids of the line items of a revision
    Quantity,    \* the quantities that requests give
    LineSets,    \* bound: the line items that requests give to a revision
    Sent,        \* revisions sent, with StartItems, before the start
    StartItems,
    NoQuote, NoRevision, Closed,
    MaxItems,    \* bound: canonical line items of a revision
    MaxCalls,    \* bound: requests
    MaxTries     \* bound: withTransaction's 120 s of retries, in tries

ItemId == 1 .. MaxItems

\* A line item of a revision has id 0; canonical line items have their own.
Line == [id : ItemId \cup {0}, key : Key, type : {"RENTAL", "SALE", "SERVICE"},
         quantity : Quantity \cup {1}, priced : BOOLEAN]

Doc == Quote \cup Revision

IdsUnique(items) == \A l, m \in items : l.id = m.id => l = m

ASSUME QuoteAssumption ==
    /\ Quote \subseteq Nat
    /\ QuoteOf \in [Revision -> Quote]
    /\ OfRFQ \subseteq Quote /\ IsFiniteSet(OfRFQ) /\ WithBuyer \subseteq Quote
    /\ Quote \cap Revision = {} /\ NoQuote \notin Quote /\ NoRevision \notin Revision
    /\ Sent \subseteq Revision
    /\ \A r, s \in Sent : QuoteOf[r] = QuoteOf[s] => r = s
ASSUME LineAssumption ==
    /\ Quantity \subseteq Nat
    /\ LineSets \cup {StartItems} \subseteq SUBSET Line
    /\ \A lines \in LineSets : lines # {} /\ \A l \in lines : l.id = 0
    /\ StartItems # {} /\ IdsUnique(StartItems) /\ \A l \in StartItems : l.id # 0
ASSUME BoundsAssumption ==
    MaxItems \in Nat /\ MaxCalls \in Nat /\ MaxTries \in Nat /\ PageSize \in Nat

VARIABLES
    quotes,     \* [Quote -> QuoteDoc], committed
    revisions,  \* [Revision -> RevisionDoc], committed
    canonical,  \* [Revision -> its canonical line items that are not deleted]
    rfq,        \* status of the request for quotes
    orders,     \* sales and purchase orders, in order of creation
    exempt,     \* history: quotes that OneAccepted exempts
    edited,     \* history: revisions with line items that changed once SENT
    task,       \* [Worker -> what it is doing]
    tx,         \* [Worker -> its open transaction]
    calls       \* requests so far

db == <<quotes, revisions, canonical, rfq, orders, exempt, edited>>
vars == <<db, task, tx, calls>>

QuoteDoc == [status : {"ACTIVE", "ACCEPTED", "REJECTED"},
             currentRevision : Revision \cup {NoRevision}]

\* Status NONE: not created yet.
RevisionDoc == [status : {"NONE", "DRAFT", "SENT"}, lines : SUBSET Line]

Order == [kind : {"SO", "PO"}, quote : Quote, revision : Revision,
          lines : SUBSET Line]

\* The quotes of the snapshot with those written; the revisions made SENT.
Transaction == [stale : SUBSET Doc, quotes : [Quote -> QuoteDoc],
                wrote : SUBSET Quote, sent : SUBSET Revision]

ASSUME ClosedAssumption == Closed \notin Transaction

Task == [op : {"idle", "draft", "update", "send", "accept", "approve", "reject"},
         step : {"idle", "write", "copy", "list", "sync", "read", "items",
                 "begin", "promote", "quote", "commit", "SO", "fillSO", "PO",
                 "fillPO", "again", "check", "rfq", "active", "others", "reject"},
         quote : Quote \cup {NoQuote},
         revision : Revision \cup {NoRevision},
         status : {"ACTIVE", "ACCEPTED", "REJECTED"},  \* of the quote, as read
         current : BOOLEAN,        \* the quote had a current revision, as read
         wasSent : BOOLEAN,        \* the revision was sent, as read
         lines : SUBSET Line,      \* line items of the revision, as read
         existing : SUBSET Line,   \* canonical line items, as read, to be replaced
         pending : SUBSET Line,    \* line items still to be written
         order : Nat,              \* place in orders of the one being filled
         promote : BOOLEAN,        \* canAcceptDraftRevision
         others : SUBSET Quote,    \* to be rejected
         tries : Nat]              \* runs of the callback so far

Idle == [op |-> "idle", step |-> "idle", quote |-> NoQuote, revision |-> NoRevision,
         status |-> "ACTIVE", current |-> FALSE, wasSent |-> FALSE, lines |-> {},
         existing |-> {}, pending |-> {}, order |-> 0, promote |-> FALSE,
         others |-> {}, tries |-> 0]

Keys(lines) == {l.key : l \in lines}

Accepting(w) == task[w].op \in {"accept", "approve"}

Init ==
    /\ quotes = [q \in Quote |->
           [status |-> "ACTIVE",
            currentRevision |-> IF \E r \in Sent : QuoteOf[r] = q
                                THEN CHOOSE r \in Sent : QuoteOf[r] = q
                                ELSE NoRevision]]
    /\ revisions = [r \in Revision |->
           IF r \in Sent
           THEN [status |-> "SENT", lines |-> {[l EXCEPT !.id = 0] : l \in StartItems}]
           ELSE [status |-> "NONE", lines |-> {}]]
    /\ canonical = [r \in Revision |-> IF r \in Sent THEN StartItems ELSE {}]
    /\ rfq = "SENT"
    /\ orders = <<>>
    /\ exempt = {}
    /\ edited = {}
    /\ task = [w \in Worker |-> Idle]
    /\ tx = [w \in Worker |-> Closed]
    /\ calls = 0
-------------------------------------------------------------------------------
At(w, step) == task[w].step = step

Become(w, t) == task' = [task EXCEPT ![w] = t] /\ UNCHANGED calls
Goto(w, step) == Become(w, [task[w] EXCEPT !.step = step])

\* A step that writes nothing to the database.
Local == UNCHANGED <<db, tx>>

Request(w, t) ==
    /\ task[w] = Idle
    /\ calls < MaxCalls
    /\ calls' = calls + 1
    /\ task' = [task EXCEPT ![w] = t]

Call(op, step, q, r) ==
    [Idle EXCEPT !.op = op, !.step = step, !.quote = q, !.revision = r]

Wrote(v) == IF tx[v] = Closed THEN {} ELSE tx[v].wrote \cup tx[v].sent

\* No other open transaction has written the document.
Writable(w, d) == \A v \in Worker \ {w} : d \notin Wrote(v)

\* WriteConflict: the document was written since the snapshot, or is being.
Conflict(w, d) == d \in tx[w].stale \/ ~Writable(w, d)

\* w commits writes of the documents ds, and has no transaction afterwards.
Committed(w, ds) ==
    tx' = [v \in Worker |-> IF v = w \/ tx[v] = Closed THEN Closed
                            ELSE [tx[v] EXCEPT !.stale = @ \cup ds]]

\* Mutant of Throw: the session is not ended.
ThrowWithinSession(w) == Become(w, Idle) /\ UNCHANGED <<db, tx>>

Throw(w) == Become(w, Idle) /\ tx' = [tx EXCEPT ![w] = Closed] /\ UNCHANGED db

\* withTransaction starts the callback again, or gives up.
Retry(w) ==
    IF task[w].tries < MaxTries
    THEN /\ Become(w, [task[w] EXCEPT !.tries = @ + 1, !.step = "begin", !.others = {}])
         /\ tx' = [tx EXCEPT ![w] = Closed]
         /\ UNCHANGED db
    ELSE Throw(w)
-------------------------------------------------------------------------------
(***************************************************************************)
(* createQuoteRevision and updateQuoteRevision, each with the copy to the  *)
(* canonical line items.  A revision that is created is known to nobody,   *)
(* so its transaction is one step.                                         *)
(***************************************************************************)
CreateQuoteRevision(w) ==
    \E r \in Revision, lines \in LineSets :
        /\ revisions[r].status = "NONE"
        /\ Request(w, Call("draft", "copy", QuoteOf[r], r))
        /\ revisions' = [revisions EXCEPT ![r] = [status |-> "DRAFT", lines |-> lines]]
        /\ UNCHANGED <<quotes, canonical, rfq, orders, exempt, edited, tx>>

Exists(r) == revisions[r].status # "NONE"

\* The revision is read and checked, then prices are looked up.
UpdateQuoteRevision(w) ==
    \E r \in Revision, lines \in LineSets :
        /\ revisions[r].status = "DRAFT"
        /\ Request(w, [Call("update", "write", QuoteOf[r], r) EXCEPT !.lines = lines])
        /\ Local

\* History, of a step that writes line items of r.
NoteEdit(r) ==
    edited' = IF /\ revisions[r].status = "SENT"
                 /\ <<revisions'[r].lines, canonical'[r]>> # <<revisions[r].lines, canonical[r]>>
              THEN edited \cup {r} ELSE edited

WriteRevision(w) ==
    /\ At(w, "write")
    /\ Writable(w, task[w].revision)
    /\ revisions' = [revisions EXCEPT ![task[w].revision].lines = task[w].lines]
    /\ Committed(w, {task[w].revision})
    /\ Goto(w, "copy")
    /\ UNCHANGED <<quotes, canonical, rfq, orders, exempt>>
    /\ NoteEdit(task[w].revision)

\* syncQuoteRevisionLineItemsToCanonicalStore: what should be there ...
CopyRevision(w) ==
    /\ At(w, "copy")
    /\ Become(w, [task[w] EXCEPT !.step = "list", !.lines = revisions[task[w].revision].lines])
    /\ Local

\* ... and what there is.
ListCanonical(w) ==
    /\ At(w, "list")
    /\ Become(w, [task[w] EXCEPT !.step = "sync", !.pending = task[w].lines,
                                 !.existing = canonical[task[w].revision]])
    /\ Local

\* No canonical line item of r has the id, and no copy remembers one.
FreeIds(r) ==
    {n \in ItemId :
        /\ \A m \in canonical[r] : m.id # n
        /\ \A v \in Worker : task[v].revision = r => \A e \in task[v].existing : e.id # n}

\* An update of one that was there, even if deleted since; or a new one.
UpsertLineItem(w) ==
    LET r == task[w].revision IN
    /\ At(w, "sync")
    /\ \E l \in task[w].pending :
        /\ \/ \E e \in task[w].existing :
                /\ e.key = l.key
                /\ canonical' = [canonical EXCEPT ![r] =
                       {IF m.id = e.id THEN [l EXCEPT !.id = e.id] ELSE m : m \in @}]
           \/ \E n \in FreeIds(r) :
                /\ l.key \notin Keys(task[w].existing)
                /\ \A k \in FreeIds(r) : n <= k
                /\ canonical' = [canonical EXCEPT ![r] = @ \cup {[l EXCEPT !.id = n]}]
        /\ Become(w, [task[w] EXCEPT !.pending = @ \ {l}])
    /\ UNCHANGED <<quotes, revisions, rfq, orders, exempt, tx>>
    /\ NoteEdit(r)

Dropped(t) == {e \in t.existing : e.key \notin Keys(t.lines)}

SoftDeleteLineItem(w) ==
    LET r == task[w].revision IN
    /\ At(w, "sync") /\ task[w].pending = {}
    /\ \E e \in Dropped(task[w]) :
        /\ canonical' = [canonical EXCEPT ![r] = {m \in @ : m.id # e.id}]
        /\ Become(w, [task[w] EXCEPT !.existing = @ \ {e}])
    /\ UNCHANGED <<quotes, revisions, rfq, orders, exempt, tx>>
    /\ NoteEdit(r)

Synced(w) ==
    /\ At(w, "sync") /\ task[w].pending = {} /\ Dropped(task[w]) = {}
    /\ Become(w, Idle)
    /\ Local
-------------------------------------------------------------------------------
(***************************************************************************)
(* Transactions of sendQuote and acceptQuote.                              *)
(***************************************************************************)
BeginTransaction(w) ==
    /\ At(w, "begin")
    /\ tx' = [tx EXCEPT ![w] = [stale |-> {}, quotes |-> quotes, wrote |-> {}, sent |-> {}]]
    /\ Goto(w, IF task[w].op = "send" \/ task[w].promote THEN "promote" ELSE "quote")
    /\ UNCHANGED db

PromoteRevision(w) ==
    /\ At(w, "promote")
    /\ IF Conflict(w, task[w].revision) THEN Retry(w)
       ELSE /\ tx' = [tx EXCEPT ![w].sent = @ \cup {task[w].revision}]
            /\ Goto(w, "quote")
            /\ UNCHANGED db

\* The event of quote q in w's transaction leaves the document doc.
WriteQuote(w, q, doc, t) ==
    IF Conflict(w, q) THEN Retry(w)
    ELSE /\ tx' = [tx EXCEPT ![w].quotes[q] = doc, ![w].wrote = @ \cup {q}]
         /\ Become(w, t)
         /\ UNCHANGED db

\* The quotes and revisions with the writes of w's transaction.
QuotesAfter(w) == [q \in Quote |->
    IF q \in tx[w].wrote THEN tx[w].quotes[q] ELSE quotes[q]]
RevisionsAfter(w) == [r \in Revision |->
    IF r \in tx[w].sent THEN [revisions[r] EXCEPT !.status = "SENT"] ELSE revisions[r]]

\* w's acceptance has seen the quote ACTIVE and will not look again.
PastCheck(w) ==
    Accepting(w) /\ task[w].step \in {"check", "begin", "promote", "quote", "rfq",
                                      "active", "others", "commit"}

(***************************************************************************)
(* History, of a commit: a sendQuote has changed the status of its quote,  *)
(* or other acceptances go on beside one that answers the RFQ.             *)
(***************************************************************************)
NoteCommit(w) ==
    LET q == task[w].quote IN
    exempt' = exempt \cup
        IF task[w].op = "send"
        THEN {p \in {q} : quotes'[p].status # quotes[p].status}
        ELSE {p \in OfRFQ : q \in OfRFQ /\
                 \E v \in Worker \ {w} : PastCheck(v) /\ task[v].quote = p}

CommitTransaction(w) ==
    /\ \/ At(w, "commit")
       \/ At(w, "others") /\ task[w].others = {}
    /\ quotes' = QuotesAfter(w)
    /\ revisions' = RevisionsAfter(w)
    /\ NoteCommit(w)
    /\ Committed(w, Wrote(w))
    /\ Become(w, Idle)
    /\ UNCHANGED <<canonical, rfq, orders, edited>>
-------------------------------------------------------------------------------
(***************************************************************************)
(* sendQuote, of a revision of the quote that may have been sent already,  *)
(* and the resolver acceptQuote.  "approve": a seller accepts for the      *)
(* buyer, with an approvalConfirmation.                                    *)
(***************************************************************************)
SendQuote(w) ==
    \E r \in Revision :
        LET q == QuoteOf[r] IN
        /\ Exists(r)
        /\ Request(w, [Call("send", "read", q, r) EXCEPT
                          !.status = quotes[q].status,
                          !.current = quotes[q].currentRevision # NoRevision])
        /\ Local

AcceptQuote(w) ==
    \E q \in Quote, op \in {"accept", "approve"} :
        /\ quotes[q].currentRevision # NoRevision
        /\ Request(w, Call(op, "read", q, quotes[q].currentRevision))
        /\ Local

ReadRevision(w) ==
    /\ At(w, "read")
    /\ LET doc == revisions[task[w].revision] IN
       Become(w, [task[w] EXCEPT !.step = "items", !.lines = doc.lines,
                     !.wasSent = (doc.status = "SENT")])
    /\ Local

\* Both take the canonical line items, if there are any.
LinesRead(w) ==
    IF canonical[task[w].revision] # {} THEN canonical[task[w].revision] ELSE task[w].lines

CheckPrices(w) ==
    /\ At(w, "items") /\ task[w].op = "send"
    /\ IF \A l \in LinesRead(w) : l.priced
       THEN Goto(w, "begin") /\ Local
       ELSE Throw(w)

ReadLineItems(w) ==
    /\ At(w, "items") /\ Accepting(w)
    /\ Become(w, [task[w] EXCEPT !.step = "SO", !.lines = LinesRead(w)])
    /\ Local
-------------------------------------------------------------------------------
\* newQuoteStatus is computed from the quote as it was read at the start.
NewStatus(t) == IF t.current THEN t.status ELSE "ACTIVE"

UpdateSentQuote(w) ==
    /\ At(w, "quote") /\ task[w].op = "send"
    /\ WriteQuote(w, task[w].quote,
                  [status |-> NewStatus(task[w]), currentRevision |-> task[w].revision],
                  [task[w] EXCEPT !.step = "commit"])

(***************************************************************************)
(* Edits, which check nothing but the permission: a request of one step.   *)
(***************************************************************************)
Edit(w) ==
    /\ task[w] = Idle
    /\ calls < MaxCalls
    /\ calls' = calls + 1
    /\ UNCHANGED <<task, rfq, orders>>

\* updateQuote with a currentRevisionId, sent or not.
SetCurrentRevision(w) ==
    \E r \in Revision :
        /\ Edit(w)
        /\ Exists(r) /\ Writable(w, QuoteOf[r])
        /\ quotes' = [quotes EXCEPT ![QuoteOf[r]].currentRevision = r]
        /\ Committed(w, {QuoteOf[r]})
        /\ UNCHANGED <<revisions, canonical, exempt, edited>>

\* updateQuoteStatus, or updateQuote with a status: any of them.
UpdateQuoteStatus(w) ==
    \E q \in Quote, status \in {"ACTIVE", "ACCEPTED", "REJECTED"} :
        /\ Edit(w)
        /\ Writable(w, q)
        /\ quotes' = [quotes EXCEPT ![q].status = status]
        /\ exempt' = exempt \cup {q}
        /\ Committed(w, {q})
        /\ UNCHANGED <<revisions, canonical, edited>>

\* updateLineItem and deleteLineItem of one canonical line item.
EditLineItem(w) ==
    \E r \in Revision : \E l \in canonical[r] :
        /\ Edit(w)
        /\ \E n \in Quantity, b \in BOOLEAN :
              \E new \in {{}, {[l EXCEPT !.quantity = n, !.priced = b]}} :
                  canonical' = [canonical EXCEPT ![r] = (@ \ {l}) \cup new]
        /\ UNCHANGED <<quotes, revisions, exempt, tx>>
        /\ NoteEdit(r)
-------------------------------------------------------------------------------
(***************************************************************************)
(* The orders that acceptQuote creates before it accepts.                  *)
(***************************************************************************)
\* Rentals are ordered one by line; a purchase order has no services.
Ordered(kind, lines) ==
    {IF l.type = "RENTAL" THEN [l EXCEPT !.quantity = 1] ELSE l :
        l \in {m \in lines : kind = "SO" \/ m.type # "SERVICE"}}

\* Mutant of AfterOrder: the purchase order is forgotten.
AlwaysAccept(kind, q) == "again"

AfterOrder(kind, q) == IF kind = "SO" /\ q \in WithBuyer THEN "PO" ELSE "again"

FillingOrder(kind) == IF kind = "SO" THEN "fillSO" ELSE "fillPO"

\* createSalesOrder or createPurchaseOrder, without line items.
CreateOrder(w, kind) ==
    LET lines == Ordered(kind, task[w].lines) IN
    /\ At(w, kind)
    /\ orders' = Append(orders, [kind |-> kind, quote |-> task[w].quote,
                                 revision |-> task[w].revision, lines |-> {}])
    /\ Become(w, [task[w] EXCEPT !.order = Len(orders) + 1, !.pending = lines,
                     !.step = IF lines = {} THEN AfterOrder(kind, task[w].quote)
                              ELSE FillingOrder(kind)])
    /\ UNCHANGED <<quotes, revisions, canonical, rfq, exempt, edited, tx>>

\* One line item of the order, in turn; after the last one the order is done.
CreateLineItem(w, kind) ==
    /\ At(w, FillingOrder(kind))
    /\ \E l \in task[w].pending :
        /\ orders' = [orders EXCEPT ![task[w].order].lines = @ \cup {l}]
        /\ Become(w, [task[w] EXCEPT !.pending = @ \ {l},
                         !.step = IF task[w].pending = {l}
                                  THEN AfterOrder(kind, task[w].quote) ELSE @])
        /\ UNCHANGED <<quotes, revisions, canonical, rfq, exempt, edited, tx>>

CreateSalesOrder(w) == CreateOrder(w, "SO")
CreateSalesOrderLineItem(w) == CreateLineItem(w, "SO")
CreatePurchaseOrder(w) == CreateOrder(w, "PO")
CreatePurchaseOrderLineItem(w) == CreateLineItem(w, "PO")
-------------------------------------------------------------------------------
(***************************************************************************)
(* acceptQuote of the service, which reads the quote and its current       *)
(* revision again.                                                         *)
(***************************************************************************)
\* Mutant of ReadQuoteAgain: the status is not looked at again.
ReadWithoutStatus(w) ==
    /\ At(w, "again")
    /\ Become(w, [task[w] EXCEPT !.step = "check",
                     !.revision = quotes[task[w].quote].currentRevision])
    /\ Local

ReadQuoteAgain(w) ==
    /\ At(w, "again")
    /\ LET doc == quotes[task[w].quote] IN
       IF doc.status # "ACTIVE" THEN Throw(w)
       ELSE /\ Become(w, [task[w] EXCEPT !.step = "check",
                             !.revision = doc.currentRevision])
            /\ Local

CheckRevision(w) ==
    /\ At(w, "check")
    /\ LET r == task[w].revision IN
       IF revisions[r].status = "SENT" \/ task[w].op = "approve"
       THEN /\ Become(w, [task[w] EXCEPT !.step = "begin",
                                       !.promote = (revisions[r].status = "DRAFT")])
            /\ Local
       ELSE Throw(w)

UpdateAcceptedQuote(w) ==
    /\ At(w, "quote") /\ Accepting(w)
    /\ WriteQuote(w, task[w].quote,
                  [tx[w].quotes[task[w].quote] EXCEPT !.status = "ACCEPTED"],
                  [task[w] EXCEPT !.step =
                      IF task[w].quote \in OfRFQ THEN "rfq" ELSE "commit"])

\* updateRFQ is given no session: it commits by itself.
UpdateRFQ(w) ==
    /\ At(w, "rfq")
    /\ rfq' = "ACCEPTED"
    /\ Goto(w, "active")
    /\ UNCHANGED <<quotes, revisions, canonical, orders, exempt, edited, tx>>

Active == {p \in OfRFQ : quotes[p].status = "ACTIVE"}

\* The default page of listQuotes has the newest, q among them or not.
OtherQuotes(q) ==
    {p \in Active \ {q} : Cardinality({o \in Active : o > p}) < PageSize}

\* listQuotes has no session either: it reads what is committed.
ListActiveQuotes(w) ==
    /\ At(w, "active")
    /\ Become(w, [task[w] EXCEPT !.step = "others", !.others = OtherQuotes(task[w].quote)])
    /\ Local

\* Mutant of RejectOtherQuote: the session is not passed on.
RejectWithoutSession(w) ==
    /\ At(w, "others")
    /\ \E p \in task[w].others :
        /\ Writable(w, p)
        /\ quotes' = [quotes EXCEPT ![p].status = "REJECTED"]
        /\ tx' = [v \in Worker |-> IF v = w \/ tx[v] = Closed THEN tx[v]
                                   ELSE [tx[v] EXCEPT !.stale = @ \cup {p}]]
        /\ Become(w, [task[w] EXCEPT !.others = @ \ {p}])
    /\ UNCHANGED <<revisions, canonical, rfq, orders, exempt, edited>>

RejectOtherQuote(w) ==
    /\ At(w, "others")
    /\ \E p \in task[w].others :
        WriteQuote(w, p, [tx[w].quotes[p] EXCEPT !.status = "REJECTED"],
                   [task[w] EXCEPT !.others = @ \ {p}])
-------------------------------------------------------------------------------
(***************************************************************************)
(* rejectQuote: the check, then the event.                                 *)
(***************************************************************************)
RejectQuote(w) ==
    \E q \in Quote :
        /\ quotes[q].status = "ACTIVE"
        /\ Request(w, Call("reject", "reject", q, NoRevision))
        /\ Local

WriteRejection(w) ==
    /\ At(w, "reject")
    /\ Writable(w, task[w].quote)
    /\ quotes' = [quotes EXCEPT ![task[w].quote].status = "REJECTED"]
    /\ Committed(w, {task[w].quote})
    /\ Become(w, Idle)
    /\ UNCHANGED <<revisions, canonical, rfq, orders, exempt, edited>>
-------------------------------------------------------------------------------
\* A transient error, within withTransaction.
TransientFault(w) == tx[w] # Closed /\ Retry(w)

\* An awaited call throws, the quote has expired, or the process dies.
Abort(w) == task[w] # Idle /\ Throw(w)

Next ==
    \E w \in Worker :
        \/ CreateQuoteRevision(w) \/ UpdateQuoteRevision(w) \/ WriteRevision(w)
        \/ CopyRevision(w) \/ ListCanonical(w) \/ UpsertLineItem(w)
        \/ SoftDeleteLineItem(w) \/ Synced(w)
        \/ BeginTransaction(w) \/ PromoteRevision(w) \/ CommitTransaction(w)
        \/ SendQuote(w) \/ CheckPrices(w) \/ UpdateSentQuote(w) \/ SetCurrentRevision(w)
        \/ UpdateQuoteStatus(w) \/ EditLineItem(w)
        \/ AcceptQuote(w) \/ ReadRevision(w) \/ ReadLineItems(w)
        \/ CreateSalesOrder(w) \/ CreateSalesOrderLineItem(w)
        \/ CreatePurchaseOrder(w) \/ CreatePurchaseOrderLineItem(w)
        \/ ReadQuoteAgain(w) \/ CheckRevision(w) \/ UpdateAcceptedQuote(w)
        \/ UpdateRFQ(w) \/ ListActiveQuotes(w) \/ RejectOtherQuote(w)
        \/ RejectQuote(w) \/ WriteRejection(w)
        \/ TransientFault(w) \/ Abort(w)

Spec == Init /\ [][Next]_vars
-------------------------------------------------------------------------------
(***************************************************************************)
(* Documents, requests and transactions have their types; only sendQuote   *)
(* and acceptQuote hold a transaction open; canonical line items have ids  *)
(* of their own.                                                           *)
(***************************************************************************)
TypeOK ==
    /\ quotes \in [Quote -> QuoteDoc]
    /\ revisions \in [Revision -> RevisionDoc]
    /\ canonical \in [Revision -> SUBSET Line]
    /\ \A r \in Revision : IdsUnique(canonical[r])
    /\ rfq \in {"SENT", "ACCEPTED"}
    /\ orders \in Seq(Order)
    /\ exempt \subseteq Quote /\ edited \subseteq Revision
    /\ task \in [Worker -> Task]
    /\ \A w \in Worker : tx[w] # Closed => /\ tx[w] \in Transaction
                                           /\ task[w].op \in {"send", "accept", "approve"}
    /\ calls \in 0 .. MaxCalls

\* An edit, or the end of a sendQuote, which write any status.
StatusWritten ==
    calls' # calls \/ \E w \in Worker : task[w].op = "send" /\ task'[w] # task[w]

Becomes(q, status) == quotes[q].status # status /\ quotes'[q].status = status

\* w's acceptance ends in this step.
Ends(w) == Accepting(w) /\ task[w].step \in {"commit", "others"} /\ task'[w] = Idle

\* What is ordered from, and accepted: its canonical line items, if any.
Items(r) == IF canonical[r] # {} THEN canonical[r] ELSE revisions[r].lines

(***************************************************************************)
(* "Only accept the quote after SO/PO have been successfully created": the *)
(* accepted quote has a sales order, and a purchase order if the buyer has *)
(* a workspace, made from the same reading of line items, none missing,    *)
(* and its request for quotes is accepted.  The revision that was checked  *)
(* is SENT, and one sent during the transaction is not overwritten.  Orders*)
(* are made from the revision that was current at the start: if it is the  *)
(* one accepted, and was SENT by then, its line items are ordered as they  *)
(* are at the acceptance, unless they changed after it was SENT, in which  *)
(* an edit, an update or a copy that comes late is not stopped.            *)
(***************************************************************************)
AcceptanceIsWhole ==
    [][\A q \in Quote : Becomes(q, "ACCEPTED") /\ ~StatusWritten =>
        LET r == quotes[q].currentRevision IN
        /\ quotes'[q].currentRevision = r
        /\ q \in OfRFQ => rfq = "ACCEPTED"
        /\ \E w \in Worker, n \in DOMAIN orders :
            /\ Ends(w) /\ task[w].quote = q
            /\ revisions'[task[w].revision].status = "SENT"
            /\ orders[n].kind = "SO" /\ orders[n].quote = q
            /\ orders[n].lines = Ordered("SO", task[w].lines)
            /\ orders[n].revision = r /\ task[w].wasSent /\ r \notin edited =>
                  orders[n].lines = Ordered("SO", Items(r))
            /\ q \in WithBuyer =>
                 \E m \in DOMAIN orders :
                    /\ m > n
                    /\ orders[m] = [orders[n] EXCEPT !.kind = "PO",
                                       !.lines = Ordered("PO", task[w].lines)]]_vars

(***************************************************************************)
(* A quote is rejected by request, or in the very step that commits an     *)
(* acceptance of another quote of its request for quotes: an acceptance    *)
(* that fails or is tried again rejects nobody.  Edits of a status, and    *)
(* the status that sendQuote writes, are left aside.                       *)
(***************************************************************************)
RejectedForAccepted ==
    [][\A q \in Quote : Becomes(q, "REJECTED") /\ ~StatusWritten =>
          \E w \in Worker :
             \/ At(w, "reject") /\ task[w].quote = q
             \/ LET p == task[w].quote IN
                /\ Ends(w) /\ quotes'[p].status = "ACCEPTED"
                /\ p # q /\ {p, q} \subseteq OfRFQ]_vars

(***************************************************************************)
(* One quote of a request for quotes is accepted: the second look at the   *)
(* status makes the long creation of orders before it safe.  Of the quotes *)
(* that the first page has in any case, the newest, this holds with two    *)
(* exceptions, which the code lets happen: a status written by an edit or  *)
(* by sendQuote, and an acceptance that was past its look at the status    *)
(* when another one committed, which it then does not notice or, on a      *)
(* write conflict, overwrites.  A quote created once its rivals have been  *)
(* listed would be a third.                                                *)
(***************************************************************************)
Newest == {q \in OfRFQ : Cardinality({o \in OfRFQ : o > q}) < PageSize}

OneAccepted ==
    \A p, q \in Newest :
        quotes[p].status = "ACCEPTED" /\ quotes[q].status = "ACCEPTED" =>
            p = q \/ {p, q} \cap exempt # {}

(***************************************************************************)
(* "If there was already a revision sent, this is a revision, so don't     *)
(* change status".                                                         *)
(***************************************************************************)
SendKeepsStatus ==
    [][\A w \in Worker : task[w].op = "send" /\ task[w].current =>
          LET q == task[w].quote IN
          task'[w] = Idle => quotes'[q].status = quotes[q].status]_vars
===============================================================================
