# Verification of ERP-API-Willy

TLA+ models of the parts of this service whose correctness depends on what
happens between two awaits, the TLC runs that check them on small instances,
and TLAPS proofs for every value of the constants.

Paths below are relative to the repository root (`src/services/...`); in
`PROJECT.json` they are prefixed by the directory the repository is checked out
in.

## 1. The system

A TypeScript process (Fastify, GraphQL by Nexus) over MongoDB (a replica set,
so multi-document transactions), SpiceDB (relations that decide permissions),
Pulse (jobs kept in a MongoDB collection), OpenSearch, Kafka/ksqlDB copies of
external records, and S3. Requests and jobs run concurrently in one process and
in several; between two awaits any other may run, and any await may fail.

| Component | State it keeps | Operations | What is hard |
|---|---|---|---|
| event store (`lib/eventStore.ts`) | events per aggregate; one state document per aggregate | `applyEvent`, `replay` | two callers on one aggregate; numbering by count; an unsorted fold; retries of the callback; the merge by `$set` |
| fulfilment | rental, sale and service fulfilments (event-sourced), billing position, workflow columns | creation from a sales order item, dates, deletion, nightly and scheduled charges | jobs against requests; a calendar loop; work outside the transaction |
| charges | one document per charge, its invoice if any | create, list, allocate, unallocate, delete all | check-then-act from several services |
| invoices | event-sourced: status, line items, taxes, totals | create, delete, add charges, send, pay, cancel, taxes | two collections and SpiceDB kept in step |
| inventory, reservations | items and their reservations (event-sourced) | create, receive, reserve, cancel a reservation | overlap check against concurrent reservations |
| price engine | none (pure) | `calculateOptimalCost`, `forecastPricing` | rounding between day, week and 28-day prices |
| quoting | RFQs, quotes, revisions | send, accept, reject, revise | sibling quotes; a status read before the transaction |
| sales orders, purchase orders | orders, line items, status | submit, delete, edit lines | submission creates fulfilments and inventory |
| reference numbers | counters, templates | next number, reset, templates | read-then-write counters |
| canonical line items | line items shared by documents | upsert, copy, price | kept in step with the quoting revisions |
| intake forms | forms, submissions, their lines | submit, adopt orphans | submissions without an account, adopted later |
| prices and price books | prices, books, bulk import | create, import, delete | partial import |
| workspaces, authorization | members and roles in SpiceDB, documents | invite, join, archive | two stores without a transaction |
| studio file system, conversations | nodes by path, etags | write, move, delete | optimistic concurrency by etag |
| search indexer, user state | search documents, favourites, recents | index, add, trim | index follows events; bounded lists |
| Pulse jobs | the job collection | define, schedule, cancel | crash and resume, overlapping executions |
| projects, resource map, tags, attributes, vocabulary, contacts, notes, files, users, assets, PIM | single collections | create, update, delete, merge | trees and merges; otherwise one document at a time |
| front ends (GraphQL, agent, MCP, webhooks), e-mail, PDF, images | none of their own | call the services | I/O |

Interactions that matter. Fulfilment creates and deletes charges inside the
transaction of its own event; invoices allocate charges inside theirs; both look
at the charge's `invoiceId`. All event-sourced services share
`lib/eventStore.ts`. Fulfilment schedules and cancels Pulse jobs from inside its
transactions, but not as part of them. An assignment of an item to a rental
writes an event of a reservation and two of the fulfilment in one transaction.
Every service asks SpiceDB for permission
before it acts and some write relations there half-way.

What makes each component correct:

* event store: events of an aggregate are numbered 1, 2, ..., n in commit
  order; the state document is their fold; a call is atomic and answers with
  what held when it took effect.
* fulfilment and charges: a rental pays for every day once; what has been
  invoiced is neither deleted nor re-dated; a deleted rental is not charged; a
  due rental is charged in the end.
* invoices: a charge is on one invoice, once; lines and allocations agree; only
  drafts are deleted, and a deletion is all or nothing.
* reservations: no item is booked twice for one time; an assignment comes with
  the reservation for the rental's dates, all or nothing; a reservation goes
  only with its assignment.
* price engine: a rental costs what the cheapest blocks that last as long cost,
  and a longer rental does not cost less.
* quoting: one quote of an RFQ is accepted, and what is accepted is ordered in
  full. Purchase orders: the inventory of a submission appears whole, together
  with the status. Reference numbers: no number is given out twice.
* projects, resource map, tags: parents and merges form no cycle.

`PROJECT.json` lists every component with its status, and under `hazards` every
place found where one of these could fail and a test would hardly notice.

## 2. Modules

| Module | Models | Status |
|---|---|---|
| `EventLog` | what the event store promises: atomic calls on logs | checked, proved to be implemented |
| `EventStore` | `lib/eventStore.ts` on a replica set | checked, proved |
| `EventStore_proofs` | theorems about it | proved |
| `RentalBilling` | rental fulfilments, their charges and jobs | checked, proved |
| `RentalBilling_proofs` | theorems about it | proved |
| `Invoicing` | invoices, allocation of charges, relations in SpiceDB | checked, proved |
| `Invoicing_proofs` | theorems about it | proved |
| `Reservations` | reservations of items; assignment to rentals and back | checked, proved |
| `Reservations_proofs` | theorems about it | proved |
| `Quoting` | quotes, revisions and their canonical line items; sending, accepting, rejecting | checked, proved |
| `Quoting_proofs` | theorems about it | proved |
| `Orders` | submission of purchase and sales orders, the inventory and fulfilments they make, receipt | checked, proved |
| `Orders_proofs` | theorems about it | proved |
| `PriceEngine` | cost of a rental of some days; the forecast | checked, proved |
| `PriceEngine_proofs` | theorems about it | proved |
| `Induction` | induction over an interval, for the proofs about recursive functions | proved |
| `MC...` | instances of the above for TLC | |

### MongoDB and the driver

All models treat a transaction alike. Its first read takes a snapshot; its
reads see the snapshot and its own writes; a write of a document that was
committed since, or that another open transaction has written, fails with a
`WriteConflict`, which is transient; and `withTransaction` runs the whole
callback again after a transient error until 120 s have passed (`MaxAttempts`,
`MaxTries`). Reads alone conflict with nobody, which is where the disagreements
of section 4 come from. A read without the session sees what is committed at
that moment. These definitions are marked external in the map: they are the
database's rules, as the code in `src/` relies on them.

### EventLog and EventStore

A `Client` is a request or job; its `script` is the list of events that one
callback applies, each in the three round trips of `applyEvent`
(`ProjectCurrentState`, `AppendEvent`, `PersistState`), then `Commit`. `view`,
`inserted` and `written` are what its transaction sees and has written;
`eventsCollection`, `stateCollection` and `version` are committed.
`TransientFault`, `Abort` and the lost answer in `Commit` are the failures; a
process that dies is an `Abort`. `replay` takes no session, so a call of it is a
script of its own, whose one event is `Replay`.

The module's assumptions on `Reducer` are what the four reducers of
`src/services` have in common: an event on an absent aggregate creates it or
throws, every accepted event changes the document (each branch stamps
`updatedAt`), and fields are never dropped (`...state`). The second is what the
event store's numbering rests on: an update that changed nothing would not
conflict with a concurrent one. Timestamps themselves are left out.

`EventLog` is the abstract specification: a call takes effect at one instant on
all its aggregates, or not at all. `EventStore!Log` is the refinement mapping:
the log is the payloads of `eventsCollection` (`StoredLog`), a call in flight is
its script, or the empty one for `replay` (`InFlight`), an answer counts from the
end of the call (`Answered`), and every database step but the commit is a stutter.

### RentalBilling

One fulfilment (they share no documents), its charges, the jobs, and `Worker`s
that each run a request or a job: `CreateFulfilment`, `SetRentalStartDate`,
`SetRentalEndDate`, `SetExpectedRentalEndDate`, `DeleteFulfilment`,
`AddChargeToInvoice`, the nightly query (`NightlyRentalChargesJob`,
`StartChargesJob`) and the executions of jobs (`TakeJob`). `Run...` is the
callback on its snapshot, `CancelDeliveryJobs`, `DeliverNow` and `DeliverLater`
are the steps outside the session, and `Commit`, `WriteConflict`,
`TransientFault`, `CallFails` and `Crash` end a run. `EventStore` shows that
`applyEvent` behaves like a write of the state document at the commit, which is
how it appears here. `CreateRentalCharges` is the billing loop, as a recursive
function over the periods; `CalendarDay` separates instants from days, so that
a period may have no calendar day and be skipped, as in the code.
`hasAnyChargesBeenInvoicedForFulfillment` looks at one page of 100 charges,
listed in no order: `AnyInvoiced` sees any page of `PageSize` charges (`Pages`).
A rental with more charges can thus be restarted, and lose them all, although
one is invoiced; the code does so, and the two properties about invoiced charges
speak of rentals whose charges fit on a page (`OnOnePage`). The list of delivery
charges has a limit of ten, too, but is only asked whether there is one; charges
that users enter by hand are left out.

### Invoicing

Committed `invoices`, `allocation` (the `invoiceId` of charges) and `related`
(SpiceDB), and per `Worker` the request it is in, at the granularity of round
trips: the reads of the invoice without the session (`ReadForDelete`,
`ReadAgain`, `AddChargeToInvoice`), the permission checks inside
`UnallocateChargesFromInvoice` and `AllocateChargeToInvoice`, the events, and
`Unrelate`, which is not undone by an abort. A tax is edited by an event of its
own, after a read; `BaseInvoice` is the reducer that does what the event says,
and `CalculatedTotals` the one that runs after it on every event, and does
nothing before the first line item. Amounts are in cents and rates in
hundredths, so that `Round` is exact; what floating point rounds, the order of
the taxes and the amount shown for each of them are left out. A removed tax is
kept as `REMOVED`, because its id is not used again. `CheckTaxValue` is the check
of `updateTaxLineItem`, which looks at the rate only when the update has one: a
fixed amount of 2 turned into a percentage is 200%, and the totals follow it.

### Reservations

Committed `fulfilments` (the fields an assignment reads or writes, with
`version` counting the writes of each document) and `reservations`; per `Worker`
the request it is in (`task`) and what its open transaction sees and will commit
(`view`). `AssignInventory` starts
`assignInventoryToRentalFulfilmentWithReservation`: `ReadFulfilment` takes the
snapshot, `CheckOverlap` reads without the session, `ReserveForAssignment`,
`AssignInventoryToFulfilment` and `SetPurchaseOrderLineItemId` are the three
events, and `CommitAssignment` makes them visible together. The direct
`CreateFulfilmentReservation` shares `CheckOverlap` and has no transaction around
it. `UnassignInventory` is the resolver: a read, the list of reservations, a look
at each and its deletion in any order (`GetReservation`, `DeleteReservation`,
`AllDeleted`), and the event on the fulfilment. An event in a transaction of its
own is one step, on the strength of `EventStore`; two requests that delete the
same reservation are told apart (the second event throws). Changes of dates and
the deletion of a fulfilment are there because an assignment overlaps them.
`Ordered` is the set of items that have a purchase order line item. The item is
looked up in the middle of an assignment; that it does not exist is an `Abort`.
Pages of the listings are left out.

### Quoting

Committed `quotes` (status and current revision), `revisions`, `canonical` (the
copy of a revision's line items in `services/line_items`), `rfq` and `orders`;
per `Worker` the request it is in (`task`) and its open transaction (`tx`:
which documents were committed since its snapshot, and what it has written).
`CreateQuoteRevision` and `UpdateQuoteRevision` are followed by the copy, item
by item (`ListCanonical`, `UpsertLineItem`, `SoftDeleteLineItem`), outside any
transaction. `SendQuote` reads, `CheckPrices` looks at the copy, and the
transaction makes the revision SENT and writes the status that was read at the
start. `AcceptQuote` is the resolver: it reads the revision and its line items,
creates the sales order and perhaps the purchase order, document by document
(`CreateSalesOrder` to `CreatePurchaseOrderLineItem`), and only then calls the
service, which reads again (`ReadQuoteAgain`, `CheckRevision`), and accepts in
a transaction that also rejects the other quotes of the request for quotes.
`UpdateRFQ` and `ListActiveQuotes` are without the session, as in the code.
`RejectQuote` checks, `WriteRejection` writes. "approve" is an acceptance by
the seller with an `approvalConfirmation`, which may promote a draft. Three
edits are one step each and check the permission only: `SetCurrentRevision`,
`UpdateQuoteStatus` (any status, at any time) and `EditLineItem`, by which
`updateLineItem` and `deleteLineItem` change a canonical line item in place, of a
sent revision, too.

Any two requests run at a time, of whatever kind, and every worker can make
every request. `ListActiveQuotes` sees the newest `PageSize` of the quotes that
are ACTIVE, as `listQuotes` does, whose default limit is ten; a rival beyond it
stays ACTIVE. `Ordered` is what becomes of line items in an order: a rental is
ordered once, whatever its quantity, and a purchase order has no services.

The code lets a good deal happen, the model does it, and the properties are
about the rest. Histories, which no action reads, say where that begins.

* Two acceptances of one request for quotes that are both past their look at
  the status when one of them commits can both succeed: the callback, run again
  after the conflict, does not look at the status again, and lists only the
  rivals that are still ACTIVE. And `updateQuoteStatus`,
  `updateQuote`, or a `sendQuote` with an old reading, writes any status over
  any other. `exempt` has the quotes concerned.
* Line items of a sent revision change: `updateQuoteRevision` and the copy of a
  revision check DRAFT, if at all, long before they write, and `updateLineItem`
  checks the permission only. The order is made from the canonical line items,
  so such a change is what the buyer gets, at a price that `sendQuote` has not
  checked. `edited` has the revisions concerned.
* A revision sent, or set by `updateQuote` with a `currentRevisionId`, after the
  resolver has read the quote is accepted with the orders of the one before
  (`wasSent` and `Order.revision` tell). The revision that the service looks at
  is SENT at the commit; but an `updateQuote` between that look and the snapshot
  puts another one in its place, DRAFT perhaps, and the quote is accepted with
  that.
* An acceptance that fails after `UpdateRFQ` leaves the request for quotes
  ACCEPTED; one that fails leaves its orders, and the next try makes others; the
  copy stays half made when the process dies, and two copies at a time insert a
  line item twice, as no index forbids it; the first sending of a rejected quote
  makes it ACTIVE.

Line items have the ids the client gave them. When it gives none, the reducer
of the revision draws one (`uuidv4`), and draws another at each fold: an id
then lasts until the next event only, which is outside this model. Left out:
the creation of quotes and requests for quotes (all quotes are there from the
start; one created once the rivals have been listed stays ACTIVE, too), the edits
of `updateRFQ`, line items added to the copy by `createLineItem`, the service
tasks made for SERVICE line items, target selectors, order numbers, signatures
and mails.

### Orders

Committed `purchaseOrders`, `purchaseLines`, `salesOrders`, `salesLines`,
`fulfilments` and `inventory`, and `task` and `tx` as in Quoting.
`SubmitPurchaseOrder` begins `submitPurchaseOrder`: `UpdatePurchaseOrderStatus`
is the first write of its transaction, `ListLineItems` reads without the
session, and for each line item `CreateInventory` makes its items,
`ListFulfilments` reads, again without the session, who waits for them, and
`AssignOnOrder` gives them out, swallowing errors; `CommitSubmission` commits. A
swallowed `WriteConflict` has aborted the transaction in MongoDB, so whatever
follows fails transiently and the callback runs again: `AssignOnOrder` goes to
`Retry` at once. `SubmitSalesOrder` is the resolver: a look at the order and a
transaction per line item (`GetSalesOrder`, `CreateFulfilment`), then one write
of the order. `BulkMarkInventoryReceived` receives items in one transaction,
each looked up first without the session (`GetInventory`,
`MarkInventoryReceived`, `CommitReceipt`).

As in the code: a submission looks neither at the status of the order nor at
its deletion, so a second submission orders everything again; a quantity of 0
orders one item (`|| 1`); an item given out by a submission is not reserved
(`reserved`), so `unassignInventoryFromRentalFulfilment` throws for it; a
submission of a sales order that fails half-way leaves fulfilments, and the
next makes them again; a line item deleted after the list still gets its
fulfilment. All items come from purchase line items; the fulfilments `Waiting`
at the start are those of other sales orders. Left out: SALE and SERVICE
fulfilments, items created by hand, returns and serial numbers, the deletion of
purchase orders (which submission ignores), and the overlap check, which
`Reservations` has; billing of the new fulfilments is in `RentalBilling`.

### PriceEngine

`CalculateOptimalCost` compares three ways to cover the days (`Strategy`):
28-day blocks, weeks and single days; the single days replaced by one more
week; everything beyond the 28-day blocks replaced by one more of those. Among
equals the last is taken, as by the `reduce` of the code. `ForecastDay` is one
turn of the loop of `forecastPricing`. Dates are days from the start; amounts
are whole cents. The savings and the text of an option are left out.

The specification of the function is independent of it: `CheapestCoverCharged`
quantifies over all numbers of blocks that last for the days. It asks for
prices that are degressive (a week no dearer than seven days, 28 days no dearer
than four weeks); without that the engine does not look at, say, all days at
the day price, and does not claim to.

## 3. Runs

| Run | Question | Bounds | Result |
|---|---|---|---|
| `event_store` | numbering, order, projection; refinement of `EventLog`; every call settles | 2 clients, 2 aggregates in opposite orders, 3 inserts, 2 attempts, with fairness | holds |
| `rental` | every day billed once, days add up, invoiced charges stay, a deleted rental is not charged | 2 workers, clock 0..3 with 2 units a day, starts {0,1}, end 3, delivery, a page of 2 charges, 2 writes, 2 jobs, 2 tries, 1 fault | holds |
| `rental_live` | a due rental is charged | with fairness | holds |
| `rental_delivery` | at most one delivery charge | one job at a time | violated |
| `invoicing_safe` | lines, allocations, totals, deletion | 2 requests at a time of 5, 2 invoices, 2 charges of 50 cents, a tax of 0.01 or 2 on each | holds |
| `invoicing_delete` | deletion is atomic | 1 invoice, 1 charge, 4 requests | violated |
| `reservations_safe` | double booking in a race only, atomic assignment, release | 2 workers, 2 rentals, 1 item, ordered, dates {1, 3} and a creation on day 2, 3 requests, 1 retry | holds |
| `reservations_race` | no double booking | 2 workers, 2 rentals, 1 item, 2 requests | violated |
| `quoting_safe` | acceptance whole and, but for races, exclusive; rejections with it | 2 workers, any requests, 3 quotes of one request for quotes with a page of 2, 3 revisions of which two are sent, 2 line items, quantity 2, 3 requests, 1 retry | holds |
| `quoting_send` | a later revision does not change the status | the same, 2 requests | violated |
| `orders_safe` | submission whole, assignments kept, items received together, fulfilments before the status | 2 workers, 1 purchase order of 2 line items of 0 or 2 pieces, 1 sales order of 2 line items, 2 fulfilments waiting and 3 ids for others, 4 items, 3 requests, 1 retry | holds |
| `price_forecast` | least cost, monotone, stops with the term | prices of 0, 1, 3 and 9 cents, 58 days, terms ending on day -1, 0, 5, 27 or never | holds |

Why the bounds are enough. Every hazard listed for these modules needs two
actors on shared documents; a third adds interleavings of the same pairs. Two
attempts show a run of the callback whose effects must not survive and one that
succeeds. Three inserts allow a transaction over both aggregates and another
on one of them between its steps. In `RentalBilling` a billing period is one day of two clock
units: the clock then holds a whole period, a part of one, and a part
without a calendar day; two writes are a creation and charges, or a new start
or end over them, while another worker computes. Five requests on invoices are
a creation of two, two additions and a deletion or change of status. A forecast
of 58 days passes each change of block (week, 28 days, twice 28 days); the
prices make each block free, cheap, just degressive or too dear. Three requests on
reservations are two that want the same days and one that interferes; the dates
and the day of creation allow ranges that share a day, contain each other, are
disjoint, or are empty because only one date is set. In `rental` a page of two
lets the charges of two periods, or of a period and the delivery, fit on it, and
those of three not. Three requests on quotes are two acceptances, or a revision
sent or an edit and an acceptance, and one that interferes; of three quotes a
page has two, so that a rival may be missed; two line items tell a copy or an
order half made from a whole one; a quantity of 2 tells a rental, ordered once,
from what is ordered as written. Three requests on orders are a submission, a
second one or a receipt, and one that interferes with it; two pieces per line
item and two fulfilments waiting let a line item have too few, enough or too
many; the three other ids are enough for a submission of a sales order that makes
one of its two fulfilments, fails, and is tried again. The runs
whose requests are bounded may stop, hence `CHECK_DEADLOCK FALSE`; that nothing
waits forever is the subject of the live runs.

Symmetry is used between workers, invoices, charges and line items, in runs
without liveness only.

Fairness. `EventStore!FairSpec` assumes weak fairness of each client's
progress: an awaited driver promise settles. `RentalBilling!FairSpec` assumes
the same of workers, and strong fairness of taking due jobs and of the nightly
query: Pulse polls, and a cron job fires every night, whatever ran before; the
fairness is strong because a `Worker` stands for both requests and jobs, which
in the program do not compete for a place. Faults are bounded and not fair.

Each property of a passing run has a mutant in `PROJECT.json`: a definition
changed as a bug might change it, placed before the original in the module and
marked "Mutant". TLC finds the property violated with it.

## 4. Disagreements with comments of the code

* `src/services/fulfilment/index.ts:243` "Check if delivery charge already
  exists to prevent duplicates". The check reads a snapshot and the insert
  touches no document the other transaction writes. In `rental_delivery` the
  scheduled job, about to commit, and a change of the start date commit one
  charge each.
* `src/services/invoices/index.ts:163` "Use a transaction to ensure atomicity".
  `deleteInvoice` unallocates the charges first; if the invoice is sent before
  `model.deleteInvoice` reads the status again, that answers `false`, the
  callback returns, and the unallocation is committed alone
  (`invoicing_delete`): the invoice keeps its lines, its charges are free to be
  put on another.
* `src/services/inventory/index.ts:462` "is already reserved for the specified
  dates", which `src/test/e2e/fulfilment-inventory-assignment.test.ts:397`
  expects of the second assignment. `createFulfilmentReservation` looks for
  overlaps without the session, and a new document conflicts with nobody: two
  requests that look before either commits both reserve (`reservations_race`).
  This is the only way: of two reservations for one day, one was allowed to
  overlap, or was made between the look and the insert of the other
  (`BookedTwiceByRaceOnly`, `reservations_safe`).

* `src/services/quoting/index.ts:660` "If there was already a revision sent, this
  is a revision, so don't change status", which
  `src/test/e2e/quote-revisions.test.ts:1855` tests for an ACTIVE quote.
  `sendQuote` writes the status it read before its transaction, after several
  awaits: a quote accepted or rejected meanwhile becomes ACTIVE again
  (`quoting_send`).

Beside these, the code lets things happen that no text of the repository
forbids. The models do them, and the properties name them as exceptions:

* Two quotes of one request for quotes are both accepted, if the acceptances
  overlapped past the second look at the status (`src/services/quoting/index.ts:802`
  and the retries of its transaction), if a status was written by an edit or
  `sendQuote`, if there are more than ten quotes and one is beyond the page of
  `listQuotes`, or if a quote was created after the list. `OneAccepted` is about
  the quotes of the first page (`Newest`) without those in `exempt`.
* A quote is accepted with orders of an older revision, or of line items that
  changed after sending. `AcceptanceIsWhole` says in each case that every line
  item that was read was ordered, and only of a revision current and SENT
  from the start, and not `edited`, that these are its line items.
* A rental with more than 100 charges loses invoiced ones when its start is
  moved, if the page looked at has none of them
  (`src/services/charges/index.ts:237`). `InvoicedChargesKept` and
  `StartFixedOnceInvoiced` are about rentals whose charges fit on a page.

## 5. Proofs

`EventStore_proofs` proves, for any clients, aggregates, scripts and any
reducer meeting the assumptions: `TypeCorrect` (`TypeOK`), `NumberingCorrect`
(`SequencesContiguous`), `OrderCorrect` (`NaturalOrder`) and
`ProjectionCorrect` (`StateIsProjection`). The assumptions used are the named
`ASSUME`s of `EventStore`; the rules of MongoDB are part of its actions.

The three properties are not inductive: a commit appends what the transaction
prepared long before. The invariant `IInv` therefore describes open
transactions too. `ViewRight(c, a)` says that the events client `c` would see
of `a` are numbered, ordered, and folded into the document it sees, except
between the insert of an event and the write of the document (`Persisting`);
that as long as nobody has committed `a` since the snapshot, the snapshot is the
committed log; and that a document `c` has written has not been committed since.
`WritersExclude` says that no two open transactions have written one document.
A commit then appends to exactly the log its numbers were counted in. That
`c`'s events of `a` come with a write of `a` uses `ReducerChanges`.

`CallsAreAtomic` is the refinement: `Spec => ImplementsEventLog`. Besides `IInv` it
needs `FInv`, which follows each open call through its script: after n events its
documents are those of the snapshot run through the first n operations, its
answer is what that run tells (`Ran`), what it has inserted for an aggregate is
the script's events on it (`InsertedAre`), and it has written every aggregate it
has touched (`WroteAll`). `EventLog` runs the script on the documents committed at
the instant of the commit, not on the snapshot. The two agree on what was written,
by `IInv`, and the script does not touch the rest (`OverlayRuns`); this is why
`reply` is what the states really were. `StepRefines` maps each action: `Call` to
`Submit`, `Reject` to `Fail`, `Commit` to `Commit`, the others to a stutter.

The fold is a recursive function, and so are those of `EventLog`. Their values on
a longer list are related to those on a prefix by `IntervalInduction` (module
`Induction`), induction over 0..n stated with a set and derived from the
well-foundedness of < on Nat, since the library's induction rules take an operator
as parameter, which the provers here cannot instantiate.

`PriceEngine_proofs` proves the four properties of `price_forecast` for any
prices, term and number of days. `CheapestCover` compares the engine's cost with
any cover of x, y and z blocks: with fewer 28-day blocks than the exact split
has, each missing one is replaced by weeks that cost no less, and each week by
days; with as many, the rest of less than 28 days is covered by at least as many
weeks, or by weeks and days; with more, rounding up to 28 days was an option.
`OneMoreDay` goes over the three ways in which the split of n + 1 days differs
from that of n. Products of two variables are beyond the SMT backend, so each
product is a fact of its own (`ProductNat`, `ProductMonotone`). The invariant of
the forecast, `IInv`, says that every entry, not only the latest, holds the
optimal cost of its days and the cost of the term so far.

`Reservations_proofs` proves the six properties of `reservations_safe` for any
number of concurrent requests and any dates, with no assumption on who runs
beside whom. The invariant `IInv` adds to `TypeOK`:
`WorkerRight`, what a request knows at each step (its item and dates, that those
to be looked up and deleted are its rental's reservations); `SnapshotRight`, that
while the version is the one a transaction read, the dates in its `view` are
those committed and the fulfilment is alive, and that once it has written the
document nobody has committed it since; and `WritersExclude`. The action
properties follow from it, since a commit writes a view whose version is
current. `RacesOnly` strengthens `BookedTwiceByRaceOnly`: for a request that has
found its dates free and not yet reserved (`FoundFree`), every reservation they
meet may be shared or is in `raced`. A reservation that another worker adds is
in `raced` for this very reason (`Races`); `MeetInRange` says that the filter
finds every proper reservation that meets a proper range.

`RentalBilling_proofs` proves the six safety properties of `rental` for any
workers, clock, dates and bounds. Of the calendar it assumes only what the
`ASSUME`s of the module say: an instant has a calendar day, which need not grow
with the instant. The invariant `IInv` has the committed documents right
(`DbRight`: charges have different ids and proper periods, the document counts
its days, and every instant is billed once) and, for every open transaction,
what it would leave behind: `SnapshotRight` says that as long as the revision is
the one it read, its document goes with the charges that stay after its deletions
(`Left`) and those it has inserted, and every instant is billed once by them.
This is what neither of two transactions writes down, and why a job and a new
start date that meet do not bill twice: the commit that comes second finds
another revision. `WorkersApart` says that ids of charges are handed out once, so
that inserting one never merges with another's. The billing loop is a recursive
function over the periods. `LoopRight` is its invariant, from any bill that is
right so far to the next (`BilledMore`: a period that begins where the last ended
adds exactly its own instants), and `IntervalInduction` carries it to the last
period, whether that is a whole one, cut off by the end of the rental, or skipped
for having no calendar day. `InvoicedKept`, `StartFixed` and `DeletedNotCharged`
are action properties: a transaction that deletes charges was opened when none of
them was invoiced, if they fitted on one page (`OnOnePage`: then the page that was
looked at is all of them), and putting one on an invoice writes the same charge.

`Invoicing_proofs` proves the five properties of `invoicing_safe` for any number
of requests, invoices, charges, taxes and failures. `DbRight` says that a draft
lists exactly the charges allocated to it, each once, and that an allocated
charge is on a line. In between, `AddRight` and `DeleteRight` say how far a
transaction has come: an addition that has put the line and not yet the
allocation is one charge ahead (`Current`), a deletion has freed exactly the
charges it has written, and once the invoice itself is written it is the draft
the snapshot saw. `SnapshotRight` relates a snapshot to what is committed by the
versions of the documents, and `WritersExclude` keeps two transactions from one
document. That the subtotal is the sum over the allocated charges
(`DraftTotals`) is part of what the type invariant says of the total, together
with the cardinality of a list without repetition. `DeletesOnlyDrafts` holds
although the status is read without the session: the event conflicts with a
sending that came in between.

`Orders_proofs` proves the five properties of `orders_safe` for any orders, line
items, quantities, workers and failures, from the assumptions of `Orders`: ids of
the three kinds of documents differ, those of items and fulfilments grow with
their creation, and `Closed` is no transaction. The invariant `IInv` says what
each request has by its step (`RequestRight`), that a document of a snapshot is as
committed unless it is stale or written (`SnapshotRight`), and what a transaction
has done so far. For a submission (`SubmissionRight`): the items it has written
are nobody else's, as many for each line item that is done as were listed
(`LinesRight`); each fulfilment it has written waits, as committed, for an item of
its line item, and got one that no other got (`Given`); the items left over are
given to nobody (`SpareRight`). The fulfilments and line items are read without
the session, so what makes `Given` last is the write: whoever commits the
fulfilment first makes the other conflict. For a receipt (`ReceiptRight`), the
items written are those no longer left; for the submission of a sales order
(`FulfilmentRight`), each line item that is done has its fulfilment. A step of
one worker is `Step(w, ds)` for the others, a commit of documents `ds` that they
have not written, and `StepRight` shows once for all steps that it leaves their
`WorkerRight` alone.

`Quoting_proofs` proves the four properties of `quoting_safe` for any workers,
quotes, revisions, line items and page size, from the `ASSUME`s of `Quoting`,
which are about data only: any requests run at once. One invariant, `IInv`, serves
all four. Per request, `RequestRight` says what it has at each step,
`SnapshotRight` that what a transaction has not written is as committed or
stale, and that nobody has committed what it has written, `SendingRight` and
`AcceptingRight` what it has written so far. `ContractRight`: the revision that an
acceptance has checked is SENT, or is being sent with it. `DecisionRight`: past
its look at the status, each quote of the first page is not accepted, or
the pair is excluded by `exempt`, and each other one is in the list to
be rejected, rejected, or excluded. `OrdersRight` follows the orders while they grow, line item by
line item (`Made`, `Half`, `Done`), and `AsSent` keeps that the line items read are
those of the revision until `edited` has it. `OthersRejected`, about committed
quotes, is what makes `OneAccepted` inductive: beside an accepted quote the rest
of the first page is rejected or excluded. The proof that a step of one worker
leaves what the others know alone is made once (`OthersRight`, `StepRight`),
from `Step`, what a step commits, and `Beside`: SENT stays SENT, orders only grow,
and by the order's own worker, and an acceptance that commits puts into `exempt`
whoever is past the look at the status.

Model-checked only: liveness, which is out of the prover's reach (`CallsSettle` of
the event store and `DueRentalIsCharged` of the rentals), and the four runs that
refute a promise.

## 6. Plan

In order of weight:

1. `EventLog`, `EventStore` and proofs. Done.
2. `RentalBilling` and proofs. Done.
3. `Invoicing` and proofs. Done.
4. `Reservations` and proofs. Done.
5. `PriceEngine` and proofs. Done.
6. `Quoting` and proofs. Done.
7. `Orders` and proofs. Done.
8. `ReferenceNumbers`: counters read and then written.
9. Intake forms, workspaces with SpiceDB, the studio file system, the search
   indexer, the trees of projects, locations and tags.
10. Proof of the refinement of `EventLog`. Done.

Not planned: front ends, e-mail, rendering, external copies and catalogue
queries, which only read or pass on; text normalisation of attributes and
vocabulary.
