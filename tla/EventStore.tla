------------------------------ MODULE EventStore ------------------------------
(***************************************************************************)
(* lib/eventStore.ts on a MongoDB replica set.                             *)
(*                                                                         *)
(* Every event-sourced collection of the service (fulfilments, invoices,   *)
(* inventory, inventory_reservations) is an EventStore: a collection of    *)
(* events, from which the state is folded, and a collection with one state *)
(* document per aggregate.  applyEvent reads the events of the aggregate,  *)
(* numbers the new event with their count plus one, reduces, inserts the   *)
(* event and writes the state document, inside the caller's transaction or *)
(* one of its own.  Nothing in that file locks or compares versions: what  *)
(* keeps numbering and document right when two callers meet is MongoDB's   *)
(* rule that two transactions may not write the same document, and the     *)
(* fact that every accepted event changes the document.                    *)
(*                                                                         *)
(* A client is one request or job.  Its transaction applies a script of    *)
(* one or more events, each in three database round trips (find, insertOne,*)
(* updateOne or deleteOne), between which the other clients run.           *)
(***************************************************************************)
EXTENDS Naturals, Sequences

CONSTANTS
    Client,      \* concurrent callers
    Aggregate,   \* aggregate ids
    Event,       \* event payloads
    State,       \* state documents, as functions from fields to values
    Script,      \* what one transaction applies: sequences of operations
    Reducer,     \* [(State \cup {Null}) \X Event -> State \cup {Null, Throw}]
    Replay,      \* stands for the event of a call to replay, which has none
    Null,        \* no state document
    Throw,       \* the reducer or the event schema threw
    None,        \* nothing read yet, nothing being applied
    NoCall,      \* of EventLog: the client has nothing in flight
    MaxRecords,  \* bound: no call starts once this many inserts were tried
    MaxAttempts  \* bound: withTransaction's 120 s of retries, in attempts

Stored == State \cup {Null}

Operation == [aggregate : Aggregate, event : Event \cup {Replay}]

\* replay takes no session: it is a call of its own, never part of a script.
ASSUME ScriptAssumption ==
    /\ Script \subseteq Seq([aggregate : Aggregate, event : Event])
    /\ NoCall \notin Script \cup {<<>>}
ASSUME ValuesAssumption ==
    /\ Null \notin State /\ Throw \notin State /\ Null # Throw
    /\ Replay \notin Event
ASSUME BoundAssumption == MaxRecords \in Nat /\ MaxAttempts \in Nat

(***************************************************************************)
(* What the four reducers have in common, and the event store relies on.   *)
(* An event on an absent aggregate creates it or throws ("Not initialised  *)
(* correctly"); an accepted event changes the document, because every      *)
(* branch stamps updatedAt; and a reducer keeps the fields of the state it *)
(* is given ("...state"), so a $set of the new state leaves nothing behind.*)
(***************************************************************************)
ASSUME ReducerType ==
    Reducer \in [Stored \X Event -> Stored \cup {Throw}]
ASSUME ReducerCreates ==
    \A e \in Event : Reducer[<<Null, e>>] # Null
ASSUME ReducerChanges ==
    \A s \in State, e \in Event : Reducer[<<s, e>>] # s
ASSUME ReducerKeepsFields ==
    \A s \in State, e \in Event :
        Reducer[<<s, e>>] \in State => DOMAIN s \subseteq DOMAIN Reducer[<<s, e>>]
ASSUME StateAssumption ==
    \A s \in State : s = [f \in DOMAIN s |-> s[f]]

VARIABLES
    eventsCollection, \* [Aggregate -> Seq(committed event documents)]
    stateCollection,  \* [Aggregate -> Stored], committed
    version,          \* [Aggregate -> Nat]: committed writes of the document
    records,          \* record ids MongoDB has handed out to inserted events
    pc,               \* [Client -> where its callback is]
    script,           \* [Client -> the events its callback applies]
    step,             \* [Client -> the operation of the script it is at]
    attempts,         \* [Client -> runs of the callback so far]
    view,             \* [Client -> the transaction's snapshot plus own writes]
    inserted,         \* [Client -> events its transaction has inserted]
    written,          \* [Client -> state documents its transaction has written]
    pending,          \* [Client -> the event being applied]
    reply             \* [Client -> what applyEvent returned, per operation]

db == <<eventsCollection, stateCollection, version>>
txn == <<view, inserted, written>>
vars == <<eventsCollection, stateCollection, version, records, pc, script, step,
          attempts, view, inserted, written, pending, reply>>

EventDoc == [sequence : Nat \ {0}, payload : Event, record : Nat]

\* A transaction's view of the database, and the event it is applying.
View == [events : [Aggregate -> Seq(EventDoc)], docs : [Aggregate -> Stored],
         version : [Aggregate -> Nat]]

Pending == [aggregate : Aggregate, payload : Event \cup {Replay},
            sequence : Nat \ {0}, before : Stored, after : Stored]

ASSUME NoneAssumption == None \notin View /\ None \notin Pending

NoInserts == [a \in Aggregate |-> <<>>]

(***************************************************************************)
(* projectCurrentState and replay: the fold of the reducer over event      *)
(* documents, in the order find returned them.  Once the reducer throws    *)
(* the fold has thrown.                                                    *)
(***************************************************************************)
Reduced(state, event) ==
    IF state = Throw THEN Throw ELSE Reducer[<<state, event>>]

Fold(events) ==
    LET fold[i \in 0 .. Len(events)] ==
          IF i = 0 THEN Null ELSE Reduced(fold[i - 1], events[i].payload)
    IN fold

Projection(events) == Fold(events)[Len(events)]

\* Mutant: numbers from zero.
SequenceFromZero(found) == Len(found)

NextSequence(found) == Len(found) + 1

\* updateOne with $set merges the new state into the stored document.
SetFields(stored, state) ==
    IF stored = Null THEN state
    ELSE [f \in DOMAIN stored \cup DOMAIN state |->
            IF f \in DOMAIN state THEN state[f] ELSE stored[f]]

\* Mutant: the deleteOne is missing.
StateNeverDeleted(stored, after) ==
    IF after = Null THEN stored ELSE SetFields(stored, after)

PersistedState(stored, after) ==
    IF after = Null THEN Null ELSE SetFields(stored, after)

Snapshot == [events |-> eventsCollection, docs |-> stateCollection,
             version |-> version]

\* The snapshot is taken by the transaction's first read.
ViewOf(c) == IF view[c] = None THEN Snapshot ELSE view[c]

\* Mutant: find without the session sees what is committed, not own inserts.
FoundOutsideSession(c, v, a) == eventsCollection[a]

\* find with the session of client c, whose transaction has view v.
Found(c, v, a) == v.events[a] \o inserted[c][a]
-------------------------------------------------------------------------------
Init ==
    /\ eventsCollection = [a \in Aggregate |-> <<>>]
    /\ stateCollection = [a \in Aggregate |-> Null]
    /\ version = [a \in Aggregate |-> 0]
    /\ records = 0
    /\ pc = [c \in Client |-> "idle"]
    /\ script = [c \in Client |-> <<>>]
    /\ step = [c \in Client |-> 1]
    /\ attempts = [c \in Client |-> 0]
    /\ view = [c \in Client |-> None]
    /\ inserted = [c \in Client |-> NoInserts]
    /\ written = [c \in Client |-> {}]
    /\ pending = [c \in Client |-> None]
    /\ reply = [c \in Client |-> <<>>]

\* The transaction of c is over: its writes are dropped or have been applied.
EndTransaction(c) ==
    /\ view' = [view EXCEPT ![c] = None]
    /\ inserted' = [inserted EXCEPT ![c] = NoInserts]
    /\ written' = [written EXCEPT ![c] = {}]
    /\ pending' = [pending EXCEPT ![c] = None]

\* The call is over: its promise resolves with an answer, or rejects.
EndCall(c) ==
    /\ pc' = [pc EXCEPT ![c] = "idle"]
    /\ script' = [script EXCEPT ![c] = <<>>]
    /\ step' = [step EXCEPT ![c] = 1]
    /\ attempts' = [attempts EXCEPT ![c] = 0]
    /\ EndTransaction(c)

(***************************************************************************)
(* A caller enters withTransaction with a callback that applies a script   *)
(* (applyEvent without a session is a script of one event), or calls       *)
(* replay on an aggregate.                                                 *)
(***************************************************************************)
Call(c) ==
    /\ pc[c] = "idle"
    /\ records < MaxRecords
    /\ \/ \E s \in Script : script' = [script EXCEPT ![c] = s]
       \/ \E a \in Aggregate : script' =
             [script EXCEPT ![c] = <<[aggregate |-> a, event |-> Replay]>>]
    /\ pc' = [pc EXCEPT ![c] = "apply"]
    /\ step' = [step EXCEPT ![c] = 1]
    /\ attempts' = [attempts EXCEPT ![c] = 1]
    /\ reply' = [reply EXCEPT ![c] = <<>>]
    /\ UNCHANGED <<db, records, txn, pending>>

\* The call ends without effect: abortTransaction, and the promise rejects.
Reject(c) ==
    /\ EndCall(c)
    /\ reply' = [reply EXCEPT ![c] = <<>>]
    /\ UNCHANGED <<db, records>>

(***************************************************************************)
(* A TransientTransactionError: withTransaction aborts and runs the whole  *)
(* callback again on a new snapshot, until its time is up.                 *)
(***************************************************************************)
RunAgain(c) ==
    /\ attempts[c] < MaxAttempts
    /\ attempts' = [attempts EXCEPT ![c] = @ + 1]
    /\ pc' = [pc EXCEPT ![c] = "apply"]
    /\ step' = [step EXCEPT ![c] = 1]
    /\ reply' = [reply EXCEPT ![c] = <<>>]
    /\ EndTransaction(c)
    /\ UNCHANGED <<db, records, script>>

\* Mutant: the retry resumes at the operation that failed.
ResumeOrReject(c) ==
    \/ attempts[c] >= MaxAttempts /\ Reject(c)
    \/ /\ attempts[c] < MaxAttempts
       /\ attempts' = [attempts EXCEPT ![c] = @ + 1]
       /\ pc' = [pc EXCEPT ![c] = "apply"]
       /\ EndTransaction(c)
       /\ UNCHANGED <<db, records, script, step, reply>>

Retry(c) ==
    \/ RunAgain(c)
    \/ attempts[c] >= MaxAttempts /\ Reject(c)
-------------------------------------------------------------------------------
(***************************************************************************)
(* projectCurrentState and the reduction of the new event, up to the       *)
(* insert.  replay folds the same way and goes on to persistState.         *)
(***************************************************************************)
ProjectCurrentState(c) ==
    /\ pc[c] = "apply"
    /\ step[c] <= Len(script[c])
    /\ LET op     == script[c][step[c]]
           found  == Found(c, ViewOf(c), op.aggregate)
           before == Projection(found)
           after  == IF op.event = Replay THEN before
                     ELSE Reduced(before, op.event)
       IN \/ after = Throw /\ Reject(c)
          \/ /\ after # Throw
             /\ view' = [view EXCEPT ![c] = ViewOf(c)]
             /\ pending' = [pending EXCEPT ![c] =
                    [aggregate |-> op.aggregate, payload |-> op.event,
                     sequence |-> NextSequence(found),
                     before |-> before, after |-> after]]
             /\ pc' = [pc EXCEPT ![c] =
                    IF op.event = Replay THEN "persist" ELSE "append"]
             /\ UNCHANGED <<db, records, script, step, attempts, inserted,
                            written, reply>>

\* insertOne: the document gets the collection's next record id.
AppendEvent(c) ==
    /\ pc[c] = "append"
    /\ records' = records + 1
    /\ LET p == pending[c] IN
       inserted' = [inserted EXCEPT ![c][p.aggregate] =
            Append(@, [sequence |-> p.sequence, payload |-> p.payload,
                       record |-> records + 1])]
    /\ pc' = [pc EXCEPT ![c] = "persist"]
    /\ UNCHANGED <<db, script, step, attempts, view, written, pending, reply>>

\* Mutant: only writes still uncommitted are seen as conflicts.
ConflictWithOpenOnly(c, a) == \E d \in Client \ {c} : a \in written[d]

(***************************************************************************)
(* MongoDB: a write of a document that another open transaction has        *)
(* written, or that was committed after this transaction's snapshot, is a  *)
(* WriteConflict.  An update that changes nothing, and a delete of a       *)
(* document that is not there, write nothing and conflict with nobody.     *)
(***************************************************************************)
Conflict(c, a) ==
    \/ version[a] # view[c].version[a]
    \/ \E d \in Client \ {c} : a \in written[d]

\* persistState goes through, and applyEvent returns to the callback.
Persisted(c, a, state) ==
    LET p == pending[c] IN
    /\ view' = [view EXCEPT ![c].docs[a] = state]
    /\ written' = [written EXCEPT ![c] =
                      IF state # view[c].docs[a] THEN @ \cup {a} ELSE @]
    /\ step' = [step EXCEPT ![c] = @ + 1]
    /\ reply' = [reply EXCEPT ![c] =
           IF p.payload = Replay THEN @
           ELSE Append(@, [beforeState |-> p.before, state |-> p.after])]
    /\ pc' = [pc EXCEPT ![c] = "apply"]
    /\ pending' = [pending EXCEPT ![c] = None]
    /\ UNCHANGED <<db, records, script, attempts, inserted>>

\* Mutant: a write waits for the other writer to finish, as under locks.
PersistStateWaiting(c) ==
    /\ pc[c] = "persist"
    /\ LET a     == pending[c].aggregate
           state == PersistedState(view[c].docs[a], pending[c].after)
       IN \/ /\ version[a] # view[c].version[a]
             /\ Retry(c)
          \/ /\ ~Conflict(c, a)
             /\ Persisted(c, a, state)

PersistState(c) ==
    /\ pc[c] = "persist"
    /\ LET a      == pending[c].aggregate
           state  == PersistedState(view[c].docs[a], pending[c].after)
           writes == state # view[c].docs[a]
       IN \/ writes /\ Conflict(c, a) /\ Retry(c)
          \/ ~(writes /\ Conflict(c, a)) /\ Persisted(c, a, state)

(***************************************************************************)
(* The callback returned: commitTransaction.  The inserted events become   *)
(* visible behind those already stored.  The acknowledgement may be lost   *)
(* although the commit took place.                                         *)
(***************************************************************************)
Commit(c) ==
    /\ pc[c] = "apply"
    /\ step[c] > Len(script[c])
    /\ eventsCollection' =
          [a \in Aggregate |-> eventsCollection[a] \o inserted[c][a]]
    /\ stateCollection' =
          [a \in Aggregate |-> IF a \in written[c] THEN view[c].docs[a]
                               ELSE stateCollection[a]]
    /\ version' = [a \in Aggregate |->
                     IF a \in written[c] THEN version[a] + 1 ELSE version[a]]
    /\ \E answer \in {reply[c], <<>>} : reply' = [reply EXCEPT ![c] = answer]
    /\ EndCall(c)
    /\ UNCHANGED records

\* An election, a network error: transient, so the callback is run again.
TransientFault(c) == pc[c] # "idle" /\ Retry(c)

\* Code of the callback around applyEvent throws, or the process dies.
Abort(c) == pc[c] # "idle" /\ Reject(c)

Progress(c) ==
    ProjectCurrentState(c) \/ AppendEvent(c) \/ PersistState(c) \/ Commit(c)

Next == \E c \in Client :
    Call(c) \/ Progress(c) \/ TransientFault(c) \/ Abort(c)

Spec == Init /\ [][Next]_vars

\* Every awaited promise settles, so a callback that can go on does.
FairSpec == Spec /\ \A c \in Client : WF_vars(Progress(c))
-------------------------------------------------------------------------------
(***************************************************************************)
(* The collections hold documents of their schemas, every sequence number  *)
(* is at least 1, and no stored or pending state is the result of a        *)
(* reducer that threw.                                                     *)
(***************************************************************************)
TypeOK ==
    /\ eventsCollection \in [Aggregate -> Seq(EventDoc)]
    /\ stateCollection \in [Aggregate -> Stored]
    /\ version \in [Aggregate -> Nat]
    /\ records \in Nat
    /\ pc \in [Client -> {"idle", "apply", "append", "persist"}]
    /\ script \in [Client -> Seq(Operation)]
    /\ step \in [Client -> Nat \ {0}]
    /\ attempts \in [Client -> Nat]
    /\ view \in [Client -> View \cup {None}]
    /\ inserted \in [Client -> [Aggregate -> Seq(EventDoc)]]
    /\ written \in [Client -> SUBSET Aggregate]
    /\ pending \in [Client -> Pending \cup {None}]

(***************************************************************************)
(* The events of an aggregate are numbered 1, 2, ..., n in the order they  *)
(* were committed: applyEvent's count-plus-one never repeats or skips a    *)
(* number, although it counts in a snapshot.                               *)
(***************************************************************************)
SequencesContiguous ==
    \A a \in Aggregate : \A i \in DOMAIN eventsCollection[a] :
        eventsCollection[a][i].sequence = i

(***************************************************************************)
(* find({ aggregateId }) has no sort and returns documents by record id.   *)
(* Record ids are handed out at insertion, not at commit, yet those of an  *)
(* aggregate never run against the commit order, so the fold reads events  *)
(* in the order they happened.                                             *)
(***************************************************************************)
NaturalOrder ==
    \A a \in Aggregate : \A i, j \in DOMAIN eventsCollection[a] :
        i < j => eventsCollection[a][i].record < eventsCollection[a][j].record

(***************************************************************************)
(* The state document is the fold of the stored events: $set and deleteOne *)
(* leave exactly the reduced state, and replay would change nothing.       *)
(***************************************************************************)
StateIsProjection ==
    \A a \in Aggregate : stateCollection[a] = Projection(eventsCollection[a])

(***************************************************************************)
(* Each call is atomic and returns the states its events really had: the   *)
(* store implements EventLog.  The log of an aggregate is the payloads of  *)
(* its stored events; a call is in flight from its start to its answer,    *)
(* and a call of replay is one that applies nothing.                       *)
(***************************************************************************)
Payloads(events) == [i \in DOMAIN events |-> events[i].payload]

StoredLog == [a \in Aggregate |-> Payloads(eventsCollection[a])]

InFlight == [c \in Client |->
               IF pc[c] = "idle" THEN NoCall
               ELSE IF script[c] \in Script THEN script[c] ELSE <<>>]

Answered == [c \in Client |-> IF pc[c] = "idle" THEN reply[c] ELSE <<>>]

Log == INSTANCE EventLog WITH
    log    <- StoredLog,
    doc    <- stateCollection,
    call   <- InFlight,
    reply  <- Answered,
    Script <- Script \cup {<<>>}

ImplementsEventLog == Log!Spec

\* Every call settles: a conflict never waits, and is retried only so often.
CallsSettle == \A c \in Client : pc[c] # "idle" ~> pc[c] = "idle"
===============================================================================
