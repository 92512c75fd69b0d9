--------------------------- MODULE EventStore_proofs ---------------------------
(***************************************************************************)
(* Proofs about EventStore for every number of clients and aggregates, and *)
(* every reducer that satisfies the assumptions of that module.            *)
(***************************************************************************)
EXTENDS EventStore, Induction, TLAPS
-------------------------------------------------------------------------------
(***************************************************************************)
(* The inductive invariant.  What is stored is right, and so is what each  *)
(* open transaction would see and commit: its events are numbered, ordered *)
(* and folded into its documents, except between the insert of an event    *)
(* and the write of the document; and a document it has written has not    *)
(* been committed by anyone since its snapshot.                            *)
(***************************************************************************)
Numbered(s) == \A i \in DOMAIN s : s[i].sequence = i

InOrder(s) == \A i, j \in DOMAIN s : i < j => s[i].record < s[j].record

Below(s, n) == \A i \in DOMAIN s : s[i].record <= n

\* Transaction c has inserted an event of a whose document it has yet to write.
Persisting(c, a) ==
    pc[c] = "persist" /\ pending[c].aggregate = a /\ pending[c].payload # Replay

PendingRight(c) ==
    LET p == pending[c] IN
    /\ p.payload # Replay => p.after = Reduced(p.before, p.payload)
    /\ p.payload = Replay => p.after = p.before
    /\ p.before = view[c].docs[p.aggregate]

AppendRight(c) ==
    LET p     == pending[c]
        found == Found(c, view[c], p.aggregate)
    IN /\ p.payload # Replay
       /\ p.sequence = Len(found) + 1

ViewRight(c, a) ==
    LET found == Found(c, view[c], a) IN
    /\ view[c].version[a] <= version[a]
    /\ view[c].version[a] = version[a] =>
          view[c].events[a] = eventsCollection[a]
    /\ a \in written[c] => view[c].version[a] = version[a]
    /\ a \notin written[c] /\ ~Persisting(c, a) => inserted[c][a] = <<>>
    /\ Numbered(found) /\ InOrder(found) /\ Below(found, records)
    /\ Persisting(c, a) => Projection(found) = pending[c].after
    /\ ~Persisting(c, a) => Projection(found) = view[c].docs[a]

TransactionRight(c) ==
    /\ pc[c] = "idle" => view[c] = None
    /\ view[c] = None => inserted[c] = NoInserts /\ written[c] = {}
    /\ pc[c] \in {"append", "persist"} =>
          view[c] # None /\ pending[c] # None /\ PendingRight(c)
    /\ pc[c] = "append" => AppendRight(c)
    /\ view[c] # None => \A a \in Aggregate : ViewRight(c, a)

StoreRight ==
    \A a \in Aggregate :
        /\ Numbered(eventsCollection[a])
        /\ InOrder(eventsCollection[a])
        /\ Below(eventsCollection[a], records)
        /\ stateCollection[a] = Projection(eventsCollection[a])

WritersExclude ==
    \A c, d \in Client : c # d => written[c] \cap written[d] = {}

IInv ==
    /\ TypeOK
    /\ StoreRight
    /\ WritersExclude
    /\ \A c \in Client : TransactionRight(c)
-------------------------------------------------------------------------------
(***************************************************************************)
(* The fold.  Runs are the functions the recursive definition of Fold      *)
(* chooses from: there is exactly one for each sequence of events.         *)
(***************************************************************************)
Outcome == Stored \cup {Throw}

IsRun(f, s, n) ==
    /\ f = [i \in 0 .. n |-> f[i]]
    /\ f[0] = Null
    /\ \A i \in 1 .. n : f[i] = Reduced(f[i - 1], s[i].payload)

LEMMA ReducedOutcome ==
    ASSUME NEW x \in Outcome, NEW e \in Event
    PROVE  Reduced(x, e) \in Outcome
BY ReducerType DEF Reduced, Outcome, Stored

LEMMA RunExists ==
    ASSUME NEW s \in Seq(EventDoc)
    PROVE  \E f \in [0 .. Len(s) -> Outcome] : IsRun(f, s, Len(s))
<1> DEFINE S == {n \in 0 .. Len(s) :
                   \E f \in [0 .. n -> Outcome] : IsRun(f, s, n)}
<1>1. 0 \in S
  <2> DEFINE f == [i \in 0 .. 0 |-> Null]
  <2>1. f \in [0 .. 0 -> Outcome]
    BY DEF Outcome, Stored
  <2>2. IsRun(f, s, 0)
    BY DEF IsRun
  <2> QED BY <2>1, <2>2
<1>2. ASSUME NEW n \in Nat, n < Len(s), n \in S
      PROVE  n + 1 \in S
  <2>1. PICK f \in [0 .. n -> Outcome] : IsRun(f, s, n)
    BY <1>2
  <2> DEFINE g == [i \in 0 .. n + 1 |->
                     IF i = n + 1 THEN Reduced(f[n], s[n + 1].payload) ELSE f[i]]
  <2>2. s[n + 1].payload \in Event
    <3>1. n + 1 \in 1 .. Len(s)
      BY <1>2
    <3>2. s[n + 1] \in EventDoc
      BY <3>1
    <3> QED BY <3>2 DEF EventDoc
  <2>3. g \in [0 .. n + 1 -> Outcome]
    BY <2>1, <2>2, ReducedOutcome DEF IsRun
  <2>4. g[0] = Null
    BY <2>1 DEF IsRun
  <2>5. ASSUME NEW i \in 1 .. n + 1
        PROVE  g[i] = Reduced(g[i - 1], s[i].payload)
    <3>1. CASE i = n + 1
      BY <3>1
    <3>2. CASE i # n + 1
      <4>1. i \in 1 .. n /\ i \in 0 .. n /\ i - 1 \in 0 .. n
        BY <3>2
      <4>2. f[i] = Reduced(f[i - 1], s[i].payload)
        BY <4>1, <2>1 DEF IsRun
      <4>3. g[i] = f[i] /\ g[i - 1] = f[i - 1]
        BY <4>1, <3>2
      <4> QED BY <4>2, <4>3
    <3> QED BY <3>1, <3>2
  <2>6. g = [i \in 0 .. n + 1 |-> g[i]]
    OBVIOUS
  <2>7. IsRun(g, s, n + 1)
    BY <2>4, <2>5, <2>6 DEF IsRun
  <2> QED BY <2>3, <2>7, <1>2
<1> HIDE DEF S
<1>3. \A i \in Nat : i < Len(s) /\ i \in S => i + 1 \in S
  BY <1>2
<1>4. Len(s) \in Nat
  OBVIOUS
<1>5. \A i \in 0 .. Len(s) : i \in S
  BY <1>1, <1>3, <1>4, IntervalInduction
<1>6. Len(s) \in S
  BY <1>4, <1>5
<1> QED BY <1>6 DEF S

LEMMA RunUnique ==
    ASSUME NEW s, NEW n \in Nat, NEW m \in Nat, n <= m,
           NEW f, NEW g, IsRun(f, s, n), IsRun(g, s, m)
    PROVE  \A i \in 0 .. n : f[i] = g[i]
<1> DEFINE S == {i \in 0 .. n : f[i] = g[i]}
<1>1. 0 \in S
  BY DEF IsRun
<1>2. ASSUME NEW i \in Nat, i < n, i \in S
      PROVE  i + 1 \in S
  <2>1. i + 1 \in 1 .. n /\ i + 1 \in 1 .. m /\ (i + 1) - 1 = i /\ i + 1 \in 0 .. n
    BY <1>2
  <2>2. f[i + 1] = Reduced(f[i], s[i + 1].payload)
    BY <2>1 DEF IsRun
  <2>3. g[i + 1] = Reduced(g[i], s[i + 1].payload)
    BY <2>1 DEF IsRun
  <2> QED BY <1>2, <2>1, <2>2, <2>3
<1> HIDE DEF S
<1>3. \A i \in 0 .. n : i \in S
  BY <1>1, <1>2, IntervalInduction
<1> QED BY <1>3 DEF S

LEMMA FoldIsRun ==
    ASSUME NEW s \in Seq(EventDoc)
    PROVE  /\ IsRun(Fold(s), s, Len(s))
           /\ Fold(s) \in [0 .. Len(s) -> Outcome]
<1> DEFINE Body(f) == [i \in 0 .. Len(s) |->
                         IF i = 0 THEN Null
                         ELSE Reduced(f[i - 1], s[i].payload)]
<1>1. PICK r \in [0 .. Len(s) -> Outcome] : IsRun(r, s, Len(s))
  BY RunExists
<1>2. r = Body(r)
  <2>1. ASSUME NEW i \in 0 .. Len(s)
        PROVE  r[i] = IF i = 0 THEN Null ELSE Reduced(r[i - 1], s[i].payload)
    <3>1. CASE i = 0
      BY <3>1, <1>1 DEF IsRun
    <3>2. CASE i # 0
      <4>1. i \in 1 .. Len(s)
        BY <3>2
      <4> QED BY <3>2, <4>1, <1>1 DEF IsRun
    <3> QED BY <3>1, <3>2
  <2>2. r = [i \in 0 .. Len(s) |-> r[i]]
    BY <1>1 DEF IsRun
  <2> QED BY <2>1, <2>2
<1>3. Fold(s) = CHOOSE f : f = Body(f)
  BY DEF Fold
<1>4. Fold(s) = Body(Fold(s))
  BY <1>2, <1>3
<1> DEFINE f == Fold(s)
<1> HIDE DEF f
<1>5. /\ f = [i \in 0 .. Len(s) |-> f[i]]
      /\ f[0] = Null
      /\ \A i \in 1 .. Len(s) : f[i] = Reduced(f[i - 1], s[i].payload)
  BY <1>4 DEF f
<1>6. IsRun(f, s, Len(s))
  BY <1>5 DEF IsRun
<1>7. \A i \in 0 .. Len(s) : f[i] = r[i]
  BY <1>1, <1>6, RunUnique
<1>8. f \in [0 .. Len(s) -> Outcome]
  BY <1>5, <1>7
<1> QED
  BY <1>6, <1>8 DEF f

LEMMA ProjectionOfNone == Projection(<<>>) = Null
<1>1. <<>> \in Seq(EventDoc) /\ Len(<<>>) = 0
  OBVIOUS
<1> QED BY <1>1, FoldIsRun DEF Projection, IsRun

LEMMA ProjectionOutcome ==
    ASSUME NEW s \in Seq(EventDoc)
    PROVE  Projection(s) \in Outcome
<1>1. Len(s) \in 0 .. Len(s)
  OBVIOUS
<1> QED BY <1>1, FoldIsRun DEF Projection

(***************************************************************************)
(* Appending an event document to the log reduces the projection by it.    *)
(***************************************************************************)
LEMMA ProjectionOfAppend ==
    ASSUME NEW s \in Seq(EventDoc), NEW d \in EventDoc
    PROVE  Projection(Append(s, d)) = Reduced(Projection(s), d.payload)
<1> DEFINE t == Append(s, d)
           n == Len(s)
<1>1. t \in Seq(EventDoc) /\ n \in Nat /\ Len(t) = n + 1 /\ t[n + 1] = d
  OBVIOUS
<1>2. \A i \in 1 .. n : t[i] = s[i]
  OBVIOUS
<1> HIDE DEF t, n
<1> DEFINE f == Fold(s)
           g == Fold(t)
<1>3. IsRun(f, s, n) /\ IsRun(g, t, n + 1)
  BY <1>1, FoldIsRun DEF n
<1>4. IsRun(f, t, n)
  BY <1>2, <1>3 DEF IsRun
<1>5. n <= n + 1 /\ n \in 0 .. n /\ n + 1 \in 1 .. n + 1 /\ (n + 1) - 1 = n
      /\ n + 1 \in Nat
  BY <1>1
<1> HIDE DEF f, g
<1>6. \A i \in 0 .. n : f[i] = g[i]
  BY <1>1, <1>3, <1>4, <1>5, RunUnique
<1>7. g[n + 1] = Reduced(g[n], t[n + 1].payload)
  BY <1>3, <1>5 DEF IsRun
<1>8. g[n + 1] = Reduced(f[n], d.payload)
  BY <1>1, <1>5, <1>6, <1>7
<1> QED BY <1>1, <1>8 DEF f, g, n, t, Projection

-------------------------------------------------------------------------------
(***************************************************************************)
(* Type correctness.                                                       *)
(***************************************************************************)
LEMMA InitTypeOK == Init => TypeOK
BY BoundAssumption DEF Init, TypeOK, NoInserts, Stored

LEMMA FoundIsEvents ==
    ASSUME TypeOK, NEW c \in Client, NEW a \in Aggregate
    PROVE  /\ ViewOf(c) \in View
           /\ Found(c, ViewOf(c), a) \in Seq(EventDoc)
<1>1. ViewOf(c) \in View
  BY DEF TypeOK, ViewOf, Snapshot, View
<1>2. ViewOf(c).events[a] \in Seq(EventDoc)
  BY <1>1 DEF View
<1>3. inserted[c][a] \in Seq(EventDoc)
  BY DEF TypeOK
<1> QED BY <1>1, <1>2, <1>3 DEF Found

LEMMA EndTransactionType ==
    ASSUME TypeOK, NEW c \in Client, EndTransaction(c)
    PROVE  /\ view' \in [Client -> View \cup {None}]
           /\ inserted' \in [Client -> [Aggregate -> Seq(EventDoc)]]
           /\ written' \in [Client -> SUBSET Aggregate]
           /\ pending' \in [Client -> Pending \cup {None}]
BY DEF TypeOK, EndTransaction, NoInserts

LEMMA RejectType ==
    ASSUME TypeOK, NEW c \in Client, Reject(c)
    PROVE  TypeOK'
BY EndTransactionType DEF TypeOK, Reject, EndCall, db

LEMMA RetryType ==
    ASSUME TypeOK, NEW c \in Client, Retry(c)
    PROVE  TypeOK'
<1>1. CASE RunAgain(c)
  BY <1>1, EndTransactionType DEF TypeOK, RunAgain, db
<1>2. CASE attempts[c] >= MaxAttempts /\ Reject(c)
  BY <1>2, RejectType
<1> QED BY <1>1, <1>2 DEF Retry

LEMMA ScriptTyped ==
    ASSUME NEW s \in Script
    PROVE  s \in Seq(Operation) /\ \A i \in 1 .. Len(s) : s[i].event # Replay
<1>1. PICK Op : Op = [aggregate : Aggregate, event : Event]
  OBVIOUS
<1>2. s \in Seq(Op)
  BY <1>1, ScriptAssumption
<1>3. \A op \in Op : op \in Operation /\ op.event # Replay
  BY <1>1, ValuesAssumption DEF Operation
<1>4. \A i \in 1 .. Len(s) : s[i] \in Op
  BY <1>2
<1>5. s = [i \in 1 .. Len(s) |-> s[i]] /\ Len(s) \in Nat
  BY <1>2
<1> QED BY <1>3, <1>4, <1>5

LEMMA CallType ==
    ASSUME TypeOK, NEW c \in Client, Call(c)
    PROVE  TypeOK'
<1>1. script' \in [Client -> Seq(Operation)]
  <2>1. ASSUME NEW s \in Script, script' = [script EXCEPT ![c] = s]
        PROVE  script' \in [Client -> Seq(Operation)]
    BY <2>1, ScriptTyped DEF TypeOK
  <2>2. ASSUME NEW a \in Aggregate,
               script' = [script EXCEPT ![c] =
                            <<[aggregate |-> a, event |-> Replay]>>]
        PROVE  script' \in [Client -> Seq(Operation)]
    <3>1. [aggregate |-> a, event |-> Replay] \in Operation
      BY DEF Operation
    <3> QED BY <2>2, <3>1 DEF TypeOK
  <2> QED BY <2>1, <2>2 DEF Call
<1> QED BY <1>1 DEF Call, TypeOK, db, txn

\* The state persistState writes is the reduced one, if the stored one agrees.
LEMMA PersistedStateType ==
    ASSUME NEW s \in Stored, NEW t \in Stored,
           \/ t = s
           \/ t = Null
           \/ \E e \in Event : t = Reduced(s, e)
    PROVE  PersistedState(s, t) = t
<1>1. CASE t = Null
  BY <1>1 DEF PersistedState
<1>2. CASE t # Null /\ s = Null
  BY <1>2 DEF PersistedState, SetFields
<1>3. CASE t # Null /\ s # Null
  <2>1. s \in State /\ t \in State /\ s # Throw
    BY <1>3, ValuesAssumption DEF Stored
  <2>2. DOMAIN s \subseteq DOMAIN t
    BY <1>3, <2>1, ReducerKeepsFields DEF Reduced
  <2>3. SetFields(s, t) = [f \in DOMAIN s \cup DOMAIN t |->
                             IF f \in DOMAIN t THEN t[f] ELSE s[f]]
    BY <1>3 DEF SetFields
  <2>4. DOMAIN s \cup DOMAIN t = DOMAIN t
    BY <2>2
  <2>5. t = [f \in DOMAIN t |-> t[f]]
    BY <2>1, StateAssumption
  <2>6. SetFields(s, t) = [f \in DOMAIN t |-> t[f]]
    BY <2>3, <2>4
  <2> QED BY <1>3, <2>5, <2>6 DEF PersistedState
<1> QED BY <1>1, <1>2, <1>3

-------------------------------------------------------------------------------
(***************************************************************************)
(* The inductive invariant holds at the start and every step keeps it.     *)
(***************************************************************************)
LEMMA InitIInv == Init => IInv
<1> SUFFICES ASSUME Init PROVE IInv
  OBVIOUS
<1>1. TypeOK
  BY InitTypeOK
<1>2. StoreRight
  BY ProjectionOfNone DEF Init, StoreRight, Numbered, InOrder, Below
<1>3. WritersExclude
  BY DEF Init, WritersExclude
<1>4. \A c \in Client : TransactionRight(c)
  BY DEF Init, TransactionRight
<1> QED BY <1>1, <1>2, <1>3, <1>4 DEF IInv

\* A step of another client that leaves the database alone.
Frame(d) ==
    /\ pc'[d] = pc[d]
    /\ view'[d] = view[d]
    /\ inserted'[d] = inserted[d]
    /\ written'[d] = written[d]
    /\ pending'[d] = pending[d]

LEMMA RecordsAreNat ==
    ASSUME NEW s \in Seq(EventDoc)
    PROVE  \A i \in DOMAIN s : s[i] \in EventDoc /\ s[i].record \in Nat
<1> TAKE i \in DOMAIN s
<1>1. s[i] \in EventDoc
  OBVIOUS
<1> QED BY <1>1 DEF EventDoc

\* What another client would see and commit, when only version numbers move.
LEMMA FrameView ==
    ASSUME TypeOK, TypeOK', NEW d \in Client, NEW a \in Aggregate,
           Frame(d), view[d] # None, ViewRight(d, a), records <= records',
           view[d].version[a] <= version'[a],
           view[d].version[a] = version'[a] =>
              view[d].events[a] = eventsCollection'[a],
           a \in written[d] => view[d].version[a] = version'[a]
    PROVE  ViewRight(d, a)'
<1> DEFINE s == Found(d, view[d], a)
<1>1. Found(d, view[d], a)' = s
  BY DEF Frame, Found
<1>2. Persisting(d, a)' <=> Persisting(d, a)
  BY DEF Frame, Persisting
<1>3. s \in Seq(EventDoc)
  BY DEF TypeOK, Found, View
<1>4. Below(s, records')
  <2>1. \A i \in DOMAIN s : s[i].record \in Nat
    BY <1>3, RecordsAreNat
  <2> QED BY <2>1 DEF ViewRight, Below, TypeOK
<1> HIDE DEF s
<1>5. Numbered(s) /\ InOrder(s)
  BY DEF ViewRight, s
<1>6. /\ Persisting(d, a) => Projection(s) = pending[d].after
      /\ ~Persisting(d, a) => Projection(s) = view[d].docs[a]
      /\ a \notin written[d] /\ ~Persisting(d, a) => inserted[d][a] = <<>>
  BY DEF ViewRight, s
<1> QED
  BY <1>1, <1>2, <1>4, <1>5, <1>6
  DEF ViewRight, Frame, Numbered, InOrder, Below

LEMMA FrameRight ==
    ASSUME TypeOK, TypeOK', NEW d \in Client, TransactionRight(d), Frame(d),
           UNCHANGED db, records <= records'
    PROVE  TransactionRight(d)'
<1>1. /\ pc'[d] = "idle" => view'[d] = None
      /\ view'[d] = None => inserted'[d] = NoInserts /\ written'[d] = {}
  BY DEF TransactionRight, Frame
<1>2. pc'[d] \in {"append", "persist"} =>
          view'[d] # None /\ pending'[d] # None /\ PendingRight(d)'
  BY DEF TransactionRight, Frame, PendingRight
<1>3. pc'[d] = "append" => AppendRight(d)'
  BY DEF TransactionRight, Frame, AppendRight, Found
<1>4. ASSUME view'[d] # None, NEW a \in Aggregate
      PROVE  ViewRight(d, a)'
  <2>1. view[d] # None /\ ViewRight(d, a)
    BY <1>4 DEF TransactionRight, Frame
  <2> QED BY <2>1, FrameView DEF ViewRight, db
<1> QED BY <1>1, <1>2, <1>3, <1>4 DEF TransactionRight

\* The database is as it was, and the records handed out may have grown.
LEMMA StoreKept ==
    ASSUME TypeOK, TypeOK', StoreRight, UNCHANGED db, records <= records'
    PROVE  StoreRight'
<1> SUFFICES ASSUME NEW a \in Aggregate
             PROVE  /\ Numbered(eventsCollection[a])
                    /\ InOrder(eventsCollection[a])
                    /\ Below(eventsCollection[a], records')
                    /\ stateCollection[a] = Projection(eventsCollection[a])
  BY DEF StoreRight, db, Numbered, InOrder, Below
<1>1. \A i \in DOMAIN eventsCollection[a] : eventsCollection[a][i].record \in Nat
  <2>1. eventsCollection[a] \in Seq(EventDoc)
    BY DEF TypeOK
  <2> QED BY <2>1, RecordsAreNat
<1>2. Below(eventsCollection[a], records')
  BY <1>1 DEF StoreRight, Below, TypeOK
<1> QED BY <1>2 DEF StoreRight

\* The transaction of c is aborted; nobody else notices.
LEMMA AbortedRight ==
    ASSUME IInv, TypeOK', NEW c \in Client, EndTransaction(c),
           pc' = [pc EXCEPT ![c] = pc'[c]], pc'[c] \in {"idle", "apply"},
           UNCHANGED db, UNCHANGED records
    PROVE  IInv'
<1>1. StoreRight'
  BY StoreKept DEF IInv, TypeOK
<1>2. WritersExclude'
  BY DEF IInv, WritersExclude, EndTransaction, TypeOK
<1>3. ASSUME NEW d \in Client PROVE TransactionRight(d)'
  <2>1. CASE d = c
    BY <2>1 DEF IInv, TypeOK, EndTransaction, TransactionRight, NoInserts
  <2>2. CASE d # c
    <3>1. Frame(d)
      BY <2>2 DEF Frame, EndTransaction, IInv, TypeOK
    <3>2. TypeOK /\ TransactionRight(d) /\ records <= records'
      BY DEF IInv, TypeOK
    <3> QED BY <3>1, <3>2, FrameRight
  <2> QED BY <2>1, <2>2
<1> QED BY <1>1, <1>2, <1>3 DEF IInv

LEMMA RejectRight ==
    ASSUME IInv, NEW c \in Client, Reject(c)
    PROVE  IInv'
<1>1. TypeOK'
  BY RejectType DEF IInv
<1>2. /\ EndTransaction(c)
      /\ pc' = [pc EXCEPT ![c] = pc'[c]] /\ pc'[c] \in {"idle", "apply"}
      /\ UNCHANGED <<db, records>>
  BY DEF Reject, EndCall, IInv, TypeOK
<1> QED BY <1>1, <1>2, AbortedRight

LEMMA RetryRight ==
    ASSUME IInv, NEW c \in Client, Retry(c)
    PROVE  IInv'
<1>1. CASE RunAgain(c)
  <2>1. TypeOK'
    BY <1>1, RetryType DEF IInv, Retry
  <2>2. /\ EndTransaction(c)
        /\ pc' = [pc EXCEPT ![c] = pc'[c]] /\ pc'[c] \in {"idle", "apply"}
        /\ UNCHANGED <<db, records>>
    BY <1>1 DEF RunAgain, IInv, TypeOK
  <2> QED BY <2>1, <2>2, AbortedRight
<1>2. CASE attempts[c] >= MaxAttempts /\ Reject(c)
  BY <1>2, RejectRight
<1> QED BY <1>1, <1>2 DEF Retry

LEMMA CallRight ==
    ASSUME IInv, NEW c \in Client, Call(c)
    PROVE  IInv'
<1>1. TypeOK'
  BY CallType DEF IInv
<1>2. UNCHANGED <<db, records, view, inserted, written, pending>>
  BY DEF Call, txn
<1>3. StoreRight'
  BY <1>1, <1>2, StoreKept DEF IInv, TypeOK
<1>4. WritersExclude'
  BY <1>2 DEF IInv, WritersExclude
<1>5. ASSUME NEW d \in Client PROVE TransactionRight(d)'
  <2>1. CASE d = c
    <3>1. view[c] = None /\ inserted[c] = NoInserts /\ written[c] = {}
      BY DEF Call, IInv, TransactionRight
    <3>2. pc'[c] = "apply"
      BY DEF Call, IInv, TypeOK
    <3> QED BY <2>1, <3>1, <3>2, <1>2 DEF TransactionRight, NoInserts
  <2>2. CASE d # c
    <3>1. Frame(d)
      BY <2>2, <1>2 DEF Frame, Call, IInv, TypeOK
    <3>2. /\ TypeOK /\ TransactionRight(d) /\ records <= records'
          /\ UNCHANGED db
      BY <1>2 DEF IInv, TypeOK
    <3> QED BY <1>1, <3>1, <3>2, FrameRight
  <2> QED BY <2>1, <2>2
<1> QED BY <1>1, <1>3, <1>4, <1>5 DEF IInv

-------------------------------------------------------------------------------
\* The first read's snapshot is as right as the store it is taken of.
LEMMA ViewOfRight ==
    ASSUME IInv, NEW c \in Client, pc[c] = "apply", NEW a \in Aggregate
    PROVE  LET v == ViewOf(c)
               s == Found(c, v, a)
           IN /\ v.version[a] <= version[a]
              /\ v.version[a] = version[a] => v.events[a] = eventsCollection[a]
              /\ a \in written[c] => v.version[a] = version[a]
              /\ a \notin written[c] => inserted[c][a] = <<>>
              /\ Numbered(s) /\ InOrder(s) /\ Below(s, records)
              /\ Projection(s) = v.docs[a]
<1>1. CASE view[c] = None
  <2>1. inserted[c][a] = <<>> /\ written[c] = {}
    BY <1>1 DEF IInv, TransactionRight, NoInserts
  <2>2. /\ ViewOf(c).version[a] = version[a]
        /\ ViewOf(c).events[a] = eventsCollection[a]
        /\ ViewOf(c).docs[a] = stateCollection[a]
    BY <1>1 DEF ViewOf, Snapshot
  <2>3. eventsCollection[a] \in Seq(EventDoc) /\ version[a] \in Nat
    BY DEF IInv, TypeOK
  <2>4. Found(c, ViewOf(c), a) = eventsCollection[a]
    BY <2>1, <2>2, <2>3 DEF Found
  <2> QED BY <2>1, <2>2, <2>3, <2>4 DEF IInv, StoreRight
<1>2. CASE view[c] # None
  <2>1. ViewRight(c, a) /\ ~Persisting(c, a)
    BY <1>2 DEF IInv, TransactionRight, Persisting
  <2> QED BY <1>2, <2>1 DEF ViewRight, ViewOf
<1> QED BY <1>1, <1>2

LEMMA ProjectRight ==
    ASSUME IInv, NEW c \in Client, ProjectCurrentState(c)
    PROVE  IInv'
<1> DEFINE op     == script[c][step[c]]
           found  == Found(c, ViewOf(c), op.aggregate)
           before == Projection(found)
           after  == IF op.event = Replay THEN before
                     ELSE Reduced(before, op.event)
<1>1. CASE after = Throw /\ Reject(c)
  BY <1>1, RejectRight
<1>2. CASE /\ after # Throw
           /\ view' = [view EXCEPT ![c] = ViewOf(c)]
           /\ pending' = [pending EXCEPT ![c] =
                  [aggregate |-> op.aggregate, payload |-> op.event,
                   sequence |-> NextSequence(found),
                   before |-> before, after |-> after]]
           /\ pc' = [pc EXCEPT ![c] =
                  IF op.event = Replay THEN "persist" ELSE "append"]
           /\ UNCHANGED <<db, records, script, step, attempts, inserted,
                          written, reply>>
  <2>1. op \in Operation
    <3>1. script[c] \in Seq(Operation) /\ step[c] \in 1 .. Len(script[c])
      BY DEF ProjectCurrentState, IInv, TypeOK
    <3> QED BY <3>1
  <2>2. op.aggregate \in Aggregate /\ op.event \in Event \cup {Replay}
    BY <2>1 DEF Operation
  <2>3. /\ ViewOf(c) \in View
        /\ found \in Seq(EventDoc)
    BY <2>2, FoundIsEvents DEF IInv
  <2>4. before = ViewOf(c).docs[op.aggregate]
    BY <2>2, ViewOfRight DEF ProjectCurrentState
  <2>5. before \in Stored
    BY <2>2, <2>3, <2>4 DEF View
  <2>6. after \in Stored
    BY <1>2, <2>2, <2>5, ReducedOutcome DEF Outcome
  <2>7. pending'[c] \in Pending
    BY <1>2, <2>2, <2>3, <2>5, <2>6 DEF Pending, NextSequence, IInv, TypeOK
  <2> HIDE DEF op, found, before, after
  <2>8. TypeOK'
    BY <1>2, <2>3, <2>7 DEF IInv, TypeOK, db
  <2>9. StoreRight'
    BY <1>2, <2>8, StoreKept DEF IInv, TypeOK
  <2>10. WritersExclude'
    BY <1>2 DEF IInv, WritersExclude
  <2>11. ASSUME NEW d \in Client, d # c PROVE TransactionRight(d)'
    <3>1. Frame(d)
      BY <1>2, <2>11 DEF Frame, IInv, TypeOK
    <3>2. TypeOK /\ TransactionRight(d) /\ records <= records' /\ UNCHANGED db
      BY <1>2 DEF IInv, TypeOK
    <3> QED BY <2>8, <3>1, <3>2, FrameRight
  <2>12. TransactionRight(c)'
    <3>1. /\ view'[c] = ViewOf(c) /\ inserted'[c] = inserted[c]
          /\ written'[c] = written[c] /\ version' = version
          /\ eventsCollection' = eventsCollection /\ records' = records
          /\ pc'[c] = IF op.event = Replay THEN "persist" ELSE "append"
          /\ pending'[c] = [aggregate |-> op.aggregate, payload |-> op.event,
                            sequence |-> NextSequence(found),
                            before |-> before, after |-> after]
      BY <1>2 DEF IInv, TypeOK, db
    <3>2. ASSUME NEW a \in Aggregate PROVE ViewRight(c, a)'
      <4>1. Found(c, view[c], a)' = Found(c, ViewOf(c), a)
        BY <3>1 DEF Found
      <4>2. ~Persisting(c, a)'
        BY <3>1 DEF Persisting
      <4>3. pc[c] = "apply"
        BY DEF ProjectCurrentState
      <4> QED
        BY <3>1, <4>1, <4>2, <4>3, ViewOfRight
        DEF ViewRight, Numbered, InOrder, Below
    <3>3. PendingRight(c)'
      BY <2>4, <3>1 DEF PendingRight, after
    <3>4. pc'[c] = "append" => AppendRight(c)'
      <4>1. pending'[c].aggregate = op.aggregate
        BY <3>1
      <4>2. Found(c, view[c], pending[c].aggregate)' = found
        BY <3>1, <4>1 DEF Found, found
      <4>3. pending'[c].sequence = Len(found) + 1
        BY <3>1 DEF NextSequence
      <4>4. pc'[c] = "append" => pending'[c].payload # Replay
        BY <3>1
      <4> QED BY <4>2, <4>3, <4>4 DEF AppendRight
    <3>5. view'[c] = None => inserted'[c] = NoInserts /\ written'[c] = {}
      <4>1. view'[c] = None => view[c] = None
        BY <3>1 DEF ViewOf
      <4> QED BY <3>1, <4>1 DEF IInv, TransactionRight, NoInserts
    <3>6. view'[c] # None /\ pending'[c] # None /\ pc'[c] # "idle"
      BY <2>3, <2>7, <3>1, NoneAssumption
    <3> QED BY <3>2, <3>3, <3>4, <3>5, <3>6 DEF TransactionRight
  <2> QED BY <2>8, <2>9, <2>10, <2>11, <2>12 DEF IInv
<1> QED BY <1>1, <1>2 DEF ProjectCurrentState

LEMMA ConcatAppend ==
    ASSUME NEW s \in Seq(EventDoc), NEW t \in Seq(EventDoc), NEW d \in EventDoc
    PROVE  s \o Append(t, d) = Append(s \o t, d)
OBVIOUS

\* Everyone but c sees the same database and may only gain room for records.
LEMMA OthersRight ==
    ASSUME IInv, TypeOK', NEW c \in Client, UNCHANGED db, records <= records',
           \A d \in Client \ {c} : Frame(d)
    PROVE  StoreRight' /\ \A d \in Client \ {c} : TransactionRight(d)'
<1>1. StoreRight'
  BY StoreKept DEF IInv
<1>2. ASSUME NEW d \in Client \ {c} PROVE TransactionRight(d)'
  <2>1. TypeOK /\ TransactionRight(d) /\ Frame(d)
    BY DEF IInv
  <2> QED BY <2>1, FrameRight
<1> QED BY <1>1, <1>2

LEMMA AppendEventRight ==
    ASSUME IInv, NEW c \in Client, AppendEvent(c)
    PROVE  IInv'
<1> DEFINE p   == pending[c]
           a   == p.aggregate
           doc == [sequence |-> p.sequence, payload |-> p.payload,
                   record |-> records + 1]
           s   == Found(c, view[c], a)
<1>1. /\ pc[c] = "append" /\ view[c] # None /\ p # None
      /\ PendingRight(c) /\ AppendRight(c)
  BY DEF AppendEvent, IInv, TransactionRight
<1>2. p \in Pending /\ view[c] \in View /\ records \in Nat
  BY <1>1 DEF IInv, TypeOK
<1>3. doc \in EventDoc
  BY <1>1, <1>2 DEF Pending, EventDoc, AppendRight
<1>4. a \in Aggregate
  BY <1>2 DEF Pending
<1>5. inserted[c][a] \in Seq(EventDoc) /\ view[c].events[a] \in Seq(EventDoc)
  BY <1>2, <1>4 DEF IInv, TypeOK, View
<1>6. /\ inserted' = [inserted EXCEPT ![c] = [inserted[c] EXCEPT
                          ![a] = Append(inserted[c][a], doc)]]
      /\ records' = records + 1 /\ pc' = [pc EXCEPT ![c] = "persist"]
      /\ UNCHANGED <<db, script, step, attempts, view, written, pending, reply>>
  BY <1>1, <1>4 DEF AppendEvent, IInv, TypeOK
<1>7. TypeOK'
  BY <1>3, <1>4, <1>6 DEF IInv, TypeOK, db
<1>8. WritersExclude'
  BY <1>6 DEF IInv, WritersExclude
<1>9. \A d \in Client \ {c} : Frame(d)
  BY <1>6 DEF Frame, IInv, TypeOK
<1>10. StoreRight' /\ \A d \in Client \ {c} : TransactionRight(d)'
  BY <1>2, <1>6, <1>7, <1>9, OthersRight
<1>11. TransactionRight(c)'
  <2>1. /\ view' = view /\ pending' = pending /\ written' = written
        /\ version' = version /\ eventsCollection' = eventsCollection
        /\ pc'[c] = "persist"
    BY <1>6 DEF IInv, TypeOK, db
  <2>2. ~Persisting(c, a) /\ ViewRight(c, a)
    BY <1>1, <1>4 DEF Persisting, IInv, TransactionRight
  <2>3. s \in Seq(EventDoc)
    BY <1>5 DEF Found
  <2>4. ViewRight(c, a)'
    <3> DEFINE t == Append(s, doc)
    <3>1. (view[c].events[a])' = view[c].events[a]
      BY <2>1
    <3>2. (inserted[c][a])' = Append(inserted[c][a], doc)
      BY <1>4, <1>6, <2>1 DEF IInv, TypeOK
    <3>3. Found(c, view[c], a)' = t
      BY <3>1, <3>2, <1>3, <1>5, ConcatAppend DEF Found
    <3>4. /\ Len(t) = Len(s) + 1 /\ t[Len(s) + 1] = doc
          /\ \A i \in DOMAIN s : t[i] = s[i]
          /\ DOMAIN t = 1 .. Len(s) + 1 /\ DOMAIN s = 1 .. Len(s)
          /\ Len(s) \in Nat
      BY <1>3, <2>3
    <3>5. doc.sequence = Len(s) + 1 /\ doc.record = records + 1
      BY <1>1 DEF AppendRight
    <3>6. \A i \in DOMAIN s : s[i].record \in Nat
      BY <2>3, RecordsAreNat
    <3>7. Projection(t) = p.after
      <4>1. Projection(t) = Reduced(Projection(s), p.payload)
        BY <1>3, <2>3, ProjectionOfAppend
      <4> QED BY <4>1, <1>1, <2>2 DEF ViewRight, PendingRight, AppendRight
    <3> HIDE DEF t, doc, s
    <3>8. Numbered(t)
      BY <2>2, <3>4, <3>5 DEF ViewRight, Numbered, s
    <3>9. InOrder(t) /\ Below(t, records + 1)
      <4>1. \A i \in DOMAIN s : s[i].record <= records
        BY <2>2 DEF ViewRight, Below, s
      <4>2. \A i, j \in DOMAIN s : i < j => s[i].record < s[j].record
        BY <2>2 DEF ViewRight, InOrder, s
      <4>3. \A i \in DOMAIN t : i \in DOMAIN s \/ i = Len(s) + 1
        BY <3>4
      <4>4. \A i \in DOMAIN t : t[i].record \in Nat /\ t[i].record <= records + 1
        BY <1>2, <3>4, <3>5, <3>6, <4>1, <4>3
      <4>5. ASSUME NEW i \in DOMAIN t, NEW j \in DOMAIN t, i < j
            PROVE  t[i].record < t[j].record
        <5>1. i \in DOMAIN s
          BY <3>4, <4>5
        <5>2. CASE j \in DOMAIN s
          BY <5>1, <5>2, <4>2, <4>5, <3>4
        <5>3. CASE j = Len(s) + 1
          BY <5>1, <5>3, <4>1, <3>4, <3>5, <3>6, <1>2
        <5> QED BY <5>2, <5>3, <4>3
      <4> QED BY <4>4, <4>5 DEF InOrder, Below
    <3>10. Persisting(c, a)'
      BY <2>1, <1>1 DEF Persisting, AppendRight
    <3>11. (a \notin written[c] /\ ~Persisting(c, a) => inserted[c][a] = <<>>)'
      BY <3>10
    <3> QED
      BY <1>6, <2>1, <2>2, <3>3, <3>7, <3>8, <3>9, <3>10
      DEF ViewRight, Numbered, InOrder, Below
  <2>5. ASSUME NEW b \in Aggregate, b # a PROVE ViewRight(c, b)'
    <3>1. ViewRight(c, b) /\ ~Persisting(c, b) /\ ~Persisting(c, b)'
      BY <1>1, <2>1, <2>5 DEF IInv, TransactionRight, Persisting
    <3>2. inserted'[c][b] = inserted[c][b]
      BY <1>6, <2>5 DEF IInv, TypeOK
    <3> DEFINE u == Found(c, view[c], b)
    <3>3. Found(c, view[c], b)' = u
      BY <2>1, <3>2 DEF Found
    <3>4. u \in Seq(EventDoc)
      BY <1>2 DEF Found, View, IInv, TypeOK
    <3>5. Below(u, records + 1)
      BY <1>2, <3>1, <3>4, RecordsAreNat DEF ViewRight, Below
    <3> HIDE DEF u
    <3>6. Numbered(u) /\ InOrder(u) /\ Projection(u) = view[c].docs[b]
      BY <3>1 DEF ViewRight, u
    <3>7. /\ view[c].version[b] <= version[b]
          /\ view[c].version[b] = version[b] =>
                view[c].events[b] = eventsCollection[b]
          /\ b \in written[c] => view[c].version[b] = version[b]
          /\ b \notin written[c] => inserted[c][b] = <<>>
      BY <3>1 DEF ViewRight
    <3> QED
      BY <1>6, <2>1, <3>1, <3>2, <3>3, <3>5, <3>6, <3>7
      DEF ViewRight, Numbered, InOrder, Below
  <2>6. PendingRight(c)'
    BY <1>1, <2>1 DEF PendingRight
  <2> QED BY <1>1, <2>1, <2>4, <2>5, <2>6 DEF TransactionRight
<1> QED BY <1>7, <1>8, <1>10, <1>11 DEF IInv

\* What persistState writes is the reduced state, and it writes unless called by replay.
LEMMA WhatPersistStateWrites ==
    ASSUME IInv, NEW c \in Client, pc[c] = "persist"
    PROVE  LET p      == pending[c]
               stored == view[c].docs[p.aggregate]
               state  == PersistedState(stored, p.after)
           IN /\ p \in Pending /\ p.aggregate \in Aggregate /\ view[c] \in View
              /\ p.before = stored /\ p.after \in Stored /\ state = p.after
              /\ p.payload # Replay => p.after = Reduced(stored, p.payload)
              /\ (state # stored) <=> (p.payload # Replay)
<1> DEFINE p      == pending[c]
           a      == p.aggregate
           stored == view[c].docs[a]
           state  == PersistedState(stored, p.after)
<1>1. view[c] # None /\ p # None /\ PendingRight(c)
  BY DEF IInv, TransactionRight
<1>2. p \in Pending /\ view[c] \in View
  BY <1>1 DEF IInv, TypeOK
<1>3. /\ a \in Aggregate /\ stored \in Stored /\ p.after \in Stored
      /\ p.payload \in Event \cup {Replay} /\ p.before = stored
  BY <1>1, <1>2 DEF Pending, View, PendingRight
<1>4. state = p.after
  BY <1>1, <1>3, PersistedStateType DEF PendingRight
<1>5. state # stored <=> p.payload # Replay
  <2>1. CASE p.payload = Replay
    BY <1>1, <1>3, <1>4, <2>1 DEF PendingRight
  <2>2. CASE p.payload # Replay
    <3>1. p.payload \in Event /\ p.after = Reducer[<<stored, p.payload>>]
      BY <1>1, <1>3, <2>2, ValuesAssumption DEF PendingRight, Reduced, Stored
    <3>2. p.after # stored
      BY <1>3, <3>1, ReducerCreates, ReducerChanges DEF Stored
    <3> QED BY <1>4, <2>2, <3>2
  <2> QED BY <2>1, <2>2
<1>6. p.payload # Replay => p.after = Reduced(stored, p.payload)
  BY <1>1, <1>3 DEF PendingRight
<1> QED BY <1>2, <1>3, <1>4, <1>5, <1>6

LEMMA PersistStateRight ==
    ASSUME IInv, NEW c \in Client, PersistState(c)
    PROVE  IInv'
<1> DEFINE p      == pending[c]
           a      == p.aggregate
           stored == view[c].docs[a]
           state  == PersistedState(stored, p.after)
           writes == state # stored
<1>1. CASE writes /\ Conflict(c, a) /\ Retry(c)
  BY <1>1, RetryRight
<1>2. CASE ~(writes /\ Conflict(c, a)) /\ Persisted(c, a, state)
  <2>1. /\ pc[c] = "persist" /\ view[c] # None /\ p # None /\ PendingRight(c)
    BY DEF PersistState, IInv, TransactionRight
  <2>2. p \in Pending /\ view[c] \in View
    BY <2>1, WhatPersistStateWrites
  <2>3. a \in Aggregate /\ p.after \in Stored /\ p.before = stored
    BY <2>1, WhatPersistStateWrites
  <2>4. state = p.after
    BY <2>1, WhatPersistStateWrites
  <2>5. writes <=> p.payload # Replay
    BY <2>1, WhatPersistStateWrites
  <2>6. /\ view' = [view EXCEPT ![c] = [view[c] EXCEPT
                       !.docs = [view[c].docs EXCEPT ![a] = state]]]
        /\ written' = [written EXCEPT ![c] =
                          IF writes THEN written[c] \cup {a} ELSE written[c]]
        /\ step' = [step EXCEPT ![c] = step[c] + 1]
        /\ pc' = [pc EXCEPT ![c] = "apply"]
        /\ pending' = [pending EXCEPT ![c] = None]
        /\ UNCHANGED <<db, records, script, attempts, inserted>>
    BY <1>2, <2>1, <2>2, <2>3 DEF Persisted, IInv, TypeOK, View
  <2> DEFINE mine == IF writes THEN written[c] \cup {a} ELSE written[c]
  <2>7. view'[c] = [events |-> view[c].events, version |-> view[c].version,
                    docs |-> [view[c].docs EXCEPT ![a] = state]]
    BY <2>2, <2>6 DEF IInv, TypeOK, View
  <2>8. view'[c] \in View
    BY <2>2, <2>3, <2>4, <2>7 DEF View
  <2>9. mine \in SUBSET Aggregate /\ written'[c] = mine
    BY <2>3, <2>6 DEF IInv, TypeOK
  <2>10. TypeOK'
    <3>1. view' \in [Client -> View \cup {None}]
      BY <2>6, <2>8 DEF IInv, TypeOK
    <3>2. written' \in [Client -> SUBSET Aggregate]
      BY <2>6, <2>9 DEF IInv, TypeOK
    <3> QED BY <2>6, <3>1, <3>2 DEF IInv, TypeOK, db
  <2>11. \A d \in Client \ {c} : Frame(d)
    BY <2>6 DEF Frame, IInv, TypeOK
  <2>12. UNCHANGED db /\ records <= records'
    BY <2>6 DEF IInv, TypeOK
  <2>13. StoreRight' /\ \A d \in Client \ {c} : TransactionRight(d)'
    BY <2>10, <2>11, <2>12, OthersRight
  <2>14. writes => /\ version[a] = view[c].version[a]
                   /\ \A d \in Client \ {c} : a \notin written[d]
    BY <1>2 DEF Conflict
  <2>15. WritersExclude'
    <3>1. \A d \in Client \ {c} : written'[d] = written[d]
      BY <2>11 DEF Frame
    <3> QED BY <2>9, <2>14, <3>1 DEF IInv, WritersExclude
  <2>16. ASSUME NEW b \in Aggregate PROVE ViewRight(c, b)'
    <3> DEFINE u == Found(c, view[c], b)
    <3>1. Found(c, view[c], b)' = u
      <4>1. view'[c].events = view[c].events /\ inserted' = inserted
        BY <2>6, <2>7
      <4> QED BY <4>1 DEF Found
    <3>2. ViewRight(c, b)
      BY <2>1 DEF IInv, TransactionRight
    <3>3. ~Persisting(c, b)' /\ records' = records
      BY <2>6 DEF Persisting, IInv, TypeOK
    <3>4. Projection(u) = view'[c].docs[b]
      <4>1. CASE b = a
        BY <2>1, <2>2, <2>3, <2>4, <2>5, <2>7, <3>2, <4>1
        DEF ViewRight, Persisting, View
      <4>2. CASE b # a
        BY <2>2, <2>7, <3>2, <4>2 DEF ViewRight, Persisting, View
      <4> QED BY <4>1, <4>2
    <3>5. b \notin mine => inserted[c][b] = <<>>
      BY <2>1, <2>5, <3>2 DEF ViewRight, Persisting
    <3>6. b \in mine => view[c].version[b] = version[b]
      BY <2>14, <3>2 DEF ViewRight
    <3>7. /\ view'[c].version[b] = view[c].version[b]
          /\ view'[c].events[b] = view[c].events[b]
          /\ version'[b] = version[b]
          /\ eventsCollection'[b] = eventsCollection[b]
          /\ inserted'[c][b] = inserted[c][b]
      BY <2>6, <2>7 DEF db
    <3> HIDE DEF u, mine
    <3>8. Numbered(u) /\ InOrder(u) /\ Below(u, records)
      BY <3>2 DEF ViewRight, u
    <3>9. /\ view[c].version[b] <= version[b]
          /\ view[c].version[b] = version[b] =>
                view[c].events[b] = eventsCollection[b]
      BY <3>2 DEF ViewRight
    <3> QED
      BY <2>9, <3>1, <3>3, <3>4, <3>5, <3>6, <3>7, <3>8, <3>9
      DEF ViewRight, Numbered, InOrder, Below
  <2>17. TransactionRight(c)'
    <3>1. view'[c] # None /\ pc'[c] = "apply"
      BY <2>6, <2>8, NoneAssumption DEF IInv, TypeOK
    <3> QED BY <2>16, <3>1 DEF TransactionRight
  <2> QED BY <2>10, <2>13, <2>15, <2>17 DEF IInv
<1> QED BY <1>1, <1>2 DEF PersistState

LEMMA CommitRight ==
    ASSUME IInv, NEW c \in Client, Commit(c)
    PROVE  IInv'
<1>1. ASSUME NEW a \in Aggregate, a \in written[c]
      PROVE  /\ eventsCollection'[a] = Found(c, view[c], a)
             /\ stateCollection'[a] = view[c].docs[a]
             /\ version'[a] = version[a] + 1
             /\ view[c] # None /\ ViewRight(c, a) /\ ~Persisting(c, a)
  <2>1. view[c] # None /\ ViewRight(c, a) /\ ~Persisting(c, a)
    BY <1>1 DEF IInv, TransactionRight, Commit, Persisting
  <2> QED BY <1>1, <2>1 DEF Commit, ViewRight, Found
<1>2. ASSUME NEW a \in Aggregate, a \notin written[c]
      PROVE  /\ eventsCollection'[a] = eventsCollection[a]
             /\ stateCollection'[a] = stateCollection[a]
             /\ version'[a] = version[a]
  <2>1. inserted[c][a] = <<>>
    BY <1>2 DEF IInv, TransactionRight, ViewRight, Persisting, Commit, NoInserts
  <2>2. eventsCollection[a] \in Seq(EventDoc)
    BY DEF IInv, TypeOK
  <2>3. eventsCollection[a] \o inserted[c][a] = eventsCollection[a]
    BY <2>1, <2>2
  <2> QED BY <1>2, <2>3 DEF Commit
<1>3. TypeOK'
  <2>1. eventsCollection' \in [Aggregate -> Seq(EventDoc)]
    BY DEF Commit, IInv, TypeOK
  <2>2. stateCollection' \in [Aggregate -> Stored]
    <3>1. \A a \in written[c] : view[c].docs[a] \in Stored
      BY <1>1 DEF IInv, TypeOK, View
    <3> QED BY <3>1 DEF Commit, IInv, TypeOK
  <2>3. version' \in [Aggregate -> Nat]
    BY DEF Commit, IInv, TypeOK
  <2>4. /\ view' \in [Client -> View \cup {None}]
        /\ inserted' \in [Client -> [Aggregate -> Seq(EventDoc)]]
        /\ written' \in [Client -> SUBSET Aggregate]
        /\ pending' \in [Client -> Pending \cup {None}]
    BY EndTransactionType DEF Commit, EndCall, IInv
  <2>5. /\ pc' \in [Client -> {"idle", "apply", "append", "persist"}]
        /\ script' \in [Client -> Seq(Operation)]
        /\ step' \in [Client -> Nat \ {0}]
        /\ attempts' \in [Client -> Nat]
        /\ records' \in Nat
    BY DEF Commit, EndCall, IInv, TypeOK
  <2> QED BY <2>1, <2>2, <2>3, <2>4, <2>5 DEF TypeOK
<1>4. StoreRight'
  <2> SUFFICES ASSUME NEW a \in Aggregate
               PROVE  /\ Numbered(eventsCollection'[a])
                      /\ InOrder(eventsCollection'[a])
                      /\ Below(eventsCollection'[a], records)
                      /\ stateCollection'[a] = Projection(eventsCollection'[a])
    BY DEF StoreRight, Commit, Numbered, InOrder, Below
  <2>1. CASE a \in written[c]
    BY <1>1, <2>1 DEF ViewRight
  <2>2. CASE a \notin written[c]
    BY <1>2, <2>2 DEF IInv, StoreRight
  <2> QED BY <2>1, <2>2
<1>5. WritersExclude'
  BY DEF IInv, TypeOK, WritersExclude, Commit, EndCall, EndTransaction
<1>6. ASSUME NEW d \in Client PROVE TransactionRight(d)'
  <2>1. CASE d = c
    BY <2>1 DEF Commit, EndCall, EndTransaction, IInv, TypeOK,
                TransactionRight, NoInserts
  <2>2. CASE d # c
    <3>1. Frame(d) /\ TransactionRight(d) /\ TypeOK /\ records' = records
      BY <2>2 DEF Frame, Commit, EndCall, EndTransaction, IInv, TypeOK
    <3>2. ASSUME view'[d] # None, NEW a \in Aggregate
          PROVE  ViewRight(d, a)'
      <4>1. view[d] # None /\ ViewRight(d, a)
        BY <3>1, <3>2 DEF Frame, TransactionRight
      <4>2. view[d].version[a] \in Nat /\ version[a] \in Nat
        BY <4>1 DEF IInv, TypeOK, View
      <4>3. CASE a \in written[c]
        <5>1. a \notin written[d]
          BY <2>2, <4>3 DEF IInv, WritersExclude
        <5>2. view[d].version[a] <= version'[a] /\ view[d].version[a] # version'[a]
          BY <1>1, <4>1, <4>2, <4>3 DEF ViewRight
        <5>3. records <= records'
          BY <3>1 DEF TypeOK
        <5> QED BY <1>3, <3>1, <4>1, <5>1, <5>2, <5>3, FrameView
      <4>4. CASE a \notin written[c]
        <5>1. version'[a] = version[a] /\ eventsCollection'[a] = eventsCollection[a]
          BY <1>2, <4>4
        <5>2. /\ view[d].version[a] <= version'[a]
              /\ view[d].version[a] = version'[a] =>
                    view[d].events[a] = eventsCollection'[a]
              /\ a \in written[d] => view[d].version[a] = version'[a]
          BY <4>1, <5>1 DEF ViewRight
        <5>3. records <= records'
          BY <3>1 DEF TypeOK
        <5> QED BY <1>3, <3>1, <4>1, <5>2, <5>3, FrameView
      <4> QED BY <4>3, <4>4
    <3>3. /\ pc'[d] = "idle" => view'[d] = None
          /\ view'[d] = None => inserted'[d] = NoInserts /\ written'[d] = {}
          /\ pc'[d] \in {"append", "persist"} =>
                view'[d] # None /\ pending'[d] # None /\ PendingRight(d)'
          /\ pc'[d] = "append" => AppendRight(d)'
      BY <3>1 DEF TransactionRight, Frame, PendingRight, AppendRight, Found
    <3> QED BY <3>2, <3>3 DEF TransactionRight
  <2> QED BY <2>1, <2>2
<1> QED BY <1>3, <1>4, <1>5, <1>6 DEF IInv

LEMMA StutterRight ==
    ASSUME IInv, UNCHANGED vars
    PROVE  IInv'
<1>1. TypeOK'
  BY DEF IInv, TypeOK, vars
<1>2. UNCHANGED db /\ records <= records'
  BY DEF IInv, TypeOK, vars, db
<1>3. StoreRight'
  BY <1>1, <1>2, StoreKept DEF IInv
<1>4. \A d \in Client : TransactionRight(d)'
  <2> TAKE d \in Client
  <2>1. Frame(d) /\ TypeOK /\ TransactionRight(d)
    BY DEF Frame, vars, IInv
  <2> QED BY <1>1, <1>2, <2>1, FrameRight
<1>5. WritersExclude'
  BY DEF IInv, WritersExclude, vars
<1> QED BY <1>1, <1>3, <1>4, <1>5 DEF IInv

LEMMA StepRight == IInv /\ [Next]_vars => IInv'
<1> SUFFICES ASSUME IInv, [Next]_vars PROVE IInv'
  OBVIOUS
<1>1. CASE UNCHANGED vars
  BY <1>1, StutterRight
<1>2. ASSUME NEW c \in Client,
             Call(c) \/ Progress(c) \/ TransientFault(c) \/ Abort(c)
      PROVE  IInv'
  <2>1. CASE Call(c)
    BY <2>1, CallRight
  <2>2. CASE ProjectCurrentState(c)
    BY <2>2, ProjectRight
  <2>3. CASE AppendEvent(c)
    BY <2>3, AppendEventRight
  <2>4. CASE PersistState(c)
    BY <2>4, PersistStateRight
  <2>5. CASE Commit(c)
    BY <2>5, CommitRight
  <2>6. CASE TransientFault(c)
    BY <2>6, RetryRight DEF TransientFault
  <2>7. CASE Abort(c)
    BY <2>7, RejectRight DEF Abort
  <2> QED BY <1>2, <2>1, <2>2, <2>3, <2>4, <2>5, <2>6, <2>7 DEF Progress
<1> QED BY <1>1, <1>2 DEF Next

LEMMA Invariance == Spec => []IInv
BY InitIInv, StepRight, PTL DEF Spec

-------------------------------------------------------------------------------
(***************************************************************************)
(* Type correctness of the store: in particular no failed reduction is     *)
(* ever stored, whatever the interleaving of calls, retries and crashes.   *)
(***************************************************************************)
THEOREM TypeCorrect == Spec => []TypeOK
BY Invariance, PTL DEF IInv

(***************************************************************************)
(* applyEvent's count-plus-one numbering: for any number of concurrent     *)
(* callers the stored events of an aggregate are numbered 1, 2, ..., n.    *)
(***************************************************************************)
THEOREM NumberingCorrect == Spec => []SequencesContiguous
<1>1. IInv => SequencesContiguous
  BY DEF IInv, StoreRight, Numbered, SequencesContiguous
<1> QED BY <1>1, Invariance, PTL

(***************************************************************************)
(* The unsorted find of projectCurrentState returns the events of an       *)
(* aggregate in the order they were committed.                             *)
(***************************************************************************)
THEOREM OrderCorrect == Spec => []NaturalOrder
<1>1. IInv => NaturalOrder
  BY DEF IInv, StoreRight, InOrder, NaturalOrder
<1> QED BY <1>1, Invariance, PTL

(***************************************************************************)
(* persistState keeps each state document equal to the fold of the stored  *)
(* events, so that replay is a no-op.                                      *)
(***************************************************************************)
THEOREM ProjectionCorrect == Spec => []StateIsProjection
<1>1. IInv => StateIsProjection
  BY DEF IInv, StoreRight, StateIsProjection
<1> QED BY <1>1, Invariance, PTL
-------------------------------------------------------------------------------
(***************************************************************************)
(* The refinement of EventLog.  A commit in EventStore is the commit of    *)
(* EventLog: what the transaction has computed from its snapshot, event by *)
(* event, is what running its script on the documents of that instant      *)
(* gives.  The functions of EventLog are recursive; they are the only ones *)
(* with the two facts of IsRunning and IsChosen.                           *)
(***************************************************************************)
After(docs, op) ==
    [docs EXCEPT ![op.aggregate] =
        IF @ = Throw THEN Throw ELSE Reducer[<<@, op.event>>]]

IsRunning(f, s, n, d) ==
    /\ f = [i \in 0 .. n |-> f[i]]
    /\ f[0] = d
    /\ \A i \in 1 .. n : f[i] = After(f[i - 1], s[i])

Pick(events, op, a) == IF op.aggregate = a THEN Append(events, op.event) ELSE events

IsChosen(g, s, n, a) ==
    /\ g = [i \in 0 .. n |-> g[i]]
    /\ g[0] = <<>>
    /\ \A i \in 1 .. n : g[i] = Pick(g[i - 1], s[i], a)

LEMMA RunningUnique ==
    ASSUME NEW s, NEW d, NEW n \in Nat, NEW f, NEW h,
           IsRunning(f, s, n, d), IsRunning(h, s, n, d)
    PROVE  f = h
<1> DEFINE S == {i \in 0 .. n : f[i] = h[i]}
<1>1. 0 \in S
  BY DEF IsRunning
<1>2. ASSUME NEW i \in Nat, i < n, i \in S
      PROVE  i + 1 \in S
  <2>1. i + 1 \in 1 .. n /\ (i + 1) - 1 = i /\ i + 1 \in 0 .. n
    BY <1>2
  <2>2. f[i + 1] = After(f[i], s[i + 1]) /\ h[i + 1] = After(h[i], s[i + 1])
    BY <2>1 DEF IsRunning
  <2> QED BY <1>2, <2>1, <2>2
<1> HIDE DEF S
<1>3. \A i \in 0 .. n : i \in S
  BY <1>1, <1>2, IntervalInduction
<1>4. \A i \in 0 .. n : f[i] = h[i]
  BY <1>3 DEF S
<1>5. f = [i \in 0 .. n |-> f[i]] /\ h = [i \in 0 .. n |-> h[i]]
  BY DEF IsRunning
<1> QED BY <1>4, <1>5

LEMMA RunningIs ==
    ASSUME NEW s, Len(s) \in Nat, NEW d, NEW f, IsRunning(f, s, Len(s), d)
    PROVE  Log!Running(s, d) = f
<1> DEFINE Body(h) == [i \in 0 .. Len(s) |->
                         IF i = 0 THEN d ELSE After(h[i - 1], s[i])]
<1>1. f = Body(f)
  <2>1. ASSUME NEW i \in 0 .. Len(s)
        PROVE  f[i] = Body(f)[i]
    <3>1. CASE i = 0
      BY <3>1 DEF IsRunning
    <3>2. CASE i # 0
      <4>1. i \in 1 .. Len(s)
        BY <3>2
      <4> QED BY <3>2, <4>1 DEF IsRunning
    <3> QED BY <3>1, <3>2
  <2>2. f = [i \in 0 .. Len(s) |-> f[i]]
    BY DEF IsRunning
  <2> QED BY <2>1, <2>2
<1> DEFINE h == Log!Running(s, d)
<1>2. h = CHOOSE r : r = Body(r)
  BY DEF Log!Running, After
<1>3. h = Body(h)
  BY <1>1, <1>2
<1> HIDE DEF h
<1>4. /\ h = [i \in 0 .. Len(s) |-> h[i]]
      /\ h[0] = d
      /\ \A i \in 1 .. Len(s) : h[i] = After(h[i - 1], s[i])
  BY <1>3
<1>5. IsRunning(h, s, Len(s), d)
  BY <1>4 DEF IsRunning
<1> QED BY <1>5, RunningUnique DEF h

LEMMA ChosenUnique ==
    ASSUME NEW s, NEW a, NEW n \in Nat, NEW f, NEW h,
           IsChosen(f, s, n, a), IsChosen(h, s, n, a)
    PROVE  f[n] = h[n]
<1> DEFINE S == {i \in 0 .. n : f[i] = h[i]}
<1>1. 0 \in S
  BY DEF IsChosen
<1>2. ASSUME NEW i \in Nat, i < n, i \in S
      PROVE  i + 1 \in S
  <2>1. i + 1 \in 1 .. n /\ (i + 1) - 1 = i /\ i + 1 \in 0 .. n
    BY <1>2
  <2>2. f[i + 1] = Pick(f[i], s[i + 1], a) /\ h[i + 1] = Pick(h[i], s[i + 1], a)
    BY <2>1 DEF IsChosen
  <2> QED BY <1>2, <2>1, <2>2
<1> HIDE DEF S
<1>3. \A i \in 0 .. n : i \in S
  BY <1>1, <1>2, IntervalInduction
<1> QED BY <1>3 DEF S

LEMMA EventsForIs ==
    ASSUME NEW s, Len(s) \in Nat, NEW a, NEW g, IsChosen(g, s, Len(s), a)
    PROVE  Log!EventsFor(s, a) = g[Len(s)]
<1> DEFINE Body(h) == [i \in 0 .. Len(s) |->
                         IF i = 0 THEN <<>>
                         ELSE Pick(h[i - 1], s[i], a)]
<1>1. g = Body(g)
  <2>1. ASSUME NEW i \in 0 .. Len(s)
        PROVE  g[i] = Body(g)[i]
    <3>1. CASE i = 0
      BY <3>1 DEF IsChosen
    <3>2. CASE i # 0
      <4>1. i \in 1 .. Len(s)
        BY <3>2
      <4> QED BY <3>2, <4>1 DEF IsChosen
    <3> QED BY <3>1, <3>2
  <2>2. g = [i \in 0 .. Len(s) |-> g[i]]
    BY DEF IsChosen
  <2> QED BY <2>1, <2>2
<1> DEFINE h == CHOOSE r : r = Body(r)
<1>2. Log!EventsFor(s, a) = h[Len(s)]
  BY DEF Log!EventsFor, Pick
<1>3. h = Body(h)
  BY <1>1
<1> HIDE DEF h
<1>4. /\ h = [i \in 0 .. Len(s) |-> h[i]]
      /\ h[0] = <<>>
      /\ \A i \in 1 .. Len(s) : h[i] = Pick(h[i - 1], s[i], a)
  BY <1>3
<1>5. IsChosen(h, s, Len(s), a)
  BY <1>4 DEF IsChosen
<1> QED BY <1>2, <1>5, ChosenUnique

LEMMA RunningExtends ==
    ASSUME NEW s, NEW d, NEW n \in Nat, NEW f, IsRunning(f, s, n, d)
    PROVE  \E h : /\ IsRunning(h, s, n + 1, d)
                  /\ h[n + 1] = After(f[n], s[n + 1])
                  /\ \A i \in 0 .. n : h[i] = f[i]
<1> DEFINE h == [i \in 0 .. n + 1 |-> IF i = n + 1 THEN After(f[n], s[n + 1]) ELSE f[i]]
<1>1. h[n + 1] = After(f[n], s[n + 1]) /\ \A i \in 0 .. n : h[i] = f[i]
  OBVIOUS
<1>2. h = [i \in 0 .. n + 1 |-> h[i]]
  OBVIOUS
<1> HIDE DEF h
<1>3. h[0] = d
  BY <1>1 DEF IsRunning
<1>4. ASSUME NEW i \in 1 .. n + 1 PROVE h[i] = After(h[i - 1], s[i])
  <2>1. CASE i = n + 1
    BY <1>1, <2>1
  <2>2. CASE i # n + 1
    <3>1. i \in 1 .. n /\ i \in 0 .. n /\ i - 1 \in 0 .. n
      BY <2>2
    <3> QED BY <1>1, <3>1 DEF IsRunning
  <2> QED BY <2>1, <2>2
<1> QED BY <1>1, <1>2, <1>3, <1>4 DEF IsRunning

LEMMA ChosenExtends ==
    ASSUME NEW s, NEW a, NEW n \in Nat, NEW g, IsChosen(g, s, n, a)
    PROVE  \E h : /\ IsChosen(h, s, n + 1, a)
                  /\ h[n + 1] = Pick(g[n], s[n + 1], a)
<1> DEFINE h == [i \in 0 .. n + 1 |-> IF i = n + 1 THEN Pick(g[n], s[n + 1], a) ELSE g[i]]
<1>1. h[n + 1] = Pick(g[n], s[n + 1], a) /\ \A i \in 0 .. n : h[i] = g[i]
  OBVIOUS
<1>2. h = [i \in 0 .. n + 1 |-> h[i]]
  OBVIOUS
<1> HIDE DEF h
<1>3. h[0] = <<>>
  BY <1>1 DEF IsChosen
<1>4. ASSUME NEW i \in 1 .. n + 1 PROVE h[i] = Pick(h[i - 1], s[i], a)
  <2>1. CASE i = n + 1
    BY <1>1, <2>1
  <2>2. CASE i # n + 1
    <3>1. i \in 1 .. n /\ i \in 0 .. n /\ i - 1 \in 0 .. n
      BY <2>2
    <3> QED BY <1>1, <3>1 DEF IsChosen
  <2> QED BY <2>1, <2>2
<1> QED BY <1>1, <1>2, <1>3, <1>4 DEF IsChosen

LEMMA PayloadsType ==
    ASSUME NEW s \in Seq(EventDoc)
    PROVE  /\ Payloads(s) \in Seq(Event) /\ Len(Payloads(s)) = Len(s)
           /\ \A i \in 1 .. Len(s) : Payloads(s)[i] = s[i].payload
<1>1. \A i \in 1 .. Len(s) : s[i] \in EventDoc
  OBVIOUS
<1>2. \A i \in 1 .. Len(s) : s[i].payload \in Event
  BY <1>1 DEF EventDoc
<1>3. Len(s) \in Nat /\ DOMAIN s = 1 .. Len(s)
  OBVIOUS
<1> QED BY <1>2, <1>3 DEF Payloads

LEMMA PayloadsOfAppend ==
    ASSUME NEW s \in Seq(EventDoc), NEW d \in EventDoc
    PROVE  Payloads(Append(s, d)) = Append(Payloads(s), d.payload)
<1>1. Append(s, d) \in Seq(EventDoc) /\ d.payload \in Event
  BY DEF EventDoc
<1> DEFINE p == Payloads(s)
           q == Payloads(Append(s, d))
           r == Append(p, d.payload)
<1>2. p \in Seq(Event) /\ Len(p) = Len(s) /\ \A i \in 1 .. Len(s) : p[i] = s[i].payload
  BY PayloadsType
<1>3. /\ q \in Seq(Event) /\ Len(q) = Len(Append(s, d))
      /\ \A i \in 1 .. Len(Append(s, d)) : q[i] = Append(s, d)[i].payload
  BY <1>1, PayloadsType
<1> HIDE DEF p, q
<1>4. Len(q) = Len(s) + 1 /\ \A i \in 1 .. Len(s) : q[i] = s[i].payload
  BY <1>3
<1>5. q[Len(s) + 1] = d.payload
  BY <1>3
<1>6. r \in Seq(Event) /\ Len(r) = Len(s) + 1
  BY <1>1, <1>2
<1>7. \A i \in 1 .. Len(s) + 1 : r[i] = q[i]
  BY <1>1, <1>2, <1>4, <1>5
<1> QED BY <1>3, <1>4, <1>6, <1>7 DEF p, q

LEMMA ConcatIs ==
    ASSUME NEW S, NEW s \in Seq(S), NEW t \in Seq(S)
    PROVE  /\ s \o t \in Seq(S) /\ Len(s \o t) = Len(s) + Len(t)
           /\ \A i \in 1 .. Len(s) : (s \o t)[i] = s[i]
           /\ \A i \in 1 .. Len(t) : (s \o t)[Len(s) + i] = t[i]
OBVIOUS

LEMMA PayloadsOfConcat ==
    ASSUME NEW s \in Seq(EventDoc), NEW t \in Seq(EventDoc)
    PROVE  Payloads(s \o t) = Payloads(s) \o Payloads(t)
<1> DEFINE p == Payloads(s)
           o == Payloads(t)
           u == s \o t
           q == Payloads(u)
<1>1. p \in Seq(Event) /\ Len(p) = Len(s) /\ \A i \in 1 .. Len(s) : p[i] = s[i].payload
  BY PayloadsType
<1>2. o \in Seq(Event) /\ Len(o) = Len(t) /\ \A i \in 1 .. Len(t) : o[i] = t[i].payload
  BY PayloadsType
<1>3. /\ u \in Seq(EventDoc) /\ Len(u) = Len(s) + Len(t)
      /\ \A i \in 1 .. Len(s) : u[i] = s[i]
      /\ \A i \in 1 .. Len(t) : u[Len(s) + i] = t[i]
  BY ConcatIs
<1> HIDE DEF u
<1>4. q \in Seq(Event) /\ Len(q) = Len(u) /\ \A i \in 1 .. Len(u) : q[i] = u[i].payload
  BY <1>3, PayloadsType
<1> HIDE DEF p, o, q
<1>5. PICK r : r = p \o o
  OBVIOUS
<1>6. p \in Seq(Event) /\ o \in Seq(Event)
  BY <1>1, <1>2
<1>7. r \in Seq(Event) /\ Len(r) = Len(p) + Len(o)
  BY <1>5, <1>6, ConcatIs
<1>8. \A i \in 1 .. Len(p) : r[i] = p[i]
  BY <1>5, <1>6, ConcatIs
<1>9. \A i \in 1 .. Len(o) : r[Len(p) + i] = o[i]
  BY <1>5, <1>6, ConcatIs
<1>10. Len(s) \in Nat /\ Len(t) \in Nat
  OBVIOUS
<1>11. ASSUME NEW i \in 1 .. Len(u) PROVE q[i] = r[i]
  <2>1. CASE i \in 1 .. Len(s)
    <3>1. r[i] = s[i].payload
      BY <1>1, <1>8, <2>1
    <3>2. q[i] = s[i].payload
      BY <1>3, <1>4, <2>1
    <3> QED BY <3>1, <3>2
  <2>2. CASE i \notin 1 .. Len(s)
    <3>1. PICK k \in 1 .. Len(t) : i = Len(s) + k
      <4>1. i - Len(s) \in 1 .. Len(t) /\ i = Len(s) + (i - Len(s))
        BY <1>3, <1>10, <2>2
      <4> QED BY <4>1
    <3>2. r[i] = t[k].payload
      BY <1>1, <1>2, <1>9, <3>1
    <3>3. q[i] = t[k].payload
      BY <1>3, <1>4, <3>1
    <3> QED BY <3>2, <3>3
  <2> QED BY <2>1, <2>2
<1>12. Len(q) = Len(r)
  BY <1>1, <1>2, <1>3, <1>4, <1>7
<1>13. q \in Seq(Event)
  BY <1>4
<1>14. q = r
  BY <1>4, <1>7, <1>11, <1>12, <1>13
<1> QED BY <1>5, <1>14 DEF p, o, q, u

-------------------------------------------------------------------------------
(***************************************************************************)
(* What an open call has done so far.  After n events of its script s its  *)
(* transaction's documents are those of the snapshot with the n events     *)
(* applied, its answer tells the states around each of them, and what it   *)
(* has inserted for an aggregate are the script's events on it; the event  *)
(* being applied is the next one.  A call of replay changes nothing.       *)
(***************************************************************************)
Told(f, s, n) ==
    [i \in 1 .. n |-> [beforeState |-> f[i - 1][s[i].aggregate],
                       state       |-> f[i][s[i].aggregate]]]

Documents == [Aggregate -> Stored]

Ran(s, n, v, answer) ==
    \E f \in [0 .. n -> Documents] :
        /\ IsRunning(f, s, n, f[0])
        /\ \A a \in Aggregate : f[0][a] = Projection(v.events[a])
        /\ f[n] = v.docs
        /\ answer = Told(f, s, n)

InsertedAre(s, n, ins) ==
    \A a \in Aggregate : \E g : IsChosen(g, s, n, a) /\ Payloads(ins[a]) = g[n]

Applying(s, n, p) ==
    /\ n < Len(s)
    /\ p.aggregate = s[n + 1].aggregate
    /\ p.payload = s[n + 1].event

WroteAll(s, n, wr) == \A i \in 1 .. n : s[i].aggregate \in wr

Events(n, at) == IF at = "persist" THEN n + 1 ELSE n

ScriptRight(s, n, v, ins, wr, p, at, answer) ==
    /\ n \in 0 .. Len(s)
    /\ Ran(s, n, v, answer)
    /\ InsertedAre(s, Events(n, at), ins)
    /\ WroteAll(s, n, wr)
    /\ at \in {"append", "persist"} => Applying(s, n, p)

ReplayRight(ins, wr, p, at, answer) ==
    /\ ins = NoInserts /\ wr = {} /\ answer = <<>>
    /\ at \in {"append", "persist"} => at = "persist" /\ p.payload = Replay

IsReplay(s) == \E a \in Aggregate : s = <<[aggregate |-> a, event |-> Replay]>>

CallIsRight(s, n, v, ins, wr, p, at, answer) ==
    /\ s \in Script \/ IsReplay(s)
    /\ v = None => n = 0 /\ answer = <<>> /\ at = "apply"
    /\ v # None /\ s \in Script => ScriptRight(s, n, v, ins, wr, p, at, answer)
    /\ v # None /\ s \notin Script => ReplayRight(ins, wr, p, at, answer)

Faithful(c) ==
    pc[c] # "idle" =>
        CallIsRight(script[c], step[c] - 1, view[c], inserted[c], written[c],
                    pending[c], pc[c], reply[c])

AnswersTyped == reply = [c \in Client |-> reply[c]]

FInv ==
    /\ AnswersTyped
    /\ \A c \in Client : Faithful(c)

LEMMA ReplayTyped ==
    ASSUME NEW s, IsReplay(s)
    PROVE  Len(s) = 1 /\ s[1].event = Replay /\ s \notin Script
<1>1. PICK a \in Aggregate : s = <<[aggregate |-> a, event |-> Replay]>>
  BY DEF IsReplay
<1>2. Len(s) = 1 /\ s[1].event = Replay
  BY <1>1
<1>3. 1 \in 1 .. Len(s)
  BY <1>2
<1> QED BY <1>2, <1>3, ScriptTyped

\* The lengths of what a call applies, and the type of each operation.
LEMMA OperationTyped ==
    ASSUME NEW s \in Script, NEW n \in Nat, n < Len(s)
    PROVE  s[n + 1].aggregate \in Aggregate /\ s[n + 1].event \in Event
<1>1. s \in Seq(Operation) /\ n + 1 \in 1 .. Len(s)
  BY ScriptTyped
<1>2. s[n + 1] \in Operation /\ s[n + 1].event # Replay
  BY <1>1, ScriptTyped
<1> QED BY <1>2 DEF Operation

\* A new transaction has applied nothing to its snapshot.
LEMMA RanNothing ==
    ASSUME NEW s, NEW v, v.docs \in Documents,
           \A a \in Aggregate : v.docs[a] = Projection(v.events[a])
    PROVE  Ran(s, 0, v, <<>>)
<1> DEFINE f == [i \in 0 .. 0 |-> v.docs]
<1>1. f \in [0 .. 0 -> Documents] /\ f[0] = v.docs
  OBVIOUS
<1>2. f = [i \in 0 .. 0 |-> f[i]]
  OBVIOUS
<1> HIDE DEF f
<1>3. IsRunning(f, s, 0, f[0])
  BY <1>2 DEF IsRunning
<1>4. <<>> = Told(f, s, 0)
  BY DEF Told
<1> QED BY <1>1, <1>3, <1>4 DEF Ran

LEMMA InsertedNothing ==
    ASSUME NEW s
    PROVE  InsertedAre(s, 0, NoInserts)
<1> SUFFICES ASSUME NEW a \in Aggregate
             PROVE  \E g : IsChosen(g, s, 0, a) /\ Payloads(NoInserts[a]) = g[0]
  BY DEF InsertedAre
<1> DEFINE g == [i \in 0 .. 0 |-> <<>>]
<1>1. g[0] = <<>> /\ g = [i \in 0 .. 0 |-> g[i]]
  OBVIOUS
<1> HIDE DEF g
<1>2. IsChosen(g, s, 0, a)
  BY <1>1 DEF IsChosen
<1>3. NoInserts[a] = <<>>
  BY DEF NoInserts
<1>4. Payloads(<<>>) = <<>>
  BY DEF Payloads
<1> QED BY <1>1, <1>2, <1>3, <1>4

OnIndexes(t, n) == t = [i \in 1 .. n |-> t[i]]

LEMMA SequenceIs ==
    ASSUME NEW S, NEW n \in Nat, NEW t, OnIndexes(t, n),
           \A i \in 1 .. n : t[i] \in S
    PROVE  t \in Seq(S) /\ Len(t) = n
<1>1. PICK f : f = [i \in 1 .. n |-> t[i]]
  OBVIOUS
<1>2. f \in [1 .. n -> S]
  BY <1>1
<1>3. f \in Seq(S) /\ Len(f) = n
  BY <1>2
<1> QED BY <1>1, <1>3 DEF OnIndexes

LEMMA AppendIs ==
    ASSUME NEW n \in Nat, NEW t, NEW u, NEW x,
           OnIndexes(t, n), OnIndexes(u, n + 1),
           \A i \in 1 .. n : u[i] = t[i], u[n + 1] = x
    PROVE  Append(t, x) = u
<1> DEFINE S == {t[i] : i \in 1 .. n} \cup {x}
<1>1. \A i \in 1 .. n : t[i] \in S
  OBVIOUS
<1>2. x \in S
  OBVIOUS
<1> HIDE DEF S
<1>3. t \in Seq(S) /\ Len(t) = n
  BY <1>1, SequenceIs
<1>4. ASSUME NEW i \in 1 .. n + 1 PROVE i \in 1 .. n \/ i = n + 1
  OBVIOUS
<1>5. \A i \in 1 .. n + 1 : u[i] \in S
  BY <1>1, <1>2, <1>4
<1>6. n + 1 \in Nat
  OBVIOUS
<1>7. u \in Seq(S) /\ Len(u) = n + 1
  BY <1>5, <1>6, SequenceIs
<1>8. PICK w : w = Append(t, x)
  OBVIOUS
<1>9. w \in Seq(S) /\ Len(w) = n + 1
  BY <1>2, <1>3, <1>8
<1>10. \A i \in 1 .. n : w[i] = t[i]
  BY <1>2, <1>3, <1>8
<1>11. w[n + 1] = x
  BY <1>2, <1>3, <1>8
<1>12. ASSUME NEW i \in 1 .. n + 1 PROVE w[i] = u[i]
  <2>1. CASE i \in 1 .. n
    BY <1>10, <2>1
  <2>2. CASE i = n + 1
    BY <1>11, <2>2
  <2> QED BY <1>4, <2>1, <2>2
<1> QED BY <1>7, <1>8, <1>9, <1>12

LEMMA ToldExtends ==
    ASSUME NEW h, NEW s, NEW n \in Nat
    PROVE  Told(h, s, n + 1) =
              Append(Told(h, s, n), [beforeState |-> h[n][s[n + 1].aggregate],
                                     state       |-> h[n + 1][s[n + 1].aggregate]])
<1>1. PICK t : t = Told(h, s, n)
  OBVIOUS
<1>2. PICK u : u = Told(h, s, n + 1)
  OBVIOUS
<1>3. PICK x : x = [beforeState |-> h[n][s[n + 1].aggregate],
                    state       |-> h[n + 1][s[n + 1].aggregate]]
  OBVIOUS
<1>4. OnIndexes(t, n)
  BY <1>1 DEF Told, OnIndexes
<1>5. OnIndexes(u, n + 1)
  BY <1>2 DEF Told, OnIndexes
<1>6. \A i \in 1 .. n : u[i] = t[i]
  BY <1>1, <1>2 DEF Told
<1>7. u[n + 1] = x
  BY <1>2, <1>3 DEF Told
<1>8. Append(t, x) = u
  BY <1>4, <1>5, <1>6, <1>7, AppendIs
<1> QED BY <1>1, <1>2, <1>3, <1>8

\* applyEvent takes the documents one event further.
LEMMA RanExtends ==
    ASSUME NEW s, NEW n \in Nat, NEW v, NEW w, NEW answer, NEW told, NEW x,
           Ran(s, n, v, answer), w.events = v.events,
           s[n + 1].aggregate \in Aggregate,
           x = Reduced(v.docs[s[n + 1].aggregate], s[n + 1].event), x \in Stored,
           w.docs = [v.docs EXCEPT ![s[n + 1].aggregate] = x],
           told = Append(answer, [beforeState |-> v.docs[s[n + 1].aggregate],
                                  state |-> x])
    PROVE  Ran(s, n + 1, w, told)
<1> DEFINE a == s[n + 1].aggregate
<1>1. PICK f \in [0 .. n -> Documents] :
         /\ IsRunning(f, s, n, f[0])
         /\ \A b \in Aggregate : f[0][b] = Projection(v.events[b])
         /\ f[n] = v.docs
         /\ answer = Told(f, s, n)
  BY DEF Ran
<1>2. PICK h : /\ IsRunning(h, s, n + 1, f[0])
               /\ h[n + 1] = After(f[n], s[n + 1])
               /\ \A i \in 0 .. n : h[i] = f[i]
  BY <1>1, RunningExtends
<1>3. f[n] \in Documents
  BY <1>1
<1>4. h[n + 1] = w.docs
  <2>1. f[n][a] # Throw
    BY <1>3, ValuesAssumption DEF Documents, Stored
  <2>2. After(f[n], s[n + 1]) = [f[n] EXCEPT ![a] = Reducer[<<f[n][a], s[n + 1].event>>]]
    BY <1>3, <2>1 DEF After, Documents
  <2>3. x = Reducer[<<f[n][a], s[n + 1].event>>]
    BY <1>1, <2>1 DEF Reduced
  <2> QED BY <1>1, <1>2, <2>2, <2>3
<1>5. w.docs \in Documents
  BY <1>1, <1>3 DEF Documents
<1>6. h \in [0 .. n + 1 -> Documents]
  <2>1. h = [i \in 0 .. n + 1 |-> h[i]]
    BY <1>2 DEF IsRunning
  <2>2. \A i \in 0 .. n + 1 : h[i] \in Documents
    BY <1>1, <1>2, <1>4, <1>5
  <2> QED BY <2>1, <2>2
<1>7. h[0] = f[0]
  BY <1>2
<1>8. told = Told(h, s, n + 1)
  <2> DEFINE last == [beforeState |-> v.docs[a], state |-> x]
  <2>1. last = [beforeState |-> h[n][a], state |-> h[n + 1][a]]
    <3>1. h[n] = v.docs
      BY <1>1, <1>2
    <3>2. h[n + 1][a] = x
      BY <1>1, <1>3, <1>4 DEF Documents
    <3> QED BY <3>1, <3>2
  <2>2. answer = Told(h, s, n)
    <3>1. ASSUME NEW i \in 1 .. n
          PROVE  h[i] = f[i] /\ h[i - 1] = f[i - 1]
      BY <1>2
    <3> QED BY <1>1, <3>1 DEF Told
  <2> QED BY <2>1, <2>2, ToldExtends
<1> QED BY <1>1, <1>2, <1>4, <1>6, <1>7, <1>8 DEF Ran

\* insertOne takes what is inserted one event further.
LEMMA InsertedExtends ==
    ASSUME NEW s, NEW n \in Nat, NEW ins \in [Aggregate -> Seq(EventDoc)],
           NEW doc \in EventDoc, NEW now,
           InsertedAre(s, n, ins), s[n + 1].aggregate \in Aggregate,
           doc.payload = s[n + 1].event,
           now = [ins EXCEPT ![s[n + 1].aggregate] =
                    Append(ins[s[n + 1].aggregate], doc)]
    PROVE  InsertedAre(s, n + 1, now)
<1> SUFFICES ASSUME NEW a \in Aggregate
             PROVE  \E g : /\ IsChosen(g, s, n + 1, a)
                           /\ Payloads(now[a]) = g[n + 1]
  BY DEF InsertedAre
<1>1. PICK g : IsChosen(g, s, n, a) /\ Payloads(ins[a]) = g[n]
  BY DEF InsertedAre
<1>2. PICK h : IsChosen(h, s, n + 1, a) /\ h[n + 1] = Pick(g[n], s[n + 1], a)
  BY <1>1, ChosenExtends
<1>3. CASE s[n + 1].aggregate = a
  <2>1. now[a] = Append(ins[a], doc)
    BY <1>3
  <2>2. Payloads(now[a]) = Append(Payloads(ins[a]), doc.payload)
    BY <2>1, PayloadsOfAppend
  <2> QED BY <1>1, <1>2, <1>3, <2>2 DEF Pick
<1>4. CASE s[n + 1].aggregate # a
  <2>1. now[a] = ins[a]
    BY <1>4
  <2> QED BY <1>1, <1>2, <1>4, <2>1 DEF Pick
<1> QED BY <1>3, <1>4

-------------------------------------------------------------------------------
(***************************************************************************)
(* Every step keeps what the open calls have done in step with their       *)
(* scripts.                                                                *)
(***************************************************************************)
LEMMA InitFInv == Init => FInv
BY DEF Init, FInv, AnswersTyped, Faithful

Same(d) ==
    /\ Frame(d)
    /\ script'[d] = script[d]
    /\ step'[d] = step[d]
    /\ reply'[d] = reply[d]

LEMMA SameFaithful ==
    ASSUME NEW d \in Client, Faithful(d), Same(d)
    PROVE  Faithful(d)'
BY DEF Same, Frame, Faithful

LEMMA OthersFaithful ==
    ASSUME NEW c \in Client, FInv, AnswersTyped', Faithful(c)',
           \A d \in Client \ {c} : Same(d)
    PROVE  FInv'
<1>1. ASSUME NEW d \in Client PROVE Faithful(d)'
  <2>1. CASE d = c
    BY <2>1
  <2>2. CASE d # c
    <3>1. Faithful(d) /\ Same(d)
      BY <2>2 DEF FInv
    <3> QED BY <3>1, SameFaithful
  <2> QED BY <2>1, <2>2
<1> QED BY <1>1 DEF FInv

LEMMA CallFaithful ==
    ASSUME IInv, FInv, NEW c \in Client, Call(c)
    PROVE  FInv'
<1>1. AnswersTyped'
  BY DEF Call, FInv, AnswersTyped
<1>2. \A d \in Client \ {c} : Same(d)
  BY DEF Call, Same, Frame, txn, IInv, TypeOK, FInv, AnswersTyped
<1>3. Faithful(c)'
  <2>1. script'[c] \in Script \/ IsReplay(script'[c])
    BY DEF Call, IsReplay, IInv, TypeOK
  <2>2. view'[c] = None
    BY DEF Call, txn, IInv, TransactionRight
  <2>3. step'[c] - 1 = 0 /\ reply'[c] = <<>> /\ pc'[c] = "apply"
    BY DEF Call, IInv, TypeOK, FInv, AnswersTyped
  <2> QED BY <2>1, <2>2, <2>3 DEF Faithful, CallIsRight
<1> QED BY <1>1, <1>2, <1>3, OthersFaithful

LEMMA RejectFaithful ==
    ASSUME IInv, FInv, NEW c \in Client, Reject(c)
    PROVE  FInv'
<1>1. AnswersTyped'
  BY DEF Reject, FInv, AnswersTyped
<1>2. \A d \in Client \ {c} : Same(d)
  BY DEF Reject, EndCall, EndTransaction, Same, Frame, IInv, TypeOK, FInv, AnswersTyped
<1>3. Faithful(c)'
  BY DEF Reject, EndCall, Faithful, IInv, TypeOK
<1> QED BY <1>1, <1>2, <1>3, OthersFaithful

LEMMA RunAgainFaithful ==
    ASSUME IInv, FInv, NEW c \in Client, pc[c] # "idle", RunAgain(c)
    PROVE  FInv'
<1>1. AnswersTyped'
  BY DEF RunAgain, FInv, AnswersTyped
<1>2. \A d \in Client \ {c} : Same(d)
  BY DEF RunAgain, EndTransaction, Same, Frame, IInv, TypeOK, FInv, AnswersTyped
<1>3. Faithful(c)'
  <2>1. script'[c] \in Script \/ IsReplay(script'[c])
    BY DEF RunAgain, FInv, Faithful, CallIsRight
  <2>2. view'[c] = None
    BY DEF RunAgain, EndTransaction, IInv, TypeOK
  <2>3. step'[c] - 1 = 0 /\ reply'[c] = <<>> /\ pc'[c] = "apply"
    BY DEF RunAgain, IInv, TypeOK, FInv, AnswersTyped
  <2> QED BY <2>1, <2>2, <2>3 DEF Faithful, CallIsRight
<1> QED BY <1>1, <1>2, <1>3, OthersFaithful

LEMMA RetryFaithful ==
    ASSUME IInv, FInv, NEW c \in Client, pc[c] # "idle", Retry(c)
    PROVE  FInv'
BY RunAgainFaithful, RejectFaithful DEF Retry

LEMMA CommitFaithful ==
    ASSUME IInv, FInv, NEW c \in Client, Commit(c)
    PROVE  FInv'
<1>1. AnswersTyped'
  BY DEF Commit, FInv, AnswersTyped
<1>2. \A d \in Client \ {c} : Same(d)
  BY DEF Commit, EndCall, EndTransaction, Same, Frame, IInv, TypeOK, FInv, AnswersTyped
<1>3. Faithful(c)'
  BY DEF Commit, EndCall, Faithful, IInv, TypeOK
<1> QED BY <1>1, <1>2, <1>3, OthersFaithful

LEMMA ProjectFaithful ==
    ASSUME IInv, FInv, NEW c \in Client, ProjectCurrentState(c)
    PROVE  FInv'
<1> DEFINE op     == script[c][step[c]]
           found  == Found(c, ViewOf(c), op.aggregate)
           before == Projection(found)
           after  == IF op.event = Replay THEN before
                     ELSE Reduced(before, op.event)
           doing  == [aggregate |-> op.aggregate, payload |-> op.event,
                      sequence |-> NextSequence(found),
                      before |-> before, after |-> after]
<1>1. CASE after = Throw /\ Reject(c)
  BY <1>1, RejectFaithful
<1>2. CASE /\ after # Throw
           /\ view' = [view EXCEPT ![c] = ViewOf(c)]
           /\ pending' = [pending EXCEPT ![c] = doing]
           /\ pc' = [pc EXCEPT ![c] =
                  IF op.event = Replay THEN "persist" ELSE "append"]
           /\ UNCHANGED <<db, records, script, step, attempts, inserted,
                          written, reply>>
  <2>1. /\ doing.aggregate = op.aggregate /\ doing.payload = op.event
    OBVIOUS
  <2> HIDE DEF doing
  <2>2. AnswersTyped'
    BY <1>2 DEF FInv, AnswersTyped
  <2>3. \A d \in Client \ {c} : Same(d)
    BY <1>2 DEF Same, Frame, IInv, TypeOK
  <2> DEFINE s == script[c]
             n == step[c] - 1
             v == ViewOf(c)
  <2>4. /\ pc[c] = "apply" /\ step[c] <= Len(s)
        /\ step[c] \in Nat \ {0} /\ n \in Nat /\ n + 1 = step[c] /\ n < Len(s)
    BY DEF ProjectCurrentState, IInv, TypeOK
  <2>5. CallIsRight(s, n, view[c], inserted[c], written[c], pending[c], "apply", reply[c])
    BY <2>4 DEF FInv, Faithful
  <2>6. v \in View /\ v # None
    <3>1. v \in View
      BY DEF IInv, TypeOK, ViewOf, Snapshot, View
    <3> QED BY <3>1, NoneAssumption
  <2>7. /\ script'[c] = s /\ step'[c] = step[c] /\ view'[c] = v
        /\ inserted'[c] = inserted[c] /\ written'[c] = written[c]
        /\ pending'[c] = doing /\ reply'[c] = reply[c]
        /\ pc'[c] = IF op.event = Replay THEN "persist" ELSE "append"
    BY <1>2 DEF IInv, TypeOK
  <2>8. view[c] = None => /\ n = 0 /\ reply[c] = <<>>
                          /\ inserted[c] = NoInserts /\ written[c] = {}
    BY <2>5 DEF CallIsRight, IInv, TransactionRight
  <2>9. view[c] # None => v = view[c]
    BY DEF ViewOf
  <2> HIDE DEF v
  <2>10. CASE s \in Script
    <3>1. op.event # Replay
      BY <2>4, <2>10, OperationTyped, ValuesAssumption
    <3>2. Ran(s, n, v, reply[c])
      <4>1. CASE view[c] = None
        <5>1. v.docs = stateCollection /\ v.events = eventsCollection
          BY <4>1 DEF v, ViewOf, Snapshot
        <5>2. v.docs \in Documents
          BY <5>1 DEF Documents, IInv, TypeOK
        <5>3. \A a \in Aggregate : v.docs[a] = Projection(v.events[a])
          BY <5>1 DEF IInv, StoreRight
        <5> QED BY <2>8, <4>1, <5>2, <5>3, RanNothing
      <4>2. CASE view[c] # None
        BY <2>5, <2>9, <2>10, <4>2 DEF CallIsRight, ScriptRight
      <4> QED BY <4>1, <4>2
    <3>3. InsertedAre(s, n, inserted[c])
      <4>1. CASE view[c] = None
        BY <2>8, <4>1, InsertedNothing
      <4>2. CASE view[c] # None
        BY <2>5, <2>10, <4>2 DEF CallIsRight, ScriptRight, Events
      <4> QED BY <4>1, <4>2
    <3>4. WroteAll(s, n, written[c])
      <4>1. CASE view[c] = None
        BY <2>8, <4>1 DEF WroteAll
      <4>2. CASE view[c] # None
        BY <2>5, <2>10, <4>2 DEF CallIsRight, ScriptRight
      <4> QED BY <4>1, <4>2
    <3>5. Applying(s, n, doing)
      BY <2>1, <2>4 DEF Applying
    <3>6. n \in 0 .. Len(s)
      <4>1. Len(s) \in Nat
        BY <2>10, ScriptTyped
      <4> QED BY <2>4, <4>1
    <3> HIDE DEF n, s
    <3>7. ScriptRight(s, n, v, inserted[c], written[c], doing, "append", reply[c])
      BY <3>2, <3>3, <3>4, <3>5, <3>6 DEF ScriptRight, Events
    <3>8. CallIsRight(s, n, v, inserted[c], written[c], doing, "append", reply[c])
      BY <2>6, <2>10, <3>7 DEF CallIsRight
    <3>9. Faithful(c)'
      BY <2>7, <3>1, <3>8 DEF Faithful, s, n
    <3> QED BY <2>2, <2>3, <3>9, OthersFaithful
  <2>11. CASE s \notin Script
    <3>1. IsReplay(s)
      BY <2>5, <2>11 DEF CallIsRight
    <3>2. op.event = Replay
      <4>1. Len(s) = 1 /\ s[1].event = Replay
        BY <3>1, ReplayTyped
      <4>2. step[c] = 1
        BY <2>4, <4>1
      <4> QED BY <4>1, <4>2
    <3>3. inserted[c] = NoInserts /\ written[c] = {} /\ reply[c] = <<>>
      <4>1. CASE view[c] = None
        BY <2>8, <4>1
      <4>2. CASE view[c] # None
        BY <2>5, <2>11, <4>2 DEF CallIsRight, ReplayRight
      <4> QED BY <4>1, <4>2
    <3> HIDE DEF n, s
    <3>4. ReplayRight(inserted[c], written[c], doing, "persist", reply[c])
      BY <2>1, <3>2, <3>3 DEF ReplayRight
    <3>5. CallIsRight(s, n, v, inserted[c], written[c], doing, "persist", reply[c])
      BY <2>6, <2>11, <3>1, <3>4 DEF CallIsRight
    <3>6. Faithful(c)'
      BY <2>7, <3>2, <3>5 DEF Faithful, s, n
    <3> QED BY <2>2, <2>3, <3>6, OthersFaithful
  <2> QED BY <2>10, <2>11
<1> QED BY <1>1, <1>2 DEF ProjectCurrentState

LEMMA AppendEventFaithful ==
    ASSUME IInv, FInv, NEW c \in Client, AppendEvent(c)
    PROVE  FInv'
<1> DEFINE p   == pending[c]
           a   == p.aggregate
           doc == [sequence |-> p.sequence, payload |-> p.payload,
                   record |-> records + 1]
           s   == script[c]
           n   == step[c] - 1
           v   == view[c]
<1>1. /\ pc[c] = "append" /\ v # None /\ p # None /\ AppendRight(c)
  BY DEF AppendEvent, IInv, TransactionRight
<1>2. p \in Pending /\ records \in Nat
  BY <1>1 DEF IInv, TypeOK
<1>3. doc \in EventDoc /\ a \in Aggregate /\ doc.payload = p.payload
  BY <1>1, <1>2 DEF Pending, EventDoc, AppendRight
<1>4. inserted[c] \in [Aggregate -> Seq(EventDoc)]
  BY DEF IInv, TypeOK
<1>5. /\ inserted' = [inserted EXCEPT ![c] = [inserted[c] EXCEPT
                          ![a] = Append(inserted[c][a], doc)]]
      /\ pc' = [pc EXCEPT ![c] = "persist"]
      /\ UNCHANGED <<db, script, step, attempts, view, written, pending, reply>>
  BY <1>1, <1>3 DEF AppendEvent, IInv, TypeOK
<1>6. AnswersTyped'
  BY <1>5 DEF FInv, AnswersTyped
<1>7. \A d \in Client \ {c} : Same(d)
  BY <1>5 DEF Same, Frame, IInv, TypeOK
<1>8. CallIsRight(s, n, v, inserted[c], written[c], p, "append", reply[c])
  BY <1>1 DEF FInv, Faithful
<1>9. s \in Script /\ ScriptRight(s, n, v, inserted[c], written[c], p, "append", reply[c])
  BY <1>1, <1>8 DEF CallIsRight, ReplayRight
<1>10. Applying(s, n, p) /\ n \in 0 .. Len(s) /\ InsertedAre(s, n, inserted[c])
  BY <1>9 DEF ScriptRight, Events
<1> DEFINE now == [inserted[c] EXCEPT ![a] = Append(inserted[c][a], doc)]
<1>11. InsertedAre(s, n + 1, now)
  <2>1. s[n + 1].aggregate = a /\ doc.payload = s[n + 1].event
    BY <1>3, <1>10 DEF Applying
  <2>2. n \in Nat
    BY <1>10
  <2> HIDE DEF doc, s, n, a
  <2> QED BY <1>3, <1>4, <1>10, <2>1, <2>2, InsertedExtends
<1> HIDE DEF doc, s, n, a, p, v
<1>12. inserted'[c] = now
  BY <1>5 DEF IInv, TypeOK
<1> HIDE DEF now
<1>13. ScriptRight(s, n, v, now, written[c], p, "persist", reply[c])
  BY <1>9, <1>11 DEF ScriptRight, Events
<1>14. CallIsRight(s, n, v, now, written[c], p, "persist", reply[c])
  BY <1>1, <1>9, <1>13 DEF CallIsRight
<1>15. /\ script'[c] = s /\ step'[c] - 1 = n /\ view'[c] = v /\ written'[c] = written[c]
       /\ pending'[c] = p /\ reply'[c] = reply[c] /\ pc'[c] = "persist"
  BY <1>5 DEF s, n, v, p, IInv, TypeOK
<1>16. Faithful(c)'
  BY <1>12, <1>14, <1>15 DEF Faithful
<1> QED BY <1>6, <1>7, <1>16, OthersFaithful

LEMMA PersistStateFaithful ==
    ASSUME IInv, FInv, NEW c \in Client, PersistState(c)
    PROVE  FInv'
<1> DEFINE p      == pending[c]
           a      == p.aggregate
           s      == script[c]
           n      == step[c] - 1
           v      == view[c]
           stored == v.docs[a]
           state  == PersistedState(stored, p.after)
           writes == state # stored
<1>1. pc[c] = "persist"
  BY DEF PersistState
<1>2. CASE writes /\ Conflict(c, a) /\ Retry(c)
  BY <1>1, <1>2, RetryFaithful
<1>3. CASE ~(writes /\ Conflict(c, a)) /\ Persisted(c, a, state)
  <2>1. /\ p \in Pending /\ a \in Aggregate /\ v \in View
        /\ p.before = stored /\ p.after \in Stored /\ state = p.after
        /\ p.payload # Replay => p.after = Reduced(stored, p.payload)
        /\ writes <=> p.payload # Replay
    BY <1>1, WhatPersistStateWrites
  <2> DEFINE answer == [beforeState |-> p.before, state |-> p.after]
             told   == IF p.payload = Replay THEN reply[c] ELSE Append(reply[c], answer)
             w      == [v EXCEPT !.docs = [v.docs EXCEPT ![a] = state]]
             wr     == IF writes THEN written[c] \cup {a} ELSE written[c]
  <2>2. view \in [Client -> View \cup {None}] /\ reply = [d \in Client |-> reply[d]]
    BY DEF IInv, TypeOK, FInv, AnswersTyped
  <2>3. /\ view' = [view EXCEPT ![c] = w]
        /\ written' = [written EXCEPT ![c] = wr]
        /\ step' = [step EXCEPT ![c] = step[c] + 1]
        /\ reply' = [reply EXCEPT ![c] = told]
        /\ pc' = [pc EXCEPT ![c] = "apply"]
        /\ pending' = [pending EXCEPT ![c] = None]
        /\ UNCHANGED <<db, records, script, attempts, inserted>>
    BY <1>3, <2>1, <2>2 DEF Persisted, IInv, TypeOK, View
  <2> HIDE DEF told, w, wr
  <2>4. AnswersTyped'
    BY <2>2, <2>3 DEF AnswersTyped
  <2>5. \A d \in Client \ {c} : Same(d)
    BY <2>2, <2>3 DEF Same, Frame, IInv, TypeOK
  <2>6. /\ script'[c] = s /\ step'[c] - 1 = n + 1 /\ view'[c] = w
        /\ inserted'[c] = inserted[c] /\ written'[c] = wr
        /\ pending'[c] = None /\ reply'[c] = told /\ pc'[c] = "apply"
    BY <2>2, <2>3 DEF IInv, TypeOK
  <2>7. w.events = v.events /\ w.docs = [v.docs EXCEPT ![a] = state] /\ w \in View
    BY <2>1 DEF w, View
  <2>8. w # None /\ v # None
    BY <2>1, <2>7, NoneAssumption
  <2>9. CallIsRight(s, n, v, inserted[c], written[c], p, "persist", reply[c])
    BY <1>1 DEF FInv, Faithful
  <2>10. CASE s \in Script
    <3>1. ScriptRight(s, n, v, inserted[c], written[c], p, "persist", reply[c])
      BY <2>8, <2>9, <2>10 DEF CallIsRight
    <3>2. /\ Applying(s, n, p) /\ n \in 0 .. Len(s)
          /\ InsertedAre(s, n + 1, inserted[c]) /\ WroteAll(s, n, written[c])
          /\ Ran(s, n, v, reply[c])
      BY <3>1 DEF ScriptRight, Events
    <3>3. Len(s) \in Nat
      BY <2>10, ScriptTyped
    <3>4. n \in Nat /\ n < Len(s) /\ n + 1 \in 0 .. Len(s)
      BY <3>2, <3>3 DEF Applying
    <3>5. p.payload \in Event /\ p.payload # Replay
      BY <2>10, <3>2, <3>4, OperationTyped, ValuesAssumption DEF Applying
    <3>6. a = s[n + 1].aggregate /\ p.payload = s[n + 1].event
      BY <3>2 DEF Applying
    <3>7. Ran(s, n + 1, w, told)
      <4>1. told = Append(reply[c], [beforeState |-> stored, state |-> state])
        BY <2>1, <3>5 DEF told
      <4>2. state = Reduced(stored, p.payload) /\ state \in Stored
        BY <2>1, <3>5
      <4> HIDE DEF n, s, v, p, state
      <4> QED BY <2>1, <2>7, <3>2, <3>4, <3>6, <4>1, <4>2, RanExtends
    <3>8. WroteAll(s, n + 1, wr)
      <4>1. a \in wr /\ written[c] \subseteq wr
        BY <2>1, <3>5 DEF wr
      <4>2. \A i \in 1 .. n + 1 : i \in 1 .. n \/ i = n + 1
        BY <3>4
      <4> HIDE DEF n, s, a
      <4> QED BY <3>2, <3>6, <4>1, <4>2 DEF WroteAll
    <3> HIDE DEF n, s
    <3>9. ScriptRight(s, n + 1, w, inserted[c], wr, None, "apply", told)
      BY <3>2, <3>4, <3>7, <3>8 DEF ScriptRight, Events
    <3>10. CallIsRight(s, n + 1, w, inserted[c], wr, None, "apply", told)
      BY <2>8, <2>10, <3>9 DEF CallIsRight
    <3>11. Faithful(c)'
      BY <2>6, <3>10 DEF Faithful
    <3> QED BY <2>4, <2>5, <3>11, OthersFaithful
  <2>11. CASE s \notin Script
    <3>1. ReplayRight(inserted[c], written[c], p, "persist", reply[c]) /\ IsReplay(s)
      BY <2>8, <2>9, <2>11 DEF CallIsRight
    <3>2. wr = {} /\ told = <<>> /\ inserted[c] = NoInserts
      BY <2>1, <3>1 DEF ReplayRight, wr, told
    <3> HIDE DEF n, s
    <3>3. ReplayRight(inserted[c], wr, None, "apply", told)
      BY <3>2 DEF ReplayRight
    <3>4. CallIsRight(s, n + 1, w, inserted[c], wr, None, "apply", told)
      BY <2>8, <2>11, <3>1, <3>3 DEF CallIsRight
    <3>5. Faithful(c)'
      BY <2>6, <3>4 DEF Faithful
    <3> QED BY <2>4, <2>5, <3>5, OthersFaithful
  <2> QED BY <2>10, <2>11
<1> QED BY <1>2, <1>3 DEF PersistState

LEMMA StepFaithful == IInv /\ FInv /\ [Next]_vars => FInv'
<1> SUFFICES ASSUME IInv, FInv, [Next]_vars PROVE FInv'
  OBVIOUS
<1>1. CASE UNCHANGED vars
  BY <1>1 DEF FInv, AnswersTyped, Faithful, vars
<1>2. ASSUME NEW c \in Client,
             Call(c) \/ Progress(c) \/ TransientFault(c) \/ Abort(c)
      PROVE  FInv'
  <2>1. CASE Call(c)
    BY <2>1, CallFaithful
  <2>2. CASE ProjectCurrentState(c)
    BY <2>2, ProjectFaithful
  <2>3. CASE AppendEvent(c)
    BY <2>3, AppendEventFaithful
  <2>4. CASE PersistState(c)
    BY <2>4, PersistStateFaithful
  <2>5. CASE Commit(c)
    BY <2>5, CommitFaithful
  <2>6. CASE TransientFault(c)
    BY <2>6, RetryFaithful DEF TransientFault
  <2>7. CASE Abort(c)
    BY <2>7, RejectFaithful DEF Abort
  <2> QED BY <1>2, <2>1, <2>2, <2>3, <2>4, <2>5, <2>6, <2>7 DEF Progress
<1> QED BY <1>1, <1>2 DEF Next

-------------------------------------------------------------------------------
(***************************************************************************)
(* The refinement, step by step.                                           *)
(***************************************************************************)
LEMMA InitRefines == Init => Log!Init
<1> SUFFICES ASSUME Init PROVE Log!Init
  OBVIOUS
<1>1. \A a \in Aggregate : Payloads(eventsCollection[a]) = <<>>
  BY DEF Init, Payloads
<1>2. StoredLog = [a \in Aggregate |-> <<>>]
  BY <1>1 DEF StoredLog
<1>3. InFlight = [c \in Client |-> NoCall]
  BY DEF Init, InFlight
<1>4. Answered = [c \in Client |-> <<>>]
  BY DEF Init, Answered
<1> QED BY <1>2, <1>3, <1>4 DEF Init, Log!Init

LEMMA CallRefines ==
    ASSUME IInv, FInv, NEW c \in Client, Call(c)
    PROVE  Log!Submit(c)
<1>1. /\ pc[c] = "idle" /\ pc' = [pc EXCEPT ![c] = "apply"]
      /\ reply' = [reply EXCEPT ![c] = <<>>]
      /\ UNCHANGED <<eventsCollection, stateCollection>>
  BY DEF Call, db
<1>2. PICK s : script' = [script EXCEPT ![c] = s]
  BY DEF Call
<1> DEFINE t == IF s \in Script THEN s ELSE <<>>
<1>3. t \in Script \cup {<<>>}
  OBVIOUS
<1>4. InFlight[c] = NoCall
  BY <1>1 DEF InFlight
<1>5. InFlight' = [InFlight EXCEPT ![c] = t]
  BY <1>1, <1>2 DEF InFlight, IInv, TypeOK
<1>6. Answered' = [Answered EXCEPT ![c] = <<>>]
  BY <1>1 DEF Answered, IInv, TypeOK, FInv, AnswersTyped
<1>7. UNCHANGED <<StoredLog, stateCollection>>
  BY <1>1 DEF StoredLog
<1> HIDE DEF t
<1> QED BY <1>3, <1>4, <1>5, <1>6, <1>7 DEF Log!Submit

LEMMA InFlightIsCall ==
    ASSUME NEW c \in Client, pc[c] # "idle"
    PROVE  InFlight[c] # NoCall
BY ScriptAssumption DEF InFlight

LEMMA RejectRefines ==
    ASSUME IInv, FInv, NEW c \in Client, pc[c] # "idle", Reject(c)
    PROVE  Log!Fail(c)
<1>1. /\ pc' = [pc EXCEPT ![c] = "idle"] /\ script' = [script EXCEPT ![c] = <<>>]
      /\ reply' = [reply EXCEPT ![c] = <<>>]
      /\ UNCHANGED <<eventsCollection, stateCollection>>
  BY DEF Reject, EndCall, db
<1>2. InFlight[c] # NoCall
  BY InFlightIsCall
<1>3. InFlight' = [InFlight EXCEPT ![c] = NoCall]
  BY <1>1 DEF InFlight, IInv, TypeOK
<1>4. Answered' = Answered
  BY <1>1 DEF Answered, IInv, TypeOK, FInv, AnswersTyped
<1>5. UNCHANGED <<StoredLog, stateCollection>>
  BY <1>1 DEF StoredLog
<1> QED BY <1>2, <1>3, <1>4, <1>5 DEF Log!Fail

\* A step inside a transaction shows in no document, call or answer.
LEMMA InnerStepRefines ==
    ASSUME UNCHANGED <<db, script>>,
           \A d \in Client : /\ pc'[d] = "idle" <=> pc[d] = "idle"
                             /\ pc[d] = "idle" => reply'[d] = reply[d]
    PROVE  UNCHANGED Log!vars
<1>1. InFlight' = InFlight
  BY DEF InFlight
<1>2. Answered' = Answered
  BY DEF Answered
<1>3. UNCHANGED <<StoredLog, stateCollection>>
  BY DEF StoredLog, db
<1> QED BY <1>1, <1>2, <1>3 DEF Log!vars

LEMMA RetryRefines ==
    ASSUME IInv, FInv, NEW c \in Client, pc[c] # "idle", Retry(c)
    PROVE  Log!Fail(c) \/ UNCHANGED Log!vars
<1>1. CASE RunAgain(c)
  <2>1. UNCHANGED <<db, script>>
    BY <1>1 DEF RunAgain
  <2>2. \A d \in Client : /\ pc'[d] = "idle" <=> pc[d] = "idle"
                          /\ pc[d] = "idle" => reply'[d] = reply[d]
    BY <1>1 DEF RunAgain, IInv, TypeOK, FInv, AnswersTyped
  <2> QED BY <2>1, <2>2, InnerStepRefines
<1>2. CASE attempts[c] >= MaxAttempts /\ Reject(c)
  BY <1>2, RejectRefines
<1> QED BY <1>1, <1>2 DEF Retry

LEMMA ProjectRefines ==
    ASSUME IInv, FInv, NEW c \in Client, ProjectCurrentState(c)
    PROVE  Log!Fail(c) \/ UNCHANGED Log!vars
<1>1. pc[c] = "apply"
  BY DEF ProjectCurrentState
<1>2. CASE Reject(c)
  BY <1>1, <1>2, RejectRefines
<1>3. CASE ~Reject(c)
  <2>1. PICK at \in {"append", "persist"} : pc' = [pc EXCEPT ![c] = at]
    BY <1>3 DEF ProjectCurrentState
  <2>2. UNCHANGED <<db, script>> /\ reply' = reply
    BY <1>3 DEF ProjectCurrentState
  <2>3. \A d \in Client : /\ pc'[d] = "idle" <=> pc[d] = "idle"
                          /\ pc[d] = "idle" => reply'[d] = reply[d]
    BY <1>1, <2>1, <2>2 DEF IInv, TypeOK
  <2> QED BY <2>2, <2>3, InnerStepRefines
<1> QED BY <1>2, <1>3

LEMMA AppendEventRefines ==
    ASSUME IInv, FInv, NEW c \in Client, AppendEvent(c)
    PROVE  UNCHANGED Log!vars
<1>1. UNCHANGED <<db, script>> /\ reply' = reply
  BY DEF AppendEvent
<1>2. pc[c] = "append" /\ pc' = [pc EXCEPT ![c] = "persist"]
  BY DEF AppendEvent
<1>3. \A d \in Client : /\ pc'[d] = "idle" <=> pc[d] = "idle"
                        /\ pc[d] = "idle" => reply'[d] = reply[d]
  BY <1>1, <1>2 DEF IInv, TypeOK
<1> QED BY <1>1, <1>3, InnerStepRefines

LEMMA PersistStateRefines ==
    ASSUME IInv, FInv, NEW c \in Client, PersistState(c)
    PROVE  Log!Fail(c) \/ UNCHANGED Log!vars
<1>1. pc[c] = "persist"
  BY DEF PersistState
<1>2. CASE Retry(c)
  BY <1>1, <1>2, RetryRefines
<1>3. CASE ~Retry(c)
  <2>1. PICK a, state : Persisted(c, a, state)
    BY <1>3 DEF PersistState
  <2>2. UNCHANGED <<db, script>> /\ pc' = [pc EXCEPT ![c] = "apply"]
    BY <2>1 DEF Persisted
  <2>3. PICK answer : reply' = [reply EXCEPT ![c] = answer]
    BY <2>1 DEF Persisted
  <2>4. \A d \in Client : /\ pc'[d] = "idle" <=> pc[d] = "idle"
                          /\ pc[d] = "idle" => reply'[d] = reply[d]
    BY <1>1, <2>2, <2>3 DEF IInv, TypeOK, FInv, AnswersTyped
  <2> QED BY <2>2, <2>4, InnerStepRefines
<1> QED BY <1>2, <1>3

(***************************************************************************)
(* The commit.  Its documents are those the transaction wrote, and the     *)
(* committed ones of the other aggregates, which the script leaves alone.  *)
(***************************************************************************)
Overlay(x, d, wr) == [a \in Aggregate |-> IF a \in wr THEN x[a] ELSE d[a]]

LEMMA AfterOverlay ==
    ASSUME NEW x \in Documents, NEW d \in Documents, NEW wr \in SUBSET Aggregate,
           NEW op, op.aggregate \in wr
    PROVE  Overlay(After(x, op), d, wr) = After(Overlay(x, d, wr), op)
<1> DEFINE b == op.aggregate
           y == IF x[b] = Throw THEN Throw ELSE Reducer[<<x[b], op.event>>]
<1>1. After(x, op) = [x EXCEPT ![b] = y]
  BY DEF After, Documents
<1>2. Overlay(x, d, wr) = [a \in Aggregate |-> IF a \in wr THEN x[a] ELSE d[a]]
  BY DEF Overlay
<1>3. Overlay(x, d, wr)[b] = x[b]
  BY <1>2
<1>4. After(Overlay(x, d, wr), op) = [Overlay(x, d, wr) EXCEPT ![b] = y]
  BY <1>2, <1>3 DEF After
<1> HIDE DEF y, b
<1>5. [Overlay(x, d, wr) EXCEPT ![b] = y] =
         [a \in Aggregate |-> IF a = b THEN y ELSE IF a \in wr THEN x[a] ELSE d[a]]
  BY <1>2
<1>6. Overlay([x EXCEPT ![b] = y], d, wr) =
         [a \in Aggregate |-> IF a = b THEN y ELSE IF a \in wr THEN x[a] ELSE d[a]]
  BY DEF Overlay, Documents, b
<1> QED BY <1>1, <1>4, <1>5, <1>6

LEMMA OverlayRuns ==
    ASSUME NEW s, NEW n \in Nat, NEW f \in [0 .. n -> Documents],
           IsRunning(f, s, n, f[0]), NEW d \in Documents,
           NEW wr \in SUBSET Aggregate, WroteAll(s, n, wr),
           \A a \in wr : f[0][a] = d[a]
    PROVE  \E h : /\ IsRunning(h, s, n, d)
                  /\ h[n] = Overlay(f[n], d, wr)
                  /\ Told(h, s, n) = Told(f, s, n)
<1> DEFINE h == [i \in 0 .. n |-> Overlay(f[i], d, wr)]
<1>1. \A i \in 0 .. n : h[i] = Overlay(f[i], d, wr) /\ f[i] \in Documents
  OBVIOUS
<1>2. h = [i \in 0 .. n |-> h[i]]
  OBVIOUS
<1> HIDE DEF h
<1>3. h[0] = d
  <2>1. Overlay(f[0], d, wr) = [a \in Aggregate |-> d[a]]
    BY DEF Overlay
  <2>2. d = [a \in Aggregate |-> d[a]]
    BY DEF Documents
  <2> QED BY <1>1, <2>1, <2>2
<1>4. ASSUME NEW i \in 1 .. n PROVE h[i] = After(h[i - 1], s[i])
  <2>1. i \in 0 .. n /\ i - 1 \in 0 .. n
    OBVIOUS
  <2>2. f[i] = After(f[i - 1], s[i]) /\ s[i].aggregate \in wr
    BY DEF IsRunning, WroteAll
  <2>3. f[i - 1] \in Documents
    BY <1>1, <2>1
  <2>4. Overlay(After(f[i - 1], s[i]), d, wr) = After(Overlay(f[i - 1], d, wr), s[i])
    BY <2>2, <2>3, AfterOverlay
  <2> QED BY <1>1, <2>1, <2>2, <2>4
<1>5. IsRunning(h, s, n, d)
  BY <1>2, <1>3, <1>4 DEF IsRunning
<1>6. h[n] = Overlay(f[n], d, wr)
  BY <1>1
<1>7. Told(h, s, n) = Told(f, s, n)
  <2>1. ASSUME NEW i \in 1 .. n
        PROVE  /\ h[i][s[i].aggregate] = f[i][s[i].aggregate]
               /\ h[i - 1][s[i].aggregate] = f[i - 1][s[i].aggregate]
    <3>1. i \in 0 .. n /\ i - 1 \in 0 .. n /\ s[i].aggregate \in wr
      BY DEF WroteAll
    <3>2. /\ h[i] = Overlay(f[i], d, wr)
          /\ h[i - 1] = Overlay(f[i - 1], d, wr)
      BY <1>1, <3>1
    <3> QED BY <3>1, <3>2 DEF Overlay
  <2> QED BY <2>1 DEF Told
<1> QED BY <1>5, <1>6, <1>7

\* What makes a step of the store a commit of the log.
LEMMA CommitIs ==
    ASSUME NEW c \in Client, NEW s, NEW f, NEW answer,
           InFlight[c] = s, s # NoCall, Len(s) \in Nat, DOMAIN s = 1 .. Len(s),
           IsRunning(f, s, Len(s), stateCollection), stateCollection' = f[Len(s)],
           \A a \in Aggregate : stateCollection'[a] # Throw,
           StoredLog' = [a \in Aggregate |-> StoredLog[a] \o Log!EventsFor(s, a)],
           answer \in {Told(f, s, Len(s)), <<>>},
           Answered' = [Answered EXCEPT ![c] = answer],
           InFlight' = [InFlight EXCEPT ![c] = NoCall]
    PROVE  Log!Commit(c)
<1>1. Log!Running(s, stateCollection) = f
  BY RunningIs
<1>2. [i \in DOMAIN s |-> [beforeState |-> f[i - 1][s[i].aggregate],
                           state       |-> f[i][s[i].aggregate]]] = Told(f, s, Len(s))
  BY DEF Told
<1> QED BY <1>1, <1>2 DEF Log!Commit

\* The events a commit adds to the log, when nothing was inserted.
LEMMA NothingInserted ==
    ASSUME TypeOK, NEW c \in Client, Commit(c), inserted[c] = NoInserts
    PROVE  StoredLog' = [a \in Aggregate |-> StoredLog[a] \o Log!EventsFor(<<>>, a)]
<1> SUFFICES ASSUME NEW a \in Aggregate
             PROVE  Payloads(eventsCollection'[a]) =
                       Payloads(eventsCollection[a]) \o Log!EventsFor(<<>>, a)
  BY DEF StoredLog
<1> DEFINE g == [i \in 0 .. 0 |-> <<>>]
<1>1. g[0] = <<>> /\ g = [i \in 0 .. 0 |-> g[i]]
  OBVIOUS
<1> HIDE DEF g
<1>2. IsChosen(g, <<>>, 0, a) /\ Len(<<>>) = 0
  BY <1>1 DEF IsChosen
<1>3. Log!EventsFor(<<>>, a) = <<>>
  BY <1>1, <1>2, EventsForIs
<1>4. eventsCollection'[a] = eventsCollection[a] \o <<>>
  BY DEF Commit, NoInserts
<1>5. eventsCollection[a] \in Seq(EventDoc)
  BY DEF TypeOK
<1>6. eventsCollection'[a] = eventsCollection[a]
  BY <1>4, <1>5
<1>7. Payloads(eventsCollection[a]) \in Seq(Event)
  BY <1>5, PayloadsType
<1> QED BY <1>3, <1>6, <1>7

LEMMA CommitRefines ==
    ASSUME IInv, FInv, NEW c \in Client, Commit(c)
    PROVE  Log!Commit(c)
<1> DEFINE s == script[c]
           n == step[c] - 1
           v == view[c]
<1>1. /\ pc[c] = "apply" /\ n >= Len(s)
  BY DEF Commit, IInv, TypeOK
<1>2. PICK answer \in {reply[c], <<>>} : reply' = [reply EXCEPT ![c] = answer]
  BY DEF Commit
<1>3. pc' = [pc EXCEPT ![c] = "idle"] /\ script' = [script EXCEPT ![c] = <<>>]
  BY DEF Commit, EndCall
<1>4. InFlight' = [InFlight EXCEPT ![c] = NoCall]
  BY <1>3 DEF InFlight, IInv, TypeOK
<1>5. Answered' = [Answered EXCEPT ![c] = answer]
  BY <1>1, <1>2, <1>3 DEF Answered, IInv, TypeOK, FInv, AnswersTyped
<1>6. InFlight[c] # NoCall
  BY <1>1, InFlightIsCall
<1>7. stateCollection' = Overlay(v.docs, stateCollection, written[c])
  BY DEF Commit, Overlay
<1>8. stateCollection \in Documents /\ written[c] \in SUBSET Aggregate
  BY DEF Documents, IInv, TypeOK
<1>9. \A a \in Aggregate : stateCollection'[a] # Throw
  <2>1. stateCollection' \in [Aggregate -> Stored]
    BY CommitRight DEF IInv, TypeOK
  <2> QED BY <2>1, ValuesAssumption DEF Stored
<1>10. CallIsRight(s, n, v, inserted[c], written[c], pending[c], "apply", reply[c])
  BY <1>1 DEF FInv, Faithful
<1>11. CASE s \in Script /\ v # None
  <2>1. ScriptRight(s, n, v, inserted[c], written[c], pending[c], "apply", reply[c])
    BY <1>10, <1>11 DEF CallIsRight
  <2>2. /\ n \in 0 .. Len(s) /\ Ran(s, n, v, reply[c])
        /\ InsertedAre(s, n, inserted[c]) /\ WroteAll(s, n, written[c])
    BY <2>1 DEF ScriptRight, Events
  <2>3. s \in Seq(Operation) /\ Len(s) \in Nat /\ DOMAIN s = 1 .. Len(s)
    BY <1>11, ScriptTyped
  <2>4. n = Len(s) /\ n \in Nat
    BY <1>1, <2>2, <2>3
  <2>5. PICK f \in [0 .. n -> Documents] :
           /\ IsRunning(f, s, n, f[0])
           /\ \A a \in Aggregate : f[0][a] = Projection(v.events[a])
           /\ f[n] = v.docs
           /\ reply[c] = Told(f, s, n)
    BY <2>2 DEF Ran
  <2>6. \A a \in written[c] : f[0][a] = stateCollection[a]
    <3> TAKE a \in written[c]
    <3>1. a \in Aggregate /\ ViewRight(c, a)
      BY <1>8, <1>11 DEF IInv, TransactionRight
    <3>2. v.events[a] = eventsCollection[a]
      BY <3>1 DEF ViewRight
    <3> QED BY <2>5, <3>1, <3>2 DEF IInv, StoreRight
  <2>7. PICK h : /\ IsRunning(h, s, n, stateCollection)
                 /\ h[n] = Overlay(f[n], stateCollection, written[c])
                 /\ Told(h, s, n) = Told(f, s, n)
    BY <1>8, <2>2, <2>4, <2>5, <2>6, OverlayRuns
  <2>8. StoredLog' = [a \in Aggregate |-> StoredLog[a] \o Log!EventsFor(s, a)]
    <3> SUFFICES ASSUME NEW a \in Aggregate
                 PROVE  Payloads(eventsCollection'[a]) =
                           Payloads(eventsCollection[a]) \o Log!EventsFor(s, a)
      BY DEF StoredLog
    <3>1. PICK g : IsChosen(g, s, n, a) /\ Payloads(inserted[c][a]) = g[n]
      BY <2>2 DEF InsertedAre
    <3> HIDE DEF s, n
    <3>2. Log!EventsFor(s, a) = g[n]
      BY <2>3, <2>4, <3>1, EventsForIs
    <3>3. eventsCollection'[a] = eventsCollection[a] \o inserted[c][a]
      BY DEF Commit
    <3>4. eventsCollection[a] \in Seq(EventDoc) /\ inserted[c][a] \in Seq(EventDoc)
      BY DEF IInv, TypeOK
    <3>5. Payloads(eventsCollection[a] \o inserted[c][a]) =
             Payloads(eventsCollection[a]) \o Payloads(inserted[c][a])
      BY <3>4, PayloadsOfConcat
    <3> QED BY <3>1, <3>2, <3>3, <3>5
  <2>9. InFlight[c] = s
    BY <1>1, <1>11 DEF InFlight
  <2> HIDE DEF s, n, v
  <2>10. answer \in {Told(h, s, Len(s)), <<>>}
    BY <1>2, <2>4, <2>5, <2>7
  <2>11. IsRunning(h, s, Len(s), stateCollection) /\ stateCollection' = h[Len(s)]
    BY <1>7, <2>4, <2>5, <2>7
  <2>12. s # NoCall
    BY <1>6, <2>9
  <2> QED BY <1>4, <1>5, <1>9, <2>3, <2>8, <2>9, <2>10, <2>11, <2>12, CommitIs
<1>12. CASE ~(s \in Script /\ v # None)
  <2>1. inserted[c] = NoInserts /\ written[c] = {} /\ reply[c] = <<>>
    <3>1. CASE v = None
      BY <1>10, <3>1 DEF CallIsRight, IInv, TransactionRight
    <3>2. CASE v # None
      BY <1>10, <1>12, <3>2 DEF CallIsRight, ReplayRight
    <3> QED BY <3>1, <3>2
  <2>2. InFlight[c] = <<>>
    <3>1. CASE s \notin Script
      BY <1>1, <3>1 DEF InFlight
    <3>2. CASE s \in Script
      <4>1. n = 0 /\ Len(s) \in Nat /\ s \in Seq(Operation)
        BY <1>10, <1>12, <3>2, ScriptTyped DEF CallIsRight
      <4>2. Len(s) = 0
        BY <1>1, <4>1
      <4>3. s = <<>>
        BY <4>1, <4>2
      <4> QED BY <1>1, <4>3 DEF InFlight
    <3> QED BY <3>1, <3>2
  <2> DEFINE f == [i \in 0 .. 0 |-> stateCollection]
  <2>3. f[0] = stateCollection /\ f = [i \in 0 .. 0 |-> f[i]]
    OBVIOUS
  <2> HIDE DEF f
  <2>4. Len(<<>>) = 0 /\ DOMAIN <<>> = 1 .. Len(<<>>) /\ Len(<<>>) \in Nat
    OBVIOUS
  <2>5. IsRunning(f, <<>>, Len(<<>>), stateCollection)
    BY <2>3, <2>4 DEF IsRunning
  <2>6. stateCollection' = f[Len(<<>>)]
    <3>1. Overlay(v.docs, stateCollection, {}) = [a \in Aggregate |-> stateCollection[a]]
      BY DEF Overlay
    <3>2. stateCollection = [a \in Aggregate |-> stateCollection[a]]
      BY <1>8 DEF Documents
    <3> QED BY <1>7, <2>1, <2>3, <2>4, <3>1, <3>2
  <2>7. StoredLog' = [a \in Aggregate |-> StoredLog[a] \o Log!EventsFor(<<>>, a)]
    BY <2>1, NothingInserted DEF IInv
  <2>8. answer \in {Told(f, <<>>, Len(<<>>)), <<>>}
    BY <1>2, <2>1
  <2>9. <<>> # NoCall
    BY <1>6, <2>2
  <2> QED BY <1>4, <1>5, <1>9, <2>2, <2>4, <2>5, <2>6, <2>7, <2>8, <2>9, CommitIs
<1> QED BY <1>11, <1>12

LEMMA StepRefines == IInv /\ FInv /\ [Next]_vars => [Log!Next]_(Log!vars)
<1> SUFFICES ASSUME IInv, FInv, [Next]_vars PROVE Log!Next \/ UNCHANGED Log!vars
  OBVIOUS
<1>1. CASE UNCHANGED vars
  BY <1>1 DEF vars, Log!vars, StoredLog, InFlight, Answered
<1>2. ASSUME NEW c \in Client,
             Call(c) \/ Progress(c) \/ TransientFault(c) \/ Abort(c)
      PROVE  Log!Submit(c) \/ Log!Commit(c) \/ Log!Fail(c) \/ UNCHANGED Log!vars
  <2>1. CASE Call(c)
    BY <2>1, CallRefines
  <2>2. CASE ProjectCurrentState(c)
    BY <2>2, ProjectRefines
  <2>3. CASE AppendEvent(c)
    BY <2>3, AppendEventRefines
  <2>4. CASE PersistState(c)
    BY <2>4, PersistStateRefines
  <2>5. CASE Commit(c)
    BY <2>5, CommitRefines
  <2>6. CASE TransientFault(c)
    BY <2>6, RetryRefines DEF TransientFault
  <2>7. CASE Abort(c)
    BY <2>7, RejectRefines DEF Abort
  <2> QED BY <1>2, <2>1, <2>2, <2>3, <2>4, <2>5, <2>6, <2>7 DEF Progress
<1> QED BY <1>1, <1>2 DEF Next, Log!Next

(***************************************************************************)
(* applyEvent and replay implement EventLog: for any number of concurrent  *)
(* callers, whatever the conflicts, retries and crashes, a call takes      *)
(* effect at one instant, its commit, with all of its events and the       *)
(* states its caller is told, or not at all.                               *)
(***************************************************************************)
THEOREM CallsAreAtomic == Spec => ImplementsEventLog
<1>1. Init => IInv /\ FInv /\ Log!Init
  BY InitIInv, InitFInv, InitRefines
<1>2. IInv /\ FInv /\ [Next]_vars => IInv' /\ FInv' /\ [Log!Next]_(Log!vars)
  BY StepRight, StepFaithful, StepRefines
<1> QED BY <1>1, <1>2, PTL DEF Spec, Log!Spec, ImplementsEventLog

===============================================================================
