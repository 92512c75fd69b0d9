------------------------------- MODULE EventLog -------------------------------
(***************************************************************************)
(* What lib/eventStore.ts promises its callers, with the database left out:*)
(* a log of events per aggregate and one state document per aggregate, and *)
(* calls that take effect at one instant.  A call carries a script, the    *)
(* events one transaction applies, in order, to one or more aggregates.    *)
(* Either every event of the script is accepted by the reducer, appended   *)
(* and folded into the documents at that instant, or the call has no       *)
(* effect.  The caller is told the states around each of its events, as    *)
(* they were at that instant, unless the acknowledgement is lost.          *)
(***************************************************************************)
EXTENDS Naturals, Sequences

CONSTANTS
    Client,     \* the concurrent callers: requests and background jobs
    Aggregate,  \* aggregate ids
    Script,     \* the scripts a caller may submit, sequences of operations
    Reducer,    \* the aggregate's reducer, [<<state or Null, event>> -> ...]
    Null,       \* no state document
    Throw,      \* the reducer rejected the event
    NoCall      \* the caller has nothing in flight

VARIABLES
    log,        \* [Aggregate -> Seq(event)]
    doc,        \* [Aggregate -> state or Null]
    call,       \* [Client -> Script, or NoCall]
    reply       \* [Client -> what the last call was told]

vars == <<log, doc, call, reply>>

Init ==
    /\ log = [a \in Aggregate |-> <<>>]
    /\ doc = [a \in Aggregate |-> Null]
    /\ call = [c \in Client |-> NoCall]
    /\ reply = [c \in Client |-> <<>>]

(***************************************************************************)
(* Running a script against the documents d: the documents after each of   *)
(* its first i operations.                                                 *)
(***************************************************************************)
Running(script, d) ==
    LET run[i \in 0 .. Len(script)] ==
          IF i = 0 THEN d
          ELSE LET op == script[i] IN
               [run[i - 1] EXCEPT ![op.aggregate] =
                   IF @ = Throw THEN Throw ELSE Reducer[<<@, op.event>>]]
    IN run

\* The events of the script on aggregate a, in order.
EventsFor(script, a) ==
    LET chosen[i \in 0 .. Len(script)] ==
          IF i = 0 THEN <<>>
          ELSE IF script[i].aggregate = a
               THEN Append(chosen[i - 1], script[i].event)
               ELSE chosen[i - 1]
    IN chosen[Len(script)]

Submit(c) ==
    /\ call[c] = NoCall
    /\ \E script \in Script : call' = [call EXCEPT ![c] = script]
    /\ reply' = [reply EXCEPT ![c] = <<>>]
    /\ UNCHANGED <<log, doc>>

Commit(c) ==
    /\ call[c] # NoCall
    /\ LET script == call[c]
           run    == Running(script, doc)
           told   == [i \in DOMAIN script |->
                        [beforeState |-> run[i - 1][script[i].aggregate],
                         state       |-> run[i][script[i].aggregate]]]
       IN /\ \A a \in Aggregate : run[Len(script)][a] # Throw
          /\ log' = [a \in Aggregate |-> log[a] \o EventsFor(script, a)]
          /\ doc' = run[Len(script)]
          /\ \E answer \in {told, <<>>} : reply' = [reply EXCEPT ![c] = answer]
    /\ call' = [call EXCEPT ![c] = NoCall]

Fail(c) ==
    /\ call[c] # NoCall
    /\ call' = [call EXCEPT ![c] = NoCall]
    /\ UNCHANGED <<log, doc, reply>>

Next == \E c \in Client : Submit(c) \/ Commit(c) \/ Fail(c)

Spec == Init /\ [][Next]_vars
===============================================================================
