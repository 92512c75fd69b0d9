----------------------------- MODULE MCEventStore -----------------------------
(***************************************************************************)
(* Small instances of EventStore.  The reducer has the shape of the ones   *)
(* in src/services: create, an edit that adds a field, and a delete; every *)
(* accepted event flips "stamp", which stands for updatedAt.               *)
(***************************************************************************)
EXTENDS EventStore, TLC

CONSTANTS a1, a2, create, edit, delete

MCEvent == {create, edit, delete}
MCState == [{"stamp"} -> {0, 1}] \cup [{"stamp", "note"} -> {0, 1}]

Changed(s) == [s EXCEPT !["stamp"] = 1 - @]

MCReducer == [x \in (MCState \cup {Null}) \X MCEvent |->
    CASE x[2] = create /\ x[1] = Null -> [f \in {"stamp"} |-> 0]
      [] x[2] = create /\ x[1] # Null -> Changed(x[1])
      [] x[2] # create /\ x[1] = Null -> Throw
      [] x[2] = edit /\ x[1] # Null ->
            [f \in {"stamp", "note"} |->
               IF f = "stamp" THEN 1 - x[1]["stamp"] ELSE 1]
      [] x[2] = delete /\ x[1] # Null -> Null]

Op(a, e) == [aggregate |-> a, event |-> e]

\* Two aggregates touched in opposite orders, and one touched twice in a row.
MCScript == {<<Op(a1, create), Op(a1, edit), Op(a2, delete)>>,
             <<Op(a2, create), Op(a1, create)>>}
===============================================================================
