SPECIFICATION FairSpec
CONSTANTS
    Client = {c1, c2}
    a1 = a1
    a2 = a2
    create = create
    edit = edit
    delete = delete
    Aggregate = {a1, a2}
    Event <- MCEvent
    State <- MCState
    Script <- MCScript
    Reducer <- MCReducer
    Null = Null
    Throw = Throw
    None = None
    Replay = Replay
    NoCall = NoCall
    MaxRecords = 3
    MaxAttempts = 2
INVARIANTS TypeOK SequencesContiguous NaturalOrder StateIsProjection
PROPERTIES ImplementsEventLog CallsSettle
\* Calls stop at MaxRecords, so all clients may end up idle.
CHECK_DEADLOCK FALSE
