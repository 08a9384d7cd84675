SPECIFICATION FairSpec
CONSTANTS
    a = a
    b = b
    Callers = {a, b}
    Slots = {1, 2}
    MaxCalls = 1
INVARIANTS
    AnswersMatch
    BusyMeansNeverWritten
    RolesHandedOn
    RefsExact
PROPERTIES
    CallsEnd
