SPECIFICATION Spec
CONSTANTS
    r1 = r1  r2 = r2  u1 = u1  u2 = u2  u3 = u3
    Requests <- MCRequests
    Lister = r1
    Users <- MCUsers
    MaxConcurrency = 2
INVARIANTS
    TypeOK
    AnswersAreOwn
    AnsweredOnce
    TracesTell
    NobodyMissing
PROPERTY
    EveryRequestAnswered
\* Every request ends.
CHECK_DEADLOCK FALSE
