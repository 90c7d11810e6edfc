SPECIFICATION Spec
CONSTANTS
    Clients = {c1}
    Tables = {"user"}
    RawSizes <- RequestedSizes
    DefaultSize = 2
    MaxSize = 3
    MaxID = 5
INVARIANTS
    TypeOK
    NoTokenNothingLeft
PROPERTY
    PagesEnd
\* A client stops after its last page.
CHECK_DEADLOCK FALSE
