SPECIFICATION Spec
CONSTANTS
    a = a  b = b  c = c  d = d  r1 = r1  r2 = r2  r3 = r3
    Nodes <- MCNodes
    NoNode = NoNode
    Keep = Keep
    Requests <- MCRequests
    MaxActive = 3
    MaxFaults = 1
SYMMETRY Symmetry
INVARIANTS
    DeletionsHarmless
    OrphansExplained
    CyclesExplained
PROPERTIES
    OnlyLatecomersCascade
\* Clients stop once every request has been used.
CHECK_DEADLOCK FALSE
