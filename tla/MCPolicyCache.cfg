SPECIFICATION CacheSpec
CONSTANTS
    s1 = s1
    s2 = s2
    ra = ra
    rb = rb
    Servers <- MCServers
    Rules <- MCRules
    MaxWrites = 3
INVARIANTS
    LagIsBounded
PROPERTIES
    MemoriesConverge
