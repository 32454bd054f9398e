\* Two callers with four calls between them, two links, one Put.
CONSTANTS
    c1 = c1  c2 = c2  Nil = Nil
    Callers <- MCCallers
    MaxCalls = 4
    MaxLinks = 2
    MaxPuts = 1
SPECIFICATION FairSpec
CHECK_DEADLOCK FALSE
INVARIANTS
    TypeOK SharedLinksAlive StaleOnlyIfRaced
PROPERTIES
    LinksReleased
