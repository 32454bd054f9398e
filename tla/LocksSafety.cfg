\* Two requests on a directory and its file.
CONSTANTS
    h1 = h1  h2 = h2  dir = dir  file = file  Nil = Nil
    Paths = {dir, file}
    Above <- MCAbove
    Handlers = {h1, h2}
    Durations <- MCDurations
    Targets <- MCTargets
    MaxLocks = 2
    Tokens = {1, 2, 3, 4, 5, 6}
    MaxTime = 1
SPECIFICATION Spec
SYMMETRY MCSymmetry
INVARIANTS
    TypeOK CountsExact NoConflictingLocks ExpiryExact ClaimsExact TempLocksOwned OnlySharersMeet
