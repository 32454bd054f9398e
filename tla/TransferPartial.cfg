\* One directory with one file is moved, and nothing is tried twice.
CONSTANTS
    dir = dir  file = file  Root = Root  Nil = Nil
    Objects = {dir, file}
    Dirs = {dir}
    Parent <- MCParent
    Above <- MCAbove
    Existing = {}
    Requests <- MCOneMove
    Slots = {1, 2}
    MaxRetry = 0
    MaxManual = 0
    MaxRestarts = 0
SPECIFICATION Spec
CHECK_DEADLOCK FALSE
INVARIANTS
    MovedWhole
