\* A directory moved by a task and inline: uploads that fail half way, retries by the
\* manager and by a user, a restart.
CONSTANTS
    dir = dir  file = file  Root = Root  Nil = Nil
    Objects = {dir, file}
    Dirs = {dir}
    Parent <- MCParent
    Above <- MCAbove
    Existing = {}
    Requests <- MCTwoMoves
    Slots = {1, 2, 3}
    MaxRetry = 1
    MaxManual = 1
    MaxRestarts = 1
SPECIFICATION FairSpec
CHECK_DEADLOCK FALSE
INVARIANTS
    TypeOK CountsExact NothingLost CompletionsExact
PROPERTIES
    GroupsDrain MovedAway
