\* Three parts for two workers; the remote side refuses one request.
CONSTANTS
    Configs <- MCThreeParts
    Limit = 2
SPECIFICATION FairSpec
CHECK_DEADLOCK FALSE
PROPERTIES
    ReaderServed
