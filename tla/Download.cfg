\* Two workers that recycle their buffers, one status error, other downloads.
CONSTANTS
    Configs <- MCConfigs
    Limit = 2
SPECIFICATION FairSpec
CHECK_DEADLOCK FALSE
INVARIANTS
    TypeOK DeliveredInOrder SlotsBalanced WithinConcurrency BlocksOutliveIO
PROPERTIES
    SlotsReturned ServedByWorkers
