SPECIFICATION FairSpec
CONSTANTS
    Watchers = {w1, w2}
    Modes <- AllModes
    Filters <- SomeOrNone
    Ids = {1, 2}
    MaxStarts = 2
    MaxStops = 1
INVARIANTS SeenWasDealtWith
PROPERTIES ActsOnce EveryItemDealtWith
CHECK_DEADLOCK FALSE
