\* The ring wraps more than twice.
SPECIFICATION MCSpec
CONSTANTS
    Capacity = 4
    MaxPushes = 9
INVARIANT NoDataRace
INVARIANT IndicesInOrder
PROPERTY ImplementsFifo
PROPERTY EveryItemIsTaken
