\* The three programs with every combination of their options and every failure.
SPECIFICATION FairLifecycleSpec
INVARIANT CallbackStateAlive
INVARIANT ReleasedInOrder
PROPERTY EveryWayOutReturns
