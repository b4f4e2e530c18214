SPECIFICATION FairFetSpec
INVARIANTS NoFetUnasked
PROPERTIES OnlyCommandedOn OffReached
