SPECIFICATION FairSpec
CONSTANT Worlds <- MCWorlds
INVARIANTS StoreConsistent DeletedStaysDeleted
PROPERTIES SavedKept JobsEnd
CHECK_DEADLOCK FALSE
