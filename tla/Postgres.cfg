\* Statements, calls and constructors end: the parts stop.
SPECIFICATION MCSpec
CONSTANTS
    Off = Off
    Creators = {c1, c2}
    Removers = {d1}
    Tasks = {t1}
    Configs = {p1, p2}
    OwnIdentity <- Own
    TaskStores <- PairedStores
    Isolations <- ReadCommittedOnly
    PageSize = 1
    MaxCalls = 3
INVARIANTS NoLocalOrphan PoolKept
PROPERTIES PushRowsKept ImplementsRevisionedStore SchemaInstalledWhole EveryoneReturns
CHECK_DEADLOCK FALSE
