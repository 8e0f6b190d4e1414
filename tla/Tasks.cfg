\* Clocks, histories and calls are bounded: the parts stop.
SPECIFICATION TasksSpec
CONSTANTS
    Off = Off NoTask = NoTask NoCursor = NoCursor NoMessageId = NoMessageId
    AnyContext = AnyContext AnyState = AnyState Free = Free
    a1 = a1 a2 = a2 s1 = s1 s2 = s2
    Threads = {t1, t2}
    MaxMs = 3
    MaxIds = 9
    SequenceCount = 4
    InitialSequences = 2
SYMMETRY Symmetry
INVARIANTS IncreasingUntilOverflow ListingExact StreamMissesNothing
PROPERTIES WritesAdvance NothingOverwritten TerminalIsFinal
CHECK_DEADLOCK FALSE
