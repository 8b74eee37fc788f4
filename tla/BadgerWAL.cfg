\* No snapshot lands on an existing log.
CONSTANTS
    MaxIndex = 3
    MaxTerm = 2
    NoEntry = NoEntry
    Keep = Keep
    RestoresOverLog = FALSE
SPECIFICATION Spec
INVARIANTS
    WALInvariant
    LoadsCleanly
    LastIndexExact
    TermExact
    EntriesExactUnlessCompacted
PROPERTIES
    CommittedEntriesKept
    FirstIndexGrows
    ImplementsRaftStorage
