SPECIFICATION FairSpec
CONSTANTS
    Addresses = {a1, a2}
    Values = {empty, v}
    EmptyValue = empty
INVARIANTS
    TypeOK
    NoLostUpdate
    TempsAccountedFor
    IndexAccountsForEveryFile
PROPERTIES
    AtomicWrites
    EverythingEnds
