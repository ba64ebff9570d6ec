SPECIFICATION Spec
CONSTANTS
    DurationBits = 12
    Hour = 60
    Minute = 1
    Addresses = {a1, a2}
    Jobs = {j1, j2}
    Branches = {"main", "topic"}
    Invocations <- MCInvocations
    MaxChanges = 2
    MaxCommits = 3
INVARIANTS
    StoredIsPublished
    PushesNeverRace
    StatsCountServers
    OnlyCheckedSourcesStore
SYMMETRY MCSymmetry
