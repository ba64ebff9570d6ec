SPECIFICATION Spec
CONSTANTS
    feed = feed
    enricher = enricher
    noKey = noKey
    port = port
    torn = torn
    mended = mended
    a = a
    b = b
    Sources <- MCSources
    Keys <- MCKeys
    NoKey = noKey
    RawFlags <- MCRawFlags
    EmptyFlag = ""
    Families <- MCFamilies
    LowerCase <- MCLowerCase
    Values <- MCValues
    InvalidTexts = {torn}
    Replacement <- MCReplacement
    MaxTime = 2
    Batches <- MCBatches
    LegacyPayloads <- MCLegacyPayloads
    MaxObservations = 3
INVARIANTS
    TypeOK
    UpdateExtendsFile
    SummaryMatchesHistory
    NoRepeatedObservation
    PeriodsInOrder
    LastAttemptIsLatest
PROPERTIES
    HistoryOnlyGrows
