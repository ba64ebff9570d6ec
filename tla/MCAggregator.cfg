SPECIFICATION FairSpec
CONSTANTS
    feed = feed
    enricher = enricher
    other = other
    a1 = a1
    a2 = a2
    a3 = a3
    a4 = a4
    noKey = noKey
    mirai = mirai
    said = said
    Sources = {feed, enricher, other}
    Keys = {noKey}
    NoKey = noKey
    RawFlags = {mirai}
    EmptyFlag = ""
    Families = {mirai}
    LowerCase <- OneFamily
    Values = {said}
    InvalidTexts = {}
    Replacement <- NoReplacement
    MaxTime = 3
    Addresses = {a1, a2, a3, a4}
    Order <- InOrder
    Setups <- MCSetups
    Answers <- OnlyReports
    MaxConsecutiveLookupFailures = 2
INVARIANTS
    SilenceMeansDone
    NewAddressesEnriched
    AtMostOneWriteAfterCancel
    IndexStaysTrue
    OutageStopsEnricher
PROPERTIES
    RefreshRespected
    RunEnds
