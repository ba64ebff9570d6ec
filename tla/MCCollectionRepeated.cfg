SPECIFICATION Spec
CONSTANTS
    Sources <- MCFeedNames
    Keys = {"", "1", "2", "3", "80", "443", "/login", "/admin", "/torn", "/mended", "garbled"}
    NoKey = ""
    RawFlags <- MCRawFlags
    EmptyFlag = ""
    Families = {"qakbot", "emotet", "unknown", "garbled"}
    LowerCase <- MCLowerCase
    Values <- MCValues
    InvalidTexts = {"/torn"}
    Replacement <- MCReplacement
    MaxTime = 2
    AddressTexts <- MCAddressTexts
    PortTexts = {"80", "443"}
    DateTexts = {"today"}
    UnknownMalware = "unknown"
    Garbled = "garbled"
    FeedNames <- MCFeedNames
    Replies <- MCReplies
INVARIANTS
    RepeatedSightingsAddNothing
