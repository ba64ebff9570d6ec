SPECIFICATION Spec
CONSTANTS
    a1 = a1
    a2 = a2
    noKey = noKey
    Sources = {"enricher"}
    Keys <- MCKeys
    NoKey = noKey
    RawFlags = {""}
    EmptyFlag = ""
    Families = {}
    LowerCase <- NoFlags
    Values <- MCValues
    InvalidTexts = {}
    Replacement <- NoFlags
    MaxTime = 2
    Ids <- MCIds
    Details <- MCDetails
    Addresses = {a1, a2}
    Packages = {"shodan"}
    Statuses = {401, 403, 404, 422, 429, 503}
    Bodies <- MCBodies
    Holds <- MCHolds
    MaxConsecutiveLookupFailures = 2
    MaxObservations = 2
INVARIANTS
    ReorderingIsNeverAChange
