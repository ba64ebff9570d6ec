SPECIFICATION RefreshFairSpec
CONSTANTS
    a1 = a1
    a2 = a2
    a3 = a3
    Addresses <- ThreeAddresses
    Order <- ThreeInOrder
    Enricher = "enricher"
    Schedules <- EnoughAndSmall
    RunInterval = 2
INVARIANTS
    EnoughQuotaRefreshesInTime
PROPERTIES
    BacklogMovesByQuota NewAddressesAreTried
