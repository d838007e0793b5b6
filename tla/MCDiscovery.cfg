SPECIFICATION FairSpec
CONSTANTS
    Here = "here"
    Services <- MCServices
    Addresses <- MCAddresses
    Batch = 2
    Lifetime = 1
    MaxEvents = 2
INVARIANTS
    PeersFollow
PROPERTIES
    Converges
