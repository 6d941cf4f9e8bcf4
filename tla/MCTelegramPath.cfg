CONSTANTS
    Values <- MCValues
    Addresses <- MCAddresses
    Foreign <- MCForeign
    default_namespace = ""
    kMaxSharedValueBytes = 2
    kSharedCacheCapacity = 2
    MaxBus = 1
    kMaxQueryParams = 2
    kMaxValuesPerKey = 2
    kMaxTotalPairs = 5
    Spelling <- MCSpelling
    url_decode <- MCDecode
    Malformed = Malformed
    MaxPairs = 6
    Char <- MCChar
    Mounts <- MCMounts
    Names <- MCNames
    Queries <- MCQueries
    IntMax = 15
    Second = 3
    Settings <- MCSettings
    Timeouts <- MCTimeouts
    None = None
    DefaultSec = 2
    MaxSec = 4
SPECIFICATION MCSpec
INVARIANTS
    CachedByGroup
    ReadsWhatWasSent
    LimitsKeepFirst
    EndpointReached
    PollsInTime
