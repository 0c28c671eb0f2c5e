SPECIFICATION FairSpec
CONSTANTS
    Byte <- Tokens
    Config <- Configs
    Request <- Requests
    Host <- Names
    Blacklist <- Blocked
    Allowlist <- Allowed
    Gaming <- GameNames
    Windows <- Sizes
    Mss = 20
    Cap = 4
INVARIANTS TypeOK ServerReadsRequest NameApartFromStart RatioBounded
PROPERTIES BystanderAsSent RequestArrives
