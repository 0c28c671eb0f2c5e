SPECIFICATION Spec
CONSTANTS
    Interval = 2
    Client = {c1, c2}
    V6Client = {c2}
    Server = {s, r}
    Resolver = r
    Nobody = Nobody
    DnsPortV4 = 53
    DnsPortV6 = 53
    SelectApps = TRUE
    Allowed = {c1}
    MaxDelay = 1
    MaxNet = 2
INVARIANTS ResolverHidden
