SPECIFICATION Spec
CONSTANTS
    Port = {port}
    Pid = {p1, p2}
    NoPid = NoPid
    Program = {game, app}
    Games = {game}
    Lists = {{app}}
    NoFile = NoFile
    Modes = {2, 3}
    Monitor = {m1, m2}
    Reload = 1
    CacheTtl = 2
    CacheSize = 1
    MaxEvents = 2
INVARIANTS TypeOK PortsAttributed VerdictsCatchUp
