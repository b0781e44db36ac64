SPECIFICATION Spec
CONSTANTS
    Daemons = {d1, d2}
    ByHand = {d1}
    Proxies = {p1}
    Crashed = d0
    NoOne = NoOne
    IdleTimeout = 1
    StartupGrace = 1
    Polls = 1
    Capacity = 1
    MaxLines = 1
    MaxKills = 0

CHECK_DEADLOCK FALSE
PROPERTIES NoZombie SessionsServed
