\* Two peers on a map of one, two requests at once, readings one tick late.  An
\* idle time earns less than a burst, so the sweep gives tokens away, twice in
\* the longest window.
SPECIFICATION Spec
CONSTANTS
    Client = {c1, c2}
    Request = {r1, r2}
    None = None
    Overflow = Overflow
    Burst = 5
    Weight = {2}
    Rate = 1
    MaxClients = 1
    TTL = 3
    SweepInterval = 1
    MaxStall = 1
    MaxTime = 6
INVARIANTS
    TypeOK
    GrantsBounded
SYMMETRY Symmetry
