SPECIFICATION SessionsSpec
CONSTANTS
    d1 = d1
    d2 = d2
    s1 = s1
    s2 = s2
    s3 = s3
    n1 = n1
    n2 = n2
    k1 = k1
    k2 = k2
    Device = {d1, d2}
    Sock = {s1, s2, s3}
    Msg = {}
    Author <- MCAuthor
    Name = {n1}
    Key = {k1, k2}
    MaxClock = 0
    Null = Null
    RequireTailscale = TRUE
    Managed = {}
    CliAborts = FALSE
SYMMETRY Symmetry
VIEW View
INVARIANTS
    RegistryConsistent
    PresenceAccurate
PROPERTIES
    ReplacedNeverReturns
