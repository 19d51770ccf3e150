SPECIFICATION SessionsSpec
CONSTANTS
    d1 = d1
    d2 = d2
    s1 = s1
    s2 = s2
    s3 = s3
    n1 = n1
    n2 = n2
    k1 = k1
    k2 = k2
    Device = {d1, d2}
    Sock = {s1, s2}
    Msg = {}
    Author <- MCAuthor
    Name = {n1, n2}
    Key = {k1}
    MaxClock = 0
    Null = Null
    RequireTailscale = FALSE
    Managed = {d1, d2}
    CliAborts = TRUE
SYMMETRY Symmetry
VIEW View
INVARIANTS
    TypeOK
    MembershipShared
    MembersTold
    PresenceAccurate
