SPECIFICATION SessionsSpec
CONSTANTS
    d1 = d1
    d2 = d2
    s1 = s1
    s2 = s2
    n1 = n1
    k1 = k1
    Device = {d1, d2}
    Sock = {s1, s2}
    Msg = {1}
    Author <- MCAuthor
    Name = {n1}
    Key = {k1}
    MaxClock = 1
    Null = Null
    RequireTailscale = FALSE
    Managed = {}
    CliAborts = FALSE
SYMMETRY Symmetry
VIEW View
PROPERTIES
    SentAgrees
