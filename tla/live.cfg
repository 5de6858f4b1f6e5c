SPECIFICATION FairSpec
CONSTANTS
    ca = ca
    d1 = d1
    d2 = d2
    h1 = h1
    n1 = n1
    c1 = c1
    a1 = a1
    a2 = a2
    Ca = ca
    NoOne = NoOne
    Locations <- TwoLocations
    Hosts = {h1}
    Names = {n1}
    Ops = {"encrypt"}
    CredIds = {c1}
    Kind <- Symmetric
    Failing = {}
    DataFits = TRUE
    Admins = {a1}
    Grants = {{}, {"encrypt"}}
    Reloads = FALSE
    ChecksPage = TRUE
    MaxRequests = 3
    Killable = {}
    MaxKills = 0
    MaxClients = 1
    Backlog = 1
    Window = 1
CHECK_DEADLOCK FALSE
INVARIANT Converged
PROPERTIES
    Settles
    ClientAnswered
