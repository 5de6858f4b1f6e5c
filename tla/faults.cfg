SPECIFICATION Spec
CONSTANTS
    ca = ca
    d1 = d1
    d2 = d2
    h1 = h1
    n1 = n1
    c1 = c1
    a1 = a1
    a2 = a2
    Ca = ca
    NoOne = NoOne
    Locations <- OneLocation
    Hosts = {h1}
    Names = {n1}
    Ops = {"encrypt"}
    CredIds = {c1}
    Kind <- Asymmetric
    Failing = {ca, d1, h1}
    DataFits = FALSE
    Admins = {a1}
    Grants = {{}, {"encrypt"}}
    Reloads = TRUE
    ChecksPage = FALSE
    MaxRequests = 2
    Killable = {ca, d1, h1}
    MaxKills = 2
    MaxClients = 1
    Backlog = 2
    Window = 2
CHECK_DEADLOCK FALSE
INVARIANTS
    DistributionFaithful
    HostFaithful
PROPERTY ImplementsCaches
