SPECIFICATION FairSpec
CONSTANTS
    p1 = p1
    p2 = p2
    alice = alice
    bob = bob
    aes = aes
    rsa = rsa
    lost = lost
    NoOne = NoOne
    nobody = nobody
    Nobody = nobody
    Programs = {p1, p2}
    User <- TwoUsers
    Creds = {aes, rsa, lost}
    Kind <- Kinds
    Expires <- Dates
    Requests <- Some
    Granted <- SomeGranted
    Unsure <- Elsewhere
    Backlog = 0
    MaxKills = 1
    MaxDay = 1
CHECK_DEADLOCK FALSE
INVARIANTS
    TypeOK
    OwnUserOrNobody
    ResultJustified
    EmptyForAReason
    HangsForAReason
    
PROPERTIES
    CallsEnd
