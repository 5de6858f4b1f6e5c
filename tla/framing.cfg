SPECIFICATION FairSpec
CONSTANTS
    Base = 3
    MaxLength = 5
    Msgs <- KeyTexts
    MaxSent = 3
    Keys <- SomeKeys
    Strays = {0, 255}
CHECK_DEADLOCK FALSE
INVARIANTS
    TypeOK
    InOrder
    KeysArrive
PROPERTIES
    ImplementsChannel
    Delivered
