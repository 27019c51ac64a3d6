SPECIFICATION Spec
CONSTANTS
    Values <- Addresses
    Masks <- Both
    Devices <- MCDevices
    InstanceName = "lzw_encode_hw"
INVARIANTS
    DriverInv
    IdleHonest
    ArgumentsWhole
    NoRunUnnoticed
    AutoRestartAsAsked
PROPERTIES
    NoSpuriousInterrupt
    StartsTaken
