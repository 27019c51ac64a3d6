SPECIFICATION Spec
CHECK_DEADLOCK FALSE
CONSTANTS
    Message <- MCMessage
    KnownDigests <- MCKnownDigests
    Unset = 255
INVARIANTS
    HashesPadding
    HashesAgree
    HashesKnown
