\* One request, buffered or streamed, with a client that may go away.
CONSTANTS
    MaxChunks = 3
SPECIFICATION BridgeSpec
INVARIANTS
    BridgeTypeOK
    NoLostWakeup
    NoIdleWakeup
    InOrderAndComplete
    RegularJoinDoesNotBlock
    BufferedReplyIsRight
PROPERTIES
    RequestEnds
