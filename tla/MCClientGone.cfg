\* The same request: what the event loop does when the client has gone.
CONSTANTS
    MaxChunks = 3
SPECIFICATION BridgeSpec
INVARIANTS
    LoopNeverWaitsForHandler
