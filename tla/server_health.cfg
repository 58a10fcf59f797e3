SPECIFICATION FairSpec
CONSTANTS
    Requests = {r1, r2, r3}
    Kinds = {"load", "health", "stream"}
    Modes = {"streams"}
    Workers = 1
    Capacity = 1
    MaxChunks = 2
    MaxFrames = 2
    MaxMsgs = 2
    NoOne = NoOne
PROPERTY HealthServed
