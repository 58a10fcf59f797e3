SPECIFICATION FairSpec
CONSTANTS
    Requests = {r1, r2, r3}
    Kinds = {"load", "unload", "health", "tts", "stream", "ws"}
    Modes = {"streams", "batch"}
    Workers = 3
    Capacity = 1
    MaxChunks = 2
    MaxFrames = 2
    MaxMsgs = 2
    NoOne = NoOne
INVARIANTS ServerInv SynthesisKeepsEngine StreamInOrder CleanEndIsComplete
PROPERTY AllServed
