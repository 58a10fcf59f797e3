SPECIFICATION FairSpec
CONSTANTS
    Threads = {t1, t2}
    Engines = {e1, e2}
    Keys = {k1}
    Models = {m1, m2}
    Addrs = {a1, a2}
    MaxChunks = 2
    Serialized = TRUE
    WithVoice = TRUE
    None = None
INVARIANTS TypeOK PointerAlive PreloadJoined NoOrphan NoneLeftAtExit PointerInv
PROPERTY CallsReturn
