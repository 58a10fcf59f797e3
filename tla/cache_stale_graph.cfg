SPECIFICATION Spec
CONSTANTS
    Threads = {t1, t2}
    Engines = {e1}
    Keys = {k1}
    Models = {m1, m2, m3}
    Addrs = {a1, a2}
    MaxChunks = 1
    Serialized = TRUE
    WithVoice = TRUE
    None = None
SYMMETRY Symmetry
INVARIANT ScaffoldFresh
