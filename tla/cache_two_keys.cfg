SPECIFICATION Spec
CONSTANTS
    Threads = {t1, t2}
    Engines = {e1, e2}
    Keys = {k1, k2}
    Models = {m1, m2, m3}
    Addrs = {a1, a2, a3}
    MaxChunks = 2
    Serialized = TRUE
    WithVoice = FALSE
    None = None
SYMMETRY Symmetry
INVARIANT PointerAlive
