SPECIFICATION MemSpec
CONSTANTS
    Engines = {e1, e2}
    Variants = {"turbo", "mtl"}
    Backends = {"cpu", "gpu"}
    None = None
INVARIANTS MemInv NoDangling BufferOverBackend OnlyFailedLoadsLeak NoStackAtExit CallMemory
