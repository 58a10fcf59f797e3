SPECIFICATION FairSpec
CONSTANTS
    Variants = {"turbo", "mtl"}
    NPredict = 4
    NCtx = 8
    MaxSpeech = 6
    MaxText = 4
    Overhead = 2
    TextLens = {0, 1, 3, 5, 7}
    Calls = 2
    Stop = Stop
    Logits <- AllLogits
    Histories <- AllHistories
    Params <- AllParams
    Chars = {a, b}
    Words <- AllWords
    MergeTables <- AllTables
INVARIANTS
    DecodeInv CacheHoldsTokens NoStopReturned CancelIsPrompt NoStaleCancel
    TurboDrawsAsFiltered MtlDrawsAsFiltered BpeMatchesReference
PROPERTY CallsReturn
