SPECIFICATION Spec
CONSTANTS
    Variants = {"turbo", "mtl"}
    NPredict = 4
    NCtx = 8
    MaxSpeech = 6
    MaxText = 7
    Overhead = 2
    TextLens = {0, 1, 3, 5, 7}
    Calls = 2
INVARIANT TooLongIsAnError
