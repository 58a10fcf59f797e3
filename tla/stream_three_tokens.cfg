SPECIFICATION Spec
CONSTANTS
    ChunkSizes = {4}
    FirstSizes = {3}
    Prompts <- EvenVoice
    MaxTokens = 8
    MaxSpecials = 0
    Calls = 1
INVARIANT FailureThrows
