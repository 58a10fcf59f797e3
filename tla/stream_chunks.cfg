SPECIFICATION Spec
CONSTANTS
    ChunkSizes = {0, 1, 2, 6, 8, 20}
    FirstSizes = {0, 3, 4, 7}
    Prompts <- Voices
    MaxTokens = 16
    MaxSpecials = 1
    Calls = 2
INVARIANTS
    StreamInv StreamEqualsBatch ResultIsHeard LastChunkOnce OnlyFirstRefused
    RoomyChunksWork NoTinyTail CancelIsPrompt NoStaleCancel
PROPERTY KeepsPromise
