SPECIFICATION VoiceSpec
CONSTANTS
    Recordings = {r1}
    Old = Old
    None = None
INVARIANTS VoiceInv SavedVoiceReloads RecordingGives
