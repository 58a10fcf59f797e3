SPECIFICATION VoiceSpec
CONSTANTS
    Recordings = {r1}
    Old = Old
    None = None
INVARIANT SavedVoiceComesBack
