SPECIFICATION VoiceFairSpec
INVARIANTS
    MicOnlyInUse
    VoiceNotLockedOut
PROPERTIES
    StopIsObeyed
    ListensAgain
    ReleasedScreenReturns
CONSTANTS
    w1 = w1
    w2 = w2
    Workers = {w1, w2}
    Cli = Cli
    BlinkPeriod = 2
