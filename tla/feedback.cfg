SPECIFICATION SofSpec
CONSTANTS
    Rates = {44100, 48000}
    Count <- MCCount
    Nominal <- MCNominal
    Modulus = 20
    FB_WINDOW_FRAMES = 2
    FB_ARM_EVERY = 2
    Slack = 15
    Contents = {0, 48, 7, 55}
    MaxMissed = 2
    MaxChanges = 2
    Scenes = {"rates", "streams"}
INVARIANT NeverSplitsSamples
PROPERTY TracksClock
