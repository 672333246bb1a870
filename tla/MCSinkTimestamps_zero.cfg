CONSTANTS
    Wrap = 8
    Ratio = 2
    FirstTimes = {0, 13}
    AudioShifts = {0}
    VideoSteps = {1, 2}
    AudioSteps = {1}
    Delays = {0, 1}
    MaxSkew = 2
    FrameStep = 2
    AudioStep = 1
    MinVideoStep = 3
    MinAudioStep = 1
    OpenSets <- MCOpenSets
    None = None
    MaxTime = 18
    MaxFaults = 1
SPECIFICATION Spec
INVARIANT TsSharesZero
