SPECIFICATION Spec
CONSTANTS
    Radix = 4
    kMaxFrameBytes = 120
    ReadSizes = {1}
    WriteSizes = {13}
    Scripts <- MCScripts
INVARIANT RequestsIntact
INVARIANT AnswersMatch
INVARIANT CallsAnswered
INVARIANT FramesCanonical
CHECK_DEADLOCK FALSE
