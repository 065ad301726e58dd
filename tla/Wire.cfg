SPECIFICATION Spec
CONSTANTS
    Streams <- MCStreams
    Back = 3
INVARIANTS FramesSurvive ObjectsSurvive FormsAgree
CHECK_DEADLOCK FALSE
