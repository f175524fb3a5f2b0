SPECIFICATION Spec
CONSTANTS
    BufferSize = 3
    Writers = {w1, w2}
    Screens <- MCScreens
    Button = 16
    RawFrames <- MCRawFrames
    Backlog = 2
    Losses = 1
    CaptureFrames = 2
    Segments = 3
    CutsBefore = {0, 1}
    CutsAfter = {2}
    FirstSequence = 0
    SequenceSpace = 1000
    None = None
SYMMETRY Symmetry
INVARIANTS AnyChunksSameMessages TransactionsWhole CaptureFaithful
CHECK_DEADLOCK FALSE
