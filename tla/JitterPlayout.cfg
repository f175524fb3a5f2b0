SPECIFICATION Spec
CONSTANTS
    None = None
    W = 14
    MaxGap = 2
    Prebuffer = 2
    First = 10
    Last = 32
    Reorder = 4
    Drift = 3
INVARIANT OnTimeline
PROPERTY KeepsTimeline
