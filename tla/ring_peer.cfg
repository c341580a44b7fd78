\* A peer that acknowledges what is in flight; clean slots.
SPECIFICATION RingSpec
CONSTANTS
    SegmentCount = 3
    SeqSpace = 8
    MaxLen = 2
    StaleAcks = FALSE
    DirtyReuse = FALSE
INVARIANTS RingTypeOK RingIsContiguous
PROPERTIES ImplementsQueue
