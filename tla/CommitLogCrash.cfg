CONSTANTS
    Payloads <- MCPayloads
    RecordCount <- MCRecordCount
    PayloadBytes <- MCPayloadBytes
    HeaderBytes = 2
    SegmentBytes = 12
    IndexInterval = 7
    MaxOffset = 6
    Strict = TRUE
    Faults = {"short_write", "read_error", "power_loss", "reordering"}
SPECIFICATION Spec
INVARIANT Layout
INVARIANT ReadComplete
INVARIANT FlushedStored
PROPERTY ImplementsOffsetLog
