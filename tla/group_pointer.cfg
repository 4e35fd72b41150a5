\* One group, any calls in any order with any arguments, while others publish.
SPECIFICATION Spec
CONSTANTS
    Events <- TwoEvents
    Sizes <- SomeSizes
    Offsets <- SomeOffsets
    Counts = {0, 1, 2}
    MaxPacketSize = 2
    Word = 128
    MaxHeld = 2
    MaxFileSize = 12
INVARIANTS TypeOK PointerWithinTopic
PROPERTIES AcksGoBackOnlyByWrapping AckRetryIsHarmless WholeFramesStayAligned FailedBatchIsAllOrNothing
