CONSTANTS
    watch = watch
    callback = callback
    ra = ra
    rb = rb
    ro = ro
    JournalOf <- Subscribes
    Publishers = {watch}
    Readers = {ra, rb}
    Emits <- NoteEmits
    MaxRetained = 2
    MaxSeq = 3
SPECIFICATION FairSpec
INVARIANTS
    SingleWriterLossless
    LaggedMeansLost
PROPERTIES
    ImplementsReliableStream
    EventuallyDelivered
    WaitersLearnOfClose
CHECK_DEADLOCK FALSE
