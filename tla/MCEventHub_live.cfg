CONSTANTS
    watch = watch
    callback = callback
    ra = ra
    rb = rb
    ro = ro
    JournalOf <- Subscribes
    Publishers = {watch, callback}
    Readers = {ra}
    Emits <- LiveEmits
    MaxRetained = 1
    MaxSeq = 2
SPECIFICATION Spec
INVARIANTS
    TradeOnce
    LastOrderIsCurrent
    OnlyOvertakenSkipped
CHECK_DEADLOCK FALSE
