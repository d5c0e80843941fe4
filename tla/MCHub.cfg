\* Two streams, channels of two, four events, with fairness: no symmetry.
CONSTANTS
    Streams    = {s1, s2}
    BufferSize = 2
    MaxEvents  = 4
SPECIFICATION FairSpec
INVARIANTS TypeOK NoUseOfClosedChannel EveryEventInOrder
PROPERTIES CloseEndsStreams BufferedEventsAreWritten
