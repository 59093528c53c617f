SPECIFICATION FairSpec
CONSTANTS
    Bytes = {"a", "b", "c", "d", "e", "nl"}
    Streams <- SomeStreams
    NL = "nl"
    RIO_BUFSIZE = 2
    LineSizes = {1, 3, 4}
    Counts = {0, 3}
    MaxOut = 3
INVARIANTS StreamIntact CallInBounds WireInOrder
PROPERTIES ImplementsByteReader CallReturns
