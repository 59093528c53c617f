SPECIFICATION FairSpec
CONSTANTS
    READ_BUF_SIZE = 8
    WRITE_BUF_SIZE = 16
    Streams <- AllStreams
    StatusLen = 1
    LengthLen = 1
    LingerLen = 1
    BlankLen = 1
    FormLen = 2
INVARIANTS SegmentationIndependence HangUpHasReason
PROPERTIES ImplementsConnection LineIsAnswered GonePeerIsClosed
