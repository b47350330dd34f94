SPECIFICATION StompSpec
CONSTANTS
    MAX_PUT_BYTES = 5
    MAX_KEYS = 1
    MAX_FRAME_BYTES = 12
    CAPACITY = 12
    Stream <- Streams
INVARIANTS
    FramesAreTheStream
    
    ReceiptSurvives
    ForwardedAsAsked
    ForwardFitsDatagram
