\* Two packets of lengths around the digits' limits and the buffer's.
CONSTANTS
    Base = 2
    MaxDigits = 4
    BufferSize = 10
    Lengths = {0, 1, 2, 3, 5, 6, 7, 15, 16}
    MaxPackets = 2
SPECIFICATION FramingSpec
CHECK_DEADLOCK FALSE
INVARIANTS
    ReturnsWhatWasSent
    ClosesForLength
    OwnPacketsFit
