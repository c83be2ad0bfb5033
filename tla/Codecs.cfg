SPECIFICATION Spec
CONSTANTS
    Byte <- MCByte
    HexOf <- MCHexOf
    ValueOf <- MCValueOf
    Block <- MCBlock
    Cover <- MCCover
    SizeofInt = 2
    SizeofSizeT = 4
    SwfCapacity = 3
    SwfSaved = 2
    PdfRoom = 36
INVARIANTS RoundTrip CapacityHonoured
CHECK_DEADLOCK FALSE
