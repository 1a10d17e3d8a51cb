\* The sizes of the codecs alone: what frame.rs says of blocks on air.
SPECIFICATION MCSpec
CONSTANTS
 m1 = m1
 m2 = m2
 m3 = m3
 Message <- MCMessage
 Total <- MCTotal
 Session <- MCSession
 MaxChunks = 3
 MaxSessions = 1
 TimeToLive = 2
 NackTimeout = 1
 NackRoom = 1
 MaxSends <- MCSends
 MaxAir = 3
 GroupBits = 2
 WordBits = 7
 NameLen = 3
CHECK_DEADLOCK FALSE
INVARIANT SingleTxBlocksGoWhole
