\* Two requests of a group while others publish; a client may answer anything and leave.
SPECIFICATION FairSpec
CONSTANTS
    MaxPackets = 3
    MaxErrors = 3
    AllocFails = TRUE
    MaxPieces = 2
    MaxFrames = 6
    MaxRequests = 2
INVARIANTS TypeOK UnreadOnlyBySurplus NeverRepeated LossIsBounded CountCoversConfirmed
PROPERTIES RequestsEnd
\* A send() to a client that is gone may end the process.
CHECK_DEADLOCK FALSE
