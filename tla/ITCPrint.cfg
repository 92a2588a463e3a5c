SPECIFICATION FairSpec
CONSTANTS
    Cores = {0, 1}
    BuffSize = 6
    Chars <- MCChars
    Words <- MCWords
    NlsTexts <- MCNls
    DstLens = {7}
    Eager = TRUE
    MaxWrites = 5
INVARIANTS TypeOK MessageMatchesTimes ListHoldsUnread
PROPERTIES OverrunOnlyByNls EverythingRead
CHECK_DEADLOCK FALSE
