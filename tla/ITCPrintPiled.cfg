SPECIFICATION Spec
CONSTANTS
    Cores = {0}
    BuffSize = 12
    Chars <- MCChars
    Words <- MCWords
    NlsTexts = {}
    DstLens = {12}
    Eager = FALSE
    MaxWrites = 5
INVARIANT ListHoldsUnread
CHECK_DEADLOCK FALSE
