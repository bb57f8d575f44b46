SPECIFICATION FairSpec
CONSTANTS
    MaxItems = 6
    Block = 2
    Unordered = FALSE
INVARIANTS ProbesInBounds MovedReady NoneLeftBehind
PROPERTIES SearchReturns ImplementsReadyList
