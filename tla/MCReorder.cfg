CONSTANTS
    Layout <- Pictures
    SeqSpace = 32
    FirstSeq = 27
    MaxWait = 2
    MaxHold = 3
    MinPLI = 1
SPECIFICATION ExtractorSpec
INVARIANT InOrder
INVARIANT LossExact
INVARIANT NeverMixed
INVARIANT FragmentsWhole
CHECK_DEADLOCK FALSE
