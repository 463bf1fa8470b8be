CONSTANTS
    Layout <- Pictures
    SeqSpace = 32
    FirstSeq = 27
    MaxWait = 2
    MaxHold = 7
    MinPLI = 1
SPECIFICATION ExtractorSpec
INVARIANT GivenUpLate
CHECK_DEADLOCK FALSE
