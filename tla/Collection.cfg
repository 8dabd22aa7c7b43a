SPECIFICATION HistorySpec
CONSTANTS
    r1 = r1  r2 = r2  Free = Free
    N = 6
    Time <- Tied
    Malformed = {6}
    Runs = {r1, r2}
    PageSize = 1
    MaxPages = 8
INVARIANTS NothingMissed NewIsNotified HistoryIsSilent
PROPERTIES WatermarkAdvances LedgerKept EventuallyCollected
