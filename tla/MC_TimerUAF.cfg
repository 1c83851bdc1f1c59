\* The timer thread removes a transaction another thread is using.
CONSTANTS
    Workers = {w1, w2}
    TxnIds = {t1, t2}
    FileNames = {f1}
    MaxSeq = 1
    MaxCrashes = 0
    WriteFailures = FALSE
    MaxIdDraws = 1
SPECIFICATION Spec
INVARIANT NoUseAfterFree
SYMMETRY Symmetry
VIEW StateView
