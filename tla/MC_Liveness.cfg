\* Every started request completes, under fair scheduling of the threads.
CONSTANTS
    Workers = {w1, w2}
    TxnIds = {t1, t2}
    FileNames = {f1}
    MaxSeq = 1
    MaxCrashes = 0
    WriteFailures = TRUE
    MaxIdDraws = 1
SPECIFICATION FairSpec
PROPERTY RequestsComplete
VIEW StateView
