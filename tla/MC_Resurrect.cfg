\* One crash, no I/O failure: a committed transaction must not be committed a second time after recovery.
CONSTANTS
    Workers = {w1, w2}
    TxnIds = {t1, t2}
    FileNames = {f1}
    MaxSeq = 1
    MaxCrashes = 1
    WriteFailures = FALSE
    MaxIdDraws = 1
SPECIFICATION Spec
INVARIANT CommitOnce
SYMMETRY Symmetry
VIEW StateView
