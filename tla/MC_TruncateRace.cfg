\* Failing writes, no crash: the rollback truncate of a failed COMMIT runs outside the file mutex.
CONSTANTS
    Workers = {w1, w2}
    TxnIds = {t1, t2}
    FileNames = {f1}
    MaxSeq = 1
    MaxCrashes = 0
    WriteFailures = TRUE
    MaxIdDraws = 1
SPECIFICATION Spec
INVARIANT CommittedBlocksDurable
SYMMETRY Symmetry
VIEW StateView
