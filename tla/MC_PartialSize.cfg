\* One crash, no I/O failure: recovery must roll back a COMMIT that had not reached the commit log.
CONSTANTS
    Workers = {w1, w2}
    TxnIds = {t1, t2}
    FileNames = {f1}
    MaxSeq = 1
    MaxCrashes = 1
    WriteFailures = FALSE
    MaxIdDraws = 1
SPECIFICATION Spec
PROPERTY RecoveryRollsBackPartialCommits
SYMMETRY Symmetry
VIEW StateView
