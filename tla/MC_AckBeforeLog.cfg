\* A retransmitted COMMIT arrives while the first is between m_commits.insert and the commit log.
CONSTANTS
    Workers = {w1, w2}
    TxnIds = {t1, t2}
    FileNames = {f1}
    MaxSeq = 1
    MaxCrashes = 0
    WriteFailures = FALSE
    MaxIdDraws = 1
SPECIFICATION Spec
INVARIANT AckedCommitIsLogged
SYMMETRY Symmetry
VIEW StateView
