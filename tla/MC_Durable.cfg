\* One crash at any point of serving, then a recovery that runs to its end; no I/O failure: appends to one file never overlap.
CONSTANTS
    Workers = {w1, w2}
    TxnIds = {t1, t2}
    FileNames = {f1}
    MaxSeq = 1
    MaxCrashes = 1
    WriteFailures = FALSE
    MaxIdDraws = 1
SPECIFICATION Spec
INVARIANT TypeOK
INVARIANT AppendsSerialized
SYMMETRY Symmetry
VIEW StateView
