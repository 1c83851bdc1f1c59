\* Commits to one file, so every log has one writer at a time; the process may stop anywhere.
CONSTANTS
    TxnIds = {1, 2}
    FileNames = {"a"}
    MaxSize = 1
SPECIFICATION Spec
INVARIANT RecoveryMatchesLogged
PROPERTY LogsAreAtomic
CHECK_DEADLOCK FALSE
