\* Two transactions committing on different files hold different file mutexes, so their commit-log writes interleave.
CONSTANTS
    TxnIds = {1, 2}
    FileNames = {"a", "b"}
    MaxSize = 0
SPECIFICATION Spec
PROPERTY LogsAreAtomic
CHECK_DEADLOCK FALSE
