CONSTANTS
    GroupCpus <- CpusOf
    max_attempts = 2
    cpuset_retry_count = 2
    Budget = 3
SPECIFICATION Spec
INVARIANTS AtMostOneStray
PROPERTIES ImplementsTakeover TakesOver
CHECK_DEADLOCK FALSE
