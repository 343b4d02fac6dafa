\* No request comes: the loop gets stuck on a peer message alone.
CONSTANTS
    Requests = {}
    Writing = {}
    Workers = 4
SPECIFICATION Spec
PROPERTY ShutdownCompletes
CHECK_DEADLOCK FALSE
