SPECIFICATION Spec
CONSTANTS
    Request = {q1, q2, q3}
    DefaultLimit = 0
    WindowHours = 1
    Limits = {2}
    None = None
    Key = {k1}
    Amounts = {1, 2}
    Ttl = 1
    MaxTime = 1
    MaxAtOnce = 2
    MaxCancelled = 1
SYMMETRY Symmetric
CHECK_DEADLOCK FALSE
INVARIANT ExecutedOnce
INVARIANT WithinLimit
