SPECIFICATION Spec
CONSTANTS
    Objects = {o1, o2}
    Handlers = {h1}
    Reconcilers = {r1}
    Quota = 1
    Nobody = Nobody
SYMMETRY Interchangeable
INVARIANTS TypeOK UsageMatches QuotaKept
PROPERTY KeepsLedger
CHECK_DEADLOCK FALSE
