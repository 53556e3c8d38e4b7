SPECIFICATION FairSpec
CONSTANTS
    Objects = {o1}
    Handlers = {h1, h2}
    Reconcilers = {r1}
    Quota = 1
    Nobody = Nobody
INVARIANT ReadyHasBytes
PROPERTIES ReservationsEnd DeletionsEnd
CHECK_DEADLOCK FALSE
