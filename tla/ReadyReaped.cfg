SPECIFICATION Spec
CONSTANTS
    Objects = {o1}
    Handlers = {h1, h2}
    Reconcilers = {r1}
    Quota = 1
    Nobody = Nobody
PROPERTY ReconcilerSparesReady
CHECK_DEADLOCK FALSE
