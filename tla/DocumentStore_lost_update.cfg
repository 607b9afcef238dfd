SPECIFICATION Spec
CONSTANTS
    r1 = r1
    r2 = r2
    r3 = r3
    t1 = t1
    t2 = t2
    t3 = t3
    None = None
    Requests = {r1, r2}
    Texts = {t1, t2, t3}
    Contents = {t1, t2, t3}
    Canon <- CanonInjective
    Isolation = "read_committed"

PROPERTY NoLostUpdate
