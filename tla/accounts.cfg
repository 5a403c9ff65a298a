\* Two handlers, one user name, two logins, statements that may be lost, and a
\* DENY that somebody else sets at any time.
CONSTANTS
    Handlers = {h1, h2}
    Users = {u}
    Logins = {l, m}
    Sids = {s1, s2, s3}
    Privs = {p1, p2}
    MayBeLost = TRUE
    DbaDenies = TRUE
    None = None
    Abandoned = Abandoned
SPECIFICATION Spec
SYMMETRY Symmetry
INVARIANTS TypeOK FailedCreateLeavesNothing
PROPERTIES AllOrNothing KnownDenialsStand
