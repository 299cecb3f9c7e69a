SPECIFICATION Spec
CONSTANTS
    a1 = a1
    a2 = a2
    alice = alice
    bob = bob
    ann = ann
    bea = bea
    pw1 = pw1
    pw2 = pw2
    Ids = {a1, a2}
    FirstId = a1
    Names = {alice, bob}
    Emails = {ann, bea}
    Passwords = {pw1, pw2}
    Sessions = {s1}
    Tokens = {t1, t2}
    Procs = {p1, p2}
    Kinds = {"register", "verify", "forgot", "reset", "password", "profile"}
    Seed <- SoleSeed
    Faults = FALSE
    None = None
SYMMETRY Interchangeable
INVARIANTS
    InFlightOK
    LinksFromDistinctRequests
    PasswordsAreChosen
PROPERTY UsedLinksAreDead
