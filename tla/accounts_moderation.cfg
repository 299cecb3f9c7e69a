SPECIFICATION Spec
CONSTANTS
    a1 = a1
    a2 = a2
    alice = alice
    bob = bob
    ann = ann
    bea = bea
    pw1 = pw1
    pw2 = pw2
    Ids = {a1, a2}
    FirstId = a1
    Names = {alice, bob}
    Emails = {ann, bea}
    Passwords = {pw1}
    Sessions = {s1, s2}
    Tokens = {t1}
    Procs = {p1, p2}
    Kinds = {"login", "profile", "ban", "unban", "browse", "logout"}
    Seed <- StaffSeed
    Faults = TRUE
    None = None
SYMMETRY Interchangeable
INVARIANTS
    AdminNeverBanned
    RolesKept
