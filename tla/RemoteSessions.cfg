\* Two connects of one profile, with one slot or with two, and one reload of the
\* window.
SPECIFICATION FairSpec
CONSTANTS
    c1 = c1
    c2 = c2
    p1 = p1
    Calls = {c1, c2}
    ProfileOf <- MCProfileOf
    Limits = {1, 2}
    MaxReloads = 1
INVARIANTS
    Admission
    ToldOnce
PROPERTY
    Settles
CHECK_DEADLOCK FALSE
