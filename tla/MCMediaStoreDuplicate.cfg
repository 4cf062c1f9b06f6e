\* The same guests and files; two uploads are enough.
CONSTANTS
    g1 = g1
    g2 = g2
    d1 = d1
    Guests = {g1, g2}
    Dirs = {d1}
    DirOf <- OneDirectory
    Names = {n1, n2}
    Stamps = {s1, s2}
    Contents = {c1, c2}
    RowIds = {r1, r2}
    Requests = {q1, q2}
SPECIFICATION Spec
INVARIANTS
    SameGuestOverwrites
CHECK_DEADLOCK FALSE
