CONSTANTS
    u1 = u1
    p1 = p1
    p2 = p2
    t1 = t1
    t2 = t2
    Name = {u1}
    Password = {p1, p2}
    DefaultPassword = p1
    Token = {t1, t2}
    Nobody = nobody
    Limit = {1, 2}
    MaxUnstored = 1
SYMMETRY Symmetric
SPECIFICATION Spec
INVARIANTS SuperuserSurvives GuessesBounded
PROPERTIES OnlyManagersReopen
