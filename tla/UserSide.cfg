\* Two requests at a time on the data of users, one component in each behaviour.
SPECIFICATION UserSideSpec
CONSTANTS
    None = None
    Null = Null
    NoProfile = NoProfile
    Procs = {p1, p2}
    Codes = {y1, y2}
    Addresses = {x1, x2, x3}
    Sessions = {y1, y2}
    Values = {y1, y2}
    EmailUsers = {u1, u2}
    MaxAttempts = 2
    Staff = {root, w1}
    Admin = root
SYMMETRY UserSideSymmetry
INVARIANTS AtMostOneDefault TablesAreConsistent AttemptsAreCounted CodesSignInOnce AnAdminRemains
PROPERTIES StaleCopiesUndoNothing OnlyRacesHurt
CHECK_DEADLOCK FALSE
