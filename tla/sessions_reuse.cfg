SPECIFICATION Spec
CONSTANTS
    Tokens = {t1, t2, t3, t4}
    Users = {u1, u2}
    Requests = {r1, r2}
    NoToken = NoToken
    NoUser = NoUser
INVARIANTS UsedOnce
CHECK_DEADLOCK FALSE
