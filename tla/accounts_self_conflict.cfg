SPECIFICATION Spec
CONSTANTS
    Ids = {i1, i2, i3}
    Emails = {m1, m2}
    Requests = {r1, r2}
    NoId = NoId
    NoEmail = NoEmail
PROPERTIES RefusedForOthers
