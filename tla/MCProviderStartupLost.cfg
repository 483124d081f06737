\* A login while the cookies of the old session are persisted.
CONSTANTS
    Callers = {c1}
    Savers = {c1}
    Logins = {l1}
    Nobody = Nobody
SPECIFICATION Spec
CHECK_DEADLOCK FALSE
PROPERTIES
    LoginIsKept
