SPECIFICATION AnsweringSpec
CONSTANTS
    c1 = c1
    c2 = c2
    Callers = {c1}
    Nobody = Nobody
    Abort = 2
    Retries = 1
    Tries = 1
CHECK_DEADLOCK FALSE
PROPERTIES
    RegistrationEnds
