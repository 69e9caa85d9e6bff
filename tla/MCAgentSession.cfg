SPECIFICATION Spec
CONSTANTS
    Sessions = {s1, s2}
    Calls = {c}
    Kicks = {s1}
    NoSession = NoSession
INVARIANTS
    TypeOK
    SessionsSound
PROPERTIES
    SessionsEnd
CHECK_DEADLOCK FALSE
