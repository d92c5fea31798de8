\* The process ends in an abort, or with every thread in a handler.
SPECIFICATION Spec
CHECK_DEADLOCK FALSE
CONSTANTS
    Thread = {t1, t2, t3}
    Handler = {h1, h2}
    Null = Null
INVARIANTS
    TypeOK
    OneRegistration
PROPERTIES
    HandlerNeverReplaced
    HandlerFires
