\* The process ends in an abort, or with every thread in a handler.
SPECIFICATION Spec
CHECK_DEADLOCK FALSE
CONSTANTS
    Thread = {t1, t2}
    Handler = {h1, h2}
    Null = Null
INVARIANT HandlerFiresForLoser
