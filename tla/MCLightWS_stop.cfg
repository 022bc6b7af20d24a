CONSTANTS
    Conns = {c1, c2}
    Queries = {q1, q2}
    MaxSubscribes = 4

SPECIFICATION Spec
PROPERTY ForwardersStopWithProxy
