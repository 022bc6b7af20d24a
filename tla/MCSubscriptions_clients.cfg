CONSTANTS
    Conns = {c1, c2, c3}
    Queries = {q1, q2, q3}
    MaxSubscriptionClients = 2
    MaxSubscriptionsPerClient = 2
    NoQuery = NoQuery
    MaxSubscribes = 4
SYMMETRY Symmetry

SPECIFICATION Spec

INVARIANT ClientLimit
