CONSTANTS
    Conns = {c1, c2}
    Queries = {q1, q2, q3}
    MaxSubscriptionClients = 2
    MaxSubscriptionsPerClient = 2
    NoQuery = NoQuery
    MaxSubscribes = 3

SPECIFICATION Spec
INVARIANT PerClientLimit
PROPERTY ForwardersReturn
