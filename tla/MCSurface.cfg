SPECIFICATION Spec
CONSTANTS
    c1 = c1
    c2 = c2
    c3 = c3
    client = client
    balancer = balancer
    operator = operator
    other = other
    stranger = stranger
    None = None
    Conn = {c1, c2, c3}
    Address = {client, balancer}
    AddressOf <- MCAddressOf
    Exempt = {balancer}
    Capacity = 2
    Share = 1
    Ceiling = 1
    Lifetime = TRUE
    Vectored = {c3}
    Certificate <- MCCertificate
    Mutual = TRUE
    Gate = {operator, other}
    AdminAllow = {operator}
    Development = TRUE
CHECK_DEADLOCK FALSE
INVARIANTS
    TypeOK
    CountsSettle
    WorkIsAccounted
PROPERTIES
    ImplementsPool
    EveryConnectionEnds
    DrainEnds
