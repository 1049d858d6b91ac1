CONSTANTS
    Clients = {c1, c2, c3}
    Readings = {r1}
    MaxClients = 2

SPECIFICATION FairSpec
INVARIANTS
    TypeOK
    NoStaleView
PROPERTY OutageIsReported
