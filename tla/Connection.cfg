SPECIFICATION FairSpec
CONSTANTS
    Clients = {c1, c2}
    NPorts = 3
    Retries = 1
    Listener = Listener
    Nowhere = Nowhere
    None = None
INVARIANTS PeerFixed PortAgreed
PROPERTIES TokenArrives AcceptEnds ServerClosesToo
CHECK_DEADLOCK FALSE
