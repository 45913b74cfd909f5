SPECIFICATION Spec
CONSTANTS
    alice = alice
    bob = bob
    c1 = c1
    c2 = c2
    Users <- OneUser
    Clients <- MCClients
    Options = {1, 2}
    ChatOptions = {2, 3}
    NoRow = NoRow
    NoCon = NoCon
    MaxConns = 2
    MaxFds = 2
    MaxIn = 2
    MaxOut = 2
PROPERTY ExitEnds
