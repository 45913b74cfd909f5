SPECIFICATION Spec
SYMMETRY Symmetry
CONSTANTS
    alice = alice
    bob = bob
    c1 = c1
    c2 = c2
    Users <- MCUsers
    Clients <- MCClients
    Options = {1, 2, 4}
    ChatOptions = {3}
    NoRow = NoRow
    NoCon = NoCon
    MaxConns = 3
    MaxFds = 2
    MaxIn = 2
    MaxOut = 1
INVARIANTS
    TypeOK
    SessionHasRow
    RowHasSession
    OnlineIffSocket
    ReadsInStep
    WelcomeIsTrue
    NoTextBeforeLogin
