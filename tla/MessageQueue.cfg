SPECIFICATION Spec
CONSTANTS
    s1 = s1
    s2 = s2
    r1 = r1
    r2 = r2
    r3 = r3
    Senders <- MCSenders
    Receivers <- MCReceivers
    Messages = {"red", "green"}
    NoMessage = NoMessage
    Nobody = Nobody
    MaxMsgs = 3
INVARIANTS
    TypeOK
    MutualExclusion
    NoLostWakeup
PROPERTIES
    MailboxSpec
