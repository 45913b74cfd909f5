SPECIFICATION Spec
CONSTANTS
    l1 = l1
    l2 = l2
    Lights <- MCLights
    Callers = {"vehicle"}
    NoLight = NoLight
    MaxMsgs = 4
PROPERTIES
    ReturnsOnGreen
