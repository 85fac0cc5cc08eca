SPECIFICATION Spec
CONSTANTS
    None = None
    c1 = c1
    c2 = c2
    Clients <- MCClients
    DeviceIDs <- MCDeviceIDs
    Trim <- MCTrim
    Blank = ""
    Attributes <- MCAttributes
    Users <- MCUsers
SYMMETRY ClientSymmetry
INVARIANTS TypeOK
PROPERTIES IsRegister
