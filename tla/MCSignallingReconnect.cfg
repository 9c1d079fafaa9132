SPECIFICATION Spec
CONSTANTS
    alice = alice
    bob = bob
    a1 = a1
    a2 = a2
    b1 = b1
    Devices = {alice, bob}
    Connections = {a1, a2, b1}
    device <- DeviceOf
    Capacity = 2
    MaxFrames <- FrameLimit
    NoConnection = NoConnection
PROPERTY ServedStaysRegistered
CHECK_DEADLOCK FALSE
