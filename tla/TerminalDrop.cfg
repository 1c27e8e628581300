SPECIFICATION Spec
CONSTANTS
    Tabs = {t1}
    MaxShells = 1
    Buffer = 1
    MaxOutput = 2
    MaxInput = 0
    MaxFaults = 1
PROPERTY DroppedStreamIsReported
CHECK_DEADLOCK FALSE
