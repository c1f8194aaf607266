CONSTANTS
    MaxBuffer = 9
    MaxFaults = 0
    Streams <- MCLeaky
SPECIFICATION StreamSpec
INVARIANT ModelRestored
CHECK_DEADLOCK FALSE
