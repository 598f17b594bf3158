\* Torn writes, log rotation, restarts of the panel, POSTs that fail.
CONSTANTS
    Width = 5
    PostFails = TRUE
    MaxLines = 4
    MaxRotations = 1
    MaxTailerStarts = 3
CHECK_DEADLOCK FALSE
SPECIFICATION TailerSpec
INVARIANT
    PostedOnceInOrder
