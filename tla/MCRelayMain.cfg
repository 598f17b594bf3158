\* The relay as it is.
CONSTANT InitiallyRunning = FALSE
CHECK_DEADLOCK FALSE
SPECIFICATION Spec
PROPERTY ServesUntilShutdown
