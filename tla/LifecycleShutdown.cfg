SPECIFICATION Spec
CONSTANT MaxInFlight = 1
PROPERTY GracefulShutdown
