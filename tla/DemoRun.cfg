\* Two demo clients.  The script ends, so the system really stops.
SPECIFICATION FairSpec
CONSTANTS
  NumClients = 2
CHECK_DEADLOCK FALSE
PROPERTY
  GatewayIsShutDown
