CONSTANTS
  client1 = client1
  client2 = client2
  Clients = {client1, client2}
  MaxTrips = 5
SPECIFICATION PingPongSpec
CHECK_DEADLOCK FALSE
INVARIANT
  OneMessage
PROPERTY
  GoesOn
