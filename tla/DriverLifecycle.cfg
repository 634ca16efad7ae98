SPECIFICATION FairSpec
CONSTANTS
  outbound = outbound
  inbound = inbound
  outbound_IP = outbound_IP
  inbound_IP = inbound_IP
  ih_out = ih_out
  ih_in = ih_in
  p1 = p1
  p2 = p2
  Callouts <- MCCallouts
  CleanupOrder <- MCCleanupOrder
  Handles = {ih_out, ih_in}
  Calls = {p1, p2}
  CalloutOf <- MCCalloutOf
  MaxWait = 2
INVARIANTS
  TypeOK
  NothingLeft
  IdsTrue
  FiltersBacked
PROPERTIES
  HandlesStable
  RoutinesReturn
