SPECIFICATION Spec
CONSTANTS
  MaxXFFEntries = 3
  Config <- MCConfig
  Env = {"", "secret"}
  HeaderName <- MCHeaderName
  Request <- MCRequest
  MaxWait = 1
INVARIANTS
  TypeOK
  ForgeryIgnored
  KeyIsPublishedSubnet
  OneNetworkOneBucket
  NeverTheEmptyKey
  PositionIndependent
  PrependingChangesNothing
  AcceptanceIgnoresEnvironment
  DeletingIsLoud
PROPERTY
  NeverDowngrades
