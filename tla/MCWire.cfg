SPECIFICATION Spec
CONSTANTS
  Base = 9
  MaxWalkElements = 2
  MaxDataSize = 170
  Headroom = 20
  MSizes = {164, 190}
INVARIANTS CodecInverseUnlessWrapped EndpointAgrees ResponseFitsUnlessString
CHECK_DEADLOCK FALSE
