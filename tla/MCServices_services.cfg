SPECIFICATION ServicesSpec
CONSTANTS
  Imports = {"i1", "i2"}
  MaxRev = 3
  MaxAsks = 1
  MaxStops = 1
CHECK_DEADLOCK FALSE
INVARIANTS FoundIsCurrent NothingIsForgotten GatewayIsExact
PROPERTIES SearchOnlyImproves IndexCatchesUp WhatWaitsIsServed
