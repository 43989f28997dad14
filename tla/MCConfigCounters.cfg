\* Three loads, with the host storing any of the documents in between: the
\* counter slots always hold the configuration just loaded.
CONSTANTS
  d1 = d1
  d2 = d2
  Names = {1, 2, 3, 4, 5}
  SpeIds = {7}
  Drivers = {d1, d2}
  NoDriver = NoDriver
  NoFile = NoFile
  Claims <- MCClaims
  Counts = {0, 1}
  MaxPerformanceCounters = 2
  Xmls <- MCXmls
  DefaultXml <- MCDefaultXml
  RemoveMayFail = TRUE
  MaxLoads = 3

SPECIFICATION Spec

INVARIANT TypeOK
INVARIANT CountersFollowConfiguration
