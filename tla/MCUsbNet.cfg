CONSTANTS
  App = {"httpd", "otel"}
  PoolSize = 2
  MaxFrames = 3
  MaxResets = 1
SPECIFICATION FairSpec
INVARIANTS TypeOK OneReception PbufsAccounted SendsToFreeDriver UsedWhenUp
PROPERTY LinkEnds
