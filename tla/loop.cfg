\* Two agents of two calls a minute, two disturbances.  The loops never stop.
CONSTANTS
  r1 = r1
  r2 = r2
  g1 = g1
  g2 = g2
  NoRow = NoRow
  Row <- MCRow
  Agent <- TwoAgents
  MaxCalls = 2
  MaxDrops = 2
SPECIFICATION FairSpec
INVARIANT TypeOK
INVARIANT OneHand
PROPERTY EveryRowIsProcessed
