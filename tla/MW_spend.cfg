SPECIFICATION Spec
CONSTANTS
  r1 = r1
  g1 = g1
  x1 = x1
  Received <- NoReceived
  Pegins <- OnePegin
  Changes <- MCChanges
  Worth <- NoWorth
  PeginParams <- MCPeginParams
  SpendParams <- SomeSpends
  Maturity = 0
  U64Max = 15
  MaxHeight = 1
  Callers <- MCCallers
  MaxFailures = 1
  MaxMishaps = 2
INVARIANTS FundsCovered SignableUntilSigned OnlyTheWindowLoses
PROPERTIES NoRespend
