SPECIFICATION Spec
CONSTANTS
  r1 = r1
  g1 = g1
  x1 = x1
  Received <- OneReceived
  Pegins <- NoPegin
  Changes <- MCChanges
  Worth <- OneWorth
  PeginParams <- MCPeginParams
  SpendParams <- SmallSpend
  Maturity = 1
  U64Max = 15
  MaxHeight = 1
  Callers <- CoinsFirst
  MaxFailures = 1
  MaxMishaps = 0
INVARIANT ResumeMissesNothingOnRetry
