SPECIFICATION Spec
CONSTANTS
  r1 = r1
  g1 = g1
  x1 = x1
  Received <- OneReceived
  Pegins <- NoPegin
  Changes <- MCChanges
  Worth <- OneWorth
  PeginParams <- MCPeginParams
  SpendParams <- SmallSpend
  Maturity = 1
  U64Max = 15
  MaxHeight = 3
  Callers <- CoinsFirst
  MaxFailures = 0
  MaxMishaps = 1
INVARIANT BalanceIsReal
