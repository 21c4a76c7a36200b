SPECIFICATION FairSpec
CONSTANTS
  b1 = b1
  b2 = b2
  c1 = c1
  c2 = c2
  Tabs <- TwoTabs
  Browsers <- TwoBrowsers
  BrowserOf <- TabsOfTwo
  MaxTokens = 3
  MaxFaults = 1
INVARIANTS
  TypeOK
  OneSuccessor
  SignedOutStaysOut
  CascadesAreExplained
PROPERTIES
  SuspensionEndsSessions
CHECK_DEADLOCK FALSE
