CONSTANTS
  h1 = h1
  h2 = h2
  p1 = p1
  cert1 = cert1
  asO = asO
  asV = asV
  asC = asC
  ipO = ipO
  ipV = ipV
  ipC = ipC
  netO = netO
  netV = netV
  netC = netC
  NoAsn = NoAsn
  NoLabel = NoLabel
  NoCert = NoCert
  Names <- SomeNames
  Embeds <- Player
  Ips <- MCIps
  AsnOf <- MCAsnOf
  ClassOf <- MCClassOf
  Slash24 <- MCSlash24
  Answers <- MixedAnswers
  Seed <- DemoSeed
  MaxDets = 2
  MaxEmbeds = 1
SPECIFICATION Spec
CHECK_DEADLOCK FALSE
INVARIANTS
  TypeOK
  OnlySingleTenantBlocked
  SharedFrontsNeverMerge
  EveryHostListed
  
  EarlyWarning
PROPERTIES
  OperatorsOnlyMerge
  RunReports
