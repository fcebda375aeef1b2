CONSTANTS
  h1 = h1
  h2 = h2
  p1 = p1
  cert1 = cert1
  asO = asO
  asV = asV
  asC = asC
  ipO = ipO
  ipV = ipV
  ipC = ipC
  netO = netO
  netV = netV
  netC = netC
  NoAsn = NoAsn
  NoLabel = NoLabel
  NoCert = NoCert
  Names <- PlainTwo
  Embeds <- NoNames
  Ips <- MCIps
  AsnOf <- MCAsnOf
  ClassOf <- MCClassOf
  Slash24 <- MCSlash24
  Answers <- CertlessAnswers
  Seed <- DemoSeed
  MaxDets = 2
  MaxEmbeds = 0
SPECIFICATION Spec
CHECK_DEADLOCK FALSE
INVARIANT BlockedIpServesOneOperator
