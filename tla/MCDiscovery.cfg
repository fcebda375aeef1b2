CONSTANTS
  n1 = n1
  n2 = n2
  n3 = n3
  n4 = n4
  k1 = k1
  k2 = k2
  ip1 = ip1
  ip2 = ip2
  ipF = ipF
  Names <- MCNames
  Sources <- AllSources
  Holding <- MCHolding
  CrtAnswers <- MCCrtAnswers
  Crawls <- MCCrawls
  CertAnswers <- MCCertAnswers
  Ips <- MCIps
  FrontIps <- MCFrontIps
  Tenants <- MCTenants
  Retries = 2
  CrtLimit = 2
  IpLimit = 3
  SharedHost = 2
SPECIFICATION Spec
CHECK_DEADLOCK FALSE
INVARIANTS
  TypeOK
  
PROPERTIES
  OneBadSourceSinksNothing
