CONSTANTS
  home = home
  a = a
  b = b
  c = c
  other = other
  player = player
  stream = stream
  about = about
  broken = broken
  site1 = site1
  site2 = site2
  foreign = foreign
  NoSite = NoSite
  Urls <- MCUrls
  SiteOf <- MCSiteOf
  EventLike <- Events
  Malformed <- Broken
  Seeds <- TwoSeeds
  Webs <- AllWebs
  MaxPages = 4
  MaxDepth = 2
  MaxCandidates = 2
  Given <- GivenUrls
  Resembling <- GoodUrls
  Limit = 4
SPECIFICATION Spec
CHECK_DEADLOCK FALSE
INVARIANTS
  TypeOK
  StaysOnSeedSites
  NearestFirst
  AllNearPagesFetched
  
  BackendFetchesOnce
 
