CONSTANTS
  u1 = u1
  u2 = u2
  u3 = u3
  e1 = e1
  ref1 = ref1
  ref2 = ref2
  NoAsset = NoAsset
  NoProbe = NoProbe
  NoScore = NoScore
  Urls <- MCUrls
  Embeds = {e1}
  References <- MCReferences
  Known <- MCKnown
  Pages <- MCPages
  Runs <- MCRuns
SPECIFICATION Spec
CHECK_DEADLOCK FALSE
INVARIANTS
  TypeOK
  OneVerdictPerUrl
  
  LeaksAreBounded
  NothingLeftRunning
  VerdictIsExact
 
