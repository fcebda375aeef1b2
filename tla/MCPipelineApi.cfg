CONSTANTS
  r1 = r1
  r2 = r2
  q1 = q1
  known = known
  fresh = fresh
  dull = dull
  hostA = hostA
  hostB = hostB
  Runners = {r1, r2}
  Readers = {q1}
  Urls <- MCUrls
  Hosts = {hostA, hostB}
  HostOf <- MCHostOf
  Confirmed = {known, fresh}
  Preloaded <- MCPreloaded
  Seeded = {hostA}
  MaxObservations = 3
  MaxRuns = 2
SPECIFICATION Spec
INVARIANTS
  TypeOK
  
  RunCoversSubmitted
PROPERTIES
  WithdrawsOnlyNewer
  RunsAnswered
