CONSTANTS
  w1 = w1
  w2 = w2
  v1 = v1
  c1 = c1
  c2 = c2
  Writers <- TwoWriters
  Verifiers <- OneVerifier
  Contents <- TwoContents
  MaxRecords = 2
SPECIFICATION Spec
INVARIANT NoFalseAlarm
