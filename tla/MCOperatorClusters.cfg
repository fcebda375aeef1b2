CONSTANT NumAssets = 4
SPECIFICATION Spec
INVARIANTS
  TypeOK
  ClustersAreOperators
  
  LabelsNameOperators
PROPERTY Terminates
