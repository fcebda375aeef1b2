--------------------------- MODULE MCOperatorClusters ---------------------------
(* Every symmetric pivot graph over NumAssets assets: see README.md.        *)
EXTENDS OperatorClusters
=============================================================================
