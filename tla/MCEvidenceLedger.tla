---------------------------- MODULE MCEvidenceLedger ----------------------------
(* Bounds for EvidenceLedger: see README.md, "Runs".                        *)
EXTENDS EvidenceLedger, TLC

CONSTANTS w1, w2, v1, c1, c2

OneWriter == {w1}
TwoWriters == {w1, w2}
OneVerifier == {v1}
TwoContents == {c1, c2}
=============================================================================
