----------------------------- MODULE MCPipelineApi -----------------------------
(* Bounds for PipelineApi: see README.md, "Runs".                           *)
EXTENDS PipelineApi, TLC

CONSTANTS r1, r2, q1, known, fresh, dull, hostA, hostB

(* known and dull are preloaded; fresh and dull are two pages of a host      *)
(* the graph does not know, and dull never matches.                        *)
MCUrls == {known, fresh, dull}
MCHostOf == [u \in MCUrls |-> IF u = known THEN hostA ELSE hostB]
MCPreloaded == <<known, dull>>
=============================================================================
