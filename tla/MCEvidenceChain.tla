-------------------------- MODULE MCEvidenceChain --------------------------
(* Two workers that share the evidence directory, for TLC.                 *)
EXTENDS EvidenceChain, TLC

CONSTANTS p1, p2, a, b, c, f1, f2, f3

TwoExporters == {p1, p2}
ThreeRuns == {a, b, c}
Files == {f1, f2, f3}
\* Runs and inodes are interchangeable, and so are the exporters.
Interchangeable == Permutations(ThreeRuns) \cup Permutations(Files) \cup Permutations(TwoExporters)
=============================================================================
