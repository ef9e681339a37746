-------------------------- MODULE MCUsageMetering --------------------------
(* Instances of UsageMetering for TLC: an API that executes runs itself, two *)
(* of whose requests repeat one Idempotency-Key; or an API and two workers.  *)
EXTENDS UsageMetering, TLC

CONSTANTS a1, a2, w1, w2, q1, q2, q3, r1, r2, r3, k, c1

OneApi == {a1}
NoWorker == {}
TwoWorkers == {w1, w2}
TwoRequests == {q1, q2}
ThreeRequests == {q1, q2, q3}
TwoRuns == {r1, r2}
OneContext == {c1}
RetriedRequest == [q \in Requests |-> IF q = q3 THEN NoKey ELSE k]
Unkeyed == [q \in Requests |-> NoKey]
=============================================================================
