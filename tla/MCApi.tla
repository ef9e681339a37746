------------------------------- MODULE MCApi -------------------------------
(***************************************************************************)
(* Instance of ApiProcess for TLC: an API that executes runs itself, three *)
(* of whose requests have one Idempotency-Key: two may overlap, and one    *)
(* come after both.  A fourth has none.                                    *)
(***************************************************************************)
EXTENDS ApiProcess, TLC

CONSTANTS a1, q1, q2, q3, q4, r1, r2, k, c1

RetriedRequest == [q \in Requests |-> IF q = q4 THEN NoKey ELSE k]
=============================================================================
