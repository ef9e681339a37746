----------------------------- MODULE MCServices -----------------------------
(***************************************************************************)
(* Instance of ControlPlane for TLC: two of everything that can collide.   *)
(***************************************************************************)
EXTENDS ControlPlane, TLC

CONSTANTS a1, w1, w2, q1, q2, r1, r2, c1, p1, p2, u1, u2, t1, t2

\* One API, two workers, two requests without a key.
TwoRequests == {q1, q2}
Unkeyed == [q \in Requests |-> NoKey]

\* Each user has one token.
OwnerOf == t1 :> u1 @@ t2 :> u2

\* A small plan and a large one; an entry below the envelope and one above it.
SmallPlans == [solo |-> 1, team |-> 2]
BelowAndAbove == {[attempt |-> 1, tokens |-> 2, seconds |-> 1],
                  [attempt |-> 4, tokens |-> 3, seconds |-> 0]}

\* Three runs, two of them for one issue.
TwoIssues == [a |-> "x", b |-> "x", c |-> "y"]

\* The processes of Identity are interchangeable.
Symmetric == Permutations({p1, p2})
=============================================================================
