---------------------------- MODULE MCJobQueue ----------------------------
(***************************************************************************)
(* Instances of JobQueue for TLC.                                          *)
(***************************************************************************)
EXTENDS JobQueue, TLC

WorkerSymmetry == Permutations(Workers)

(* Time passes for each of the first MessageBound messages; no fairness is  *)
(* assumed of any message beyond them.                                      *)
MessageBound == 12

MCFairSpec == FairSpec /\ \A m \in 1..MessageBound : WF_vars(BecomeIdle(m))
=============================================================================
