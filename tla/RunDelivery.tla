----------------------------- MODULE RunDelivery -----------------------------
(***************************************************************************)
(* What the durable queue promises to whoever submits a run: at-least-once *)
(* delivery.  An accepted run stays in the backlog until it is settled     *)
(* (executed to its end, or reported on the dead-letter stream); it may    *)
(* come back to the backlog later, and it is settled eventually.           *)
(***************************************************************************)
CONSTANT Runs

VARIABLES accepted, backlog, settled

vars == <<accepted, backlog, settled>>

Init == accepted = {} /\ backlog = {} /\ settled = {}

Accept(r) ==
  /\ r \notin accepted
  /\ accepted' = accepted \cup {r}
  /\ backlog' = backlog \cup {r}
  /\ UNCHANGED settled

Settle(r) ==
  /\ r \in accepted \ settled
  /\ settled' = settled \cup {r}
  /\ UNCHANGED <<accepted, backlog>>

Retire(r) ==
  /\ r \in backlog \cap settled
  /\ backlog' = backlog \ {r}
  /\ UNCHANGED <<accepted, settled>>

Return(r) ==
  /\ r \in accepted \ backlog
  /\ backlog' = backlog \cup {r}
  /\ UNCHANGED <<accepted, settled>>

Next == \E r \in Runs : Accept(r) \/ Settle(r) \/ Retire(r) \/ Return(r)

SafeSpec == Init /\ [][Next]_vars

Spec == SafeSpec /\ \A r \in Runs : WF_vars(Settle(r))
=============================================================================
