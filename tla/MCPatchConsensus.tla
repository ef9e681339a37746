--------------------------- MODULE MCPatchConsensus ---------------------------
(* PatchConsensus as the program builds it: no router in the patcher's data. *)
EXTENDS PatchConsensus

Prices == [dear |-> 18, cheap |-> 1, new |-> Unlisted]
Names == DOMAIN Prices
Lists == {<<"dear", "cheap", "new">>}
RiskyDiffs == {[intent |-> "x", risk |-> r] : r \in {"low", "blocked", "high"}}
Same == {<<"x", "x">>, <<"y", "y">>}
=============================================================================
