---------------------------- MODULE MemoryTiers ----------------------------
(***************************************************************************)
(* TieredMemoryStore: a table of memory items that several processes       *)
(* write.  add looks whether the row is there and then writes it;          *)
(* invalidate_changed reads items and then deletes them by their id; each  *)
(* call is a transaction of its own.                                       *)
(*                                                                         *)
(* Tiers are of three kinds: append-only (episodic, verified evidence),    *)
(* those invalidate_changed looks at (conventions, procedures), and the    *)
(* others.  Reading only moves last_used_at, which nothing here tells.     *)
(***************************************************************************)
EXTENDS Integers, FiniteSets

CONSTANTS
    Clients,
    Ids,        \* identifiers that callers use
    FreshIds,   \* those that uuid4 gives
    MaxAdds     \* bound on adds

VARIABLES
    items,   \* memory_items: of each id its row
    clients, \* of each process: what it is about to write or delete
    adds     \* adds begun, which also tell contents apart

memoryVars == <<items, clients, adds>>

Kinds == {"append", "checked", "plain"}

\* invalid: what the item's rule says of the files that change (is_invalid).
\* since: the adds begun when the row was written.
Item(kind, content, invalid) == [kind |-> kind, content |-> content, invalid |-> invalid, since |-> 0]
NoItem == Item("none", 0, FALSE)
Idle == [stage |-> "idle", id |-> "none", item |-> NoItem, ids |-> {}]

Init ==
    /\ items = [i \in Ids \cup FreshIds |-> NoItem]
    /\ clients = [c \in Clients |-> Idle]
    /\ adds = 0

Unused == {i \in FreshIds : items[i] = NoItem /\ \A c \in Clients : clients[c].id # i}

----------------------------------------------------------------------------
\* Mutant of Target: an item keeps the id it came with.
TargetOwn(id, kind) == {id}

\* The id add writes under: a fresh one when an append-only item finds its
\* own taken (_is_append_only_tier, _exists).
Target(id, kind) == IF kind = "append" /\ items[id] # NoItem THEN Unused ELSE {id}

Add(c, id, kind, invalid) ==
    /\ clients[c] = Idle /\ adds < MaxAdds /\ adds' = adds + 1
    /\ \E target \in Target(id, kind) :
          clients' = [clients EXCEPT ![c] = [Idle EXCEPT !.stage = "add", !.id = target,
                                                         !.item = Item(kind, adds + 1, invalid)]]
    /\ UNCHANGED items

\* INSERT OR REPLACE, whatever the row is by now.
Insert(c) ==
    /\ clients[c].stage = "add"
    /\ items' = [items EXCEPT ![clients[c].id] = [clients[c].item EXCEPT !.since = adds]]
    /\ clients' = [clients EXCEPT ![c] = Idle]
    /\ UNCHANGED adds

\* invalidate_changed: the two tiers are read, the rules applied ...
Collect(c) ==
    LET ids == {i \in DOMAIN items : items[i].kind = "checked" /\ items[i].invalid} IN
    /\ clients[c] = Idle /\ ids # {}
    /\ clients' = [clients EXCEPT ![c] = [Idle EXCEPT !.stage = "delete", !.ids = ids]]
    /\ UNCHANGED <<items, adds>>

\* ... and the rows with those ids are deleted, whatever they hold by now.
Delete(c) ==
    /\ clients[c].stage = "delete"
    /\ items' = [i \in DOMAIN items |-> IF i \in clients[c].ids THEN NoItem ELSE items[i]]
    /\ clients' = [clients EXCEPT ![c] = Idle]
    /\ UNCHANGED adds

ClearTier(kind) ==
    /\ \E i \in DOMAIN items : items[i].kind = kind
    /\ items' = [i \in DOMAIN items |-> IF items[i].kind = kind THEN NoItem ELSE items[i]]
    /\ UNCHANGED <<clients, adds>>

Next ==
    \/ \E c \in Clients, id \in Ids, kind \in Kinds, invalid \in BOOLEAN :
          (kind = "checked" \/ ~invalid) /\ Add(c, id, kind, invalid)
    \/ \E c \in Clients : Insert(c) \/ Collect(c) \/ Delete(c)
    \/ \E kind \in Kinds : ClearTier(kind)

Spec == Init /\ [][Next]_memoryVars

----------------------------------------------------------------------------
TypeOK ==
    /\ items \in [Ids \cup FreshIds ->
                    [kind : Kinds \cup {"none"}, content : 0 .. MaxAdds, invalid : BOOLEAN, since : 0 .. MaxAdds]]
    /\ \A c \in Clients : clients[c].stage \in {"idle", "add", "delete"}

\* An append-only row that nobody cleared is replaced only by a row of another
\* tier, or by an add that looked for the id before the row was written; and
\* deleted only by an invalidation that read the id when another row had it
\* (add, invalidate_changed).
AppendOnlyKept ==
    [][\A i \in DOMAIN items :
          items[i].kind = "append" /\ items'[i] # items[i] =>
             \/ \A j \in DOMAIN items : items'[j].kind # "append"
             \/ items'[i] = NoItem /\ \E c \in Clients : i \in clients[c].ids
             \/ items'[i].kind \in {"checked", "plain"}
             \/ items'[i].kind = "append" /\ items'[i].content <= items[i].since]_memoryVars
=============================================================================
