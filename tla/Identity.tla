------------------------------ MODULE Identity ------------------------------
(***************************************************************************)
(* Users, groups, memberships and API tokens.  Every process, the API's   *)
(* and those of the token commands of the command line, keeps the SCIM     *)
(* state (users, groups, deprovision tasks) and, with the JSONL            *)
(* backend, the tokens in memory; it loads the files when it starts and    *)
(* rewrites them whole after a change.  With Postgres the tokens are rows. *)
(* Memberships are in memory only.  SCIM handlers run in threads: the      *)
(* steps of a deprovisioning interleave with the other calls.              *)
(*                                                                         *)
(* A user stands for its SCIM record and its harness user id.  Names, mail *)
(* addresses, labels, the audit log and org ids are left out.              *)
(***************************************************************************)
EXTENDS Integers, FiniteSets

CONSTANTS
    Procs,      \* API processes that may be deployed
    Users, Groups, Tokens,
    Owner,      \* user a token is issued to
    NoUser,     \* not one of Users
    MaxCalls,   \* bound on the calls that write
    MaxFaults   \* bound on writes of the token file that fail

VARIABLES
    procs,      \* the deployed processes
    backend,    \* "table" (Postgres) or "file" (JSONL)
    admin,      \* _admin_enabled()
    stored,     \* rows of api_tokens, or lines of api_tokens.jsonl
    cache,      \* of each process: ApiTokenStore._records
    scim,       \* of each process: _users, _groups, _deprovisions
    disk,       \* users.jsonl, groups.jsonl, deprovisions.jsonl
    members,    \* of each process: EntitlementService._memberships
    op,         \* of each process: the deprovisioning under way
    revoked,    \* tokens whose revocation was written
    deleted,    \* of each process: members of groups that were deleted
    calls, faults

tokenVars == <<stored, cache, revoked, faults>>
scimVars == <<scim, disk>>
setup == <<procs, backend, admin>>
vars == <<setup, tokenVars, scimVars, members, op, deleted, calls>>

TokenStates == {"none", "active", "revoked"}
NoOp == [pc |-> "idle", user |-> NoUser, before |-> {}]
NoGroup == {NoUser}
Empty == [users |-> [u \in Users |-> "none"], groups |-> [g \in Groups |-> NoGroup], tasks |-> {}]

Init ==
    /\ procs \in (SUBSET Procs) \ {{}} /\ backend \in {"table", "file"} /\ admin \in BOOLEAN
    /\ stored = [t \in Tokens |-> "none"] /\ cache = [p \in Procs |-> stored]
    /\ disk = Empty /\ scim = [p \in Procs |-> Empty]
    /\ members = [p \in Procs |-> {}] /\ op = [p \in Procs |-> NoOp]
    /\ revoked = {} /\ deleted = [p \in Procs |-> {}]
    /\ calls = 0 /\ faults = 0

Call == calls < MaxCalls /\ calls' = calls + 1

----------------------------------------------------------------------------
(* ApiTokenStore.                                                          *)
View(p) == IF backend = "table" THEN stored ELSE cache[p]

\* A row is updated, or the record changes in memory and _persist rewrites
\* the file from it; a write that fails is only logged.
Write(p, new, gone) ==
    \/ /\ stored' = new /\ revoked' = revoked \cup gone
       /\ cache' = IF backend = "file" THEN [cache EXCEPT ![p] = new] ELSE cache
       /\ UNCHANGED faults
    \/ /\ backend = "file" /\ faults < MaxFaults /\ faults' = faults + 1
       /\ cache' = [cache EXCEPT ![p] = new] /\ revoked' = revoked \ gone /\ UNCHANGED stored

Issue(p, t) ==
    /\ Call /\ admin /\ stored[t] = "none" /\ \A q \in Procs : cache[q][t] = "none"
    /\ t \notin revoked
    /\ Write(p, [View(p) EXCEPT ![t] = "active"], {})
    /\ UNCHANGED <<setup, scimVars, members, op, deleted>>

\* Mutant of Revoke: the record changes in memory, and nothing is written.
RevokeUnsaved(p, t) ==
    /\ Call /\ admin /\ View(p)[t] = "active"
    /\ cache' = [cache EXCEPT ![p][t] = "revoked"] /\ revoked' = revoked \cup {t}
    /\ UNCHANGED <<setup, stored, faults, scimVars, members, op, deleted>>

\* A token unknown to the process is "not found", whatever the file says.
Revoke(p, t) ==
    /\ Call /\ admin /\ View(p)[t] = "active"
    /\ Write(p, [View(p) EXCEPT ![t] = "revoked"], {t})
    /\ UNCHANGED <<setup, scimVars, members, op, deleted>>

\* The TTL of t is over: verify of the Postgres store deactivates the row, the
\* JSONL store refuses the token and deactivates it when it is loaded.
VerifyExpired(p, t) ==
    /\ Call /\ backend = "table" /\ stored[t] = "active"
    /\ stored' = [stored EXCEPT ![t] = "revoked"]
    /\ UNCHANGED <<setup, cache, revoked, faults, scimVars, members, op, deleted>>

Owned(u) == {t \in Tokens : Owner[t] = u}
RevokeAll(p, u) ==
    LET gone == {t \in Owned(u) : View(p)[t] = "active"} IN
    IF gone = {}
    THEN UNCHANGED tokenVars
    ELSE Write(p, [t \in Tokens |-> IF t \in gone THEN "revoked" ELSE View(p)[t]], gone)

----------------------------------------------------------------------------
(* ScimProvisioner.                                                        *)
Persist(p, new) == scim' = [scim EXCEPT ![p] = new] /\ disk' = new

CreateUser(p, u, active) ==
    /\ Call /\ scim[p].users[u] = "none"
    /\ Persist(p, [scim[p] EXCEPT !.users[u] = IF active THEN "active" ELSE "inactive"])
    /\ UNCHANGED <<setup, tokenVars, members, op, deleted>>

Start(p, u) ==
    op' = [op EXCEPT ![p] = [pc |-> "revoke", user |-> u,
                             before |-> {t \in Owned(u) : View(p)[t] # "none"}]]

\* update_user: an inactive user is deprovisioned by every PATCH.
UpdateUser(p, u, active) ==
    /\ Call /\ op[p] = NoOp /\ scim[p].users[u] # "none"
    /\ Persist(p, [scim[p] EXCEPT !.users[u] = IF active THEN "active" ELSE "inactive"])
    /\ IF active THEN UNCHANGED op ELSE Start(p, u)
    /\ UNCHANGED <<setup, tokenVars, members, deleted>>

\* The user is marked in memory; the record stays.
DeleteUser(p, u) ==
    /\ Call /\ op[p] = NoOp /\ scim[p].users[u] # "none"
    /\ scim' = [scim EXCEPT ![p].users[u] = "inactive"] /\ Start(p, u)
    /\ UNCHANGED <<setup, tokenVars, disk, members, deleted>>

\* Mutant of DeprovisionRevoke: only tokens the last start loaded are revoked.
DeprovisionRevokeFile(p) ==
    /\ op[p].pc = "revoke"
    /\ op' = [op EXCEPT ![p].pc = "members"]
    /\ stored' = [t \in Tokens |-> IF Owner[t] = op[p].user /\ stored[t] = "active"
                                   THEN "revoked" ELSE stored[t]]
    /\ UNCHANGED <<setup, cache, revoked, faults, scimVars, members, deleted, calls>>

\* The first step of deprovision_user; where token administration is disabled
\* it raises, and nothing else is done for the user.
DeprovisionRevoke(p) ==
    /\ op[p].pc = "revoke"
    /\ IF admin
       THEN RevokeAll(p, op[p].user) /\ op' = [op EXCEPT ![p].pc = "members"]
       ELSE op' = [op EXCEPT ![p] = NoOp] /\ UNCHANGED tokenVars
    /\ UNCHANGED <<setup, scimVars, members, deleted, calls>>

DeprovisionMembers(p) ==
    /\ op[p].pc = "members"
    /\ members' = [members EXCEPT ![p] = @ \ {op[p].user}]
    /\ op' = [op EXCEPT ![p].pc = "task"]
    /\ UNCHANGED <<setup, tokenVars, scimVars, deleted, calls>>

DeprovisionTask(p) ==
    /\ op[p].pc = "task"
    /\ Persist(p, [scim[p] EXCEPT !.tasks = @ \cup {op[p].user}])
    /\ op' = [op EXCEPT ![p] = NoOp]
    /\ UNCHANGED <<setup, tokenVars, members, deleted, calls>>

\* create_group and update_group with a list of members: known users, active
\* or not, become members; a former member loses its membership even where
\* another group lists it.
SyncGroupMembers(p, g, named) ==
    LET known == {u \in named : scim[p].users[u] # "none"}
        former == scim[p].groups[g] IN
    /\ Call
    /\ Persist(p, [scim[p] EXCEPT !.groups[g] = known])
    /\ members' = [members EXCEPT ![p] = (@ \cup known) \ (former \ known)]
    /\ UNCHANGED <<setup, tokenVars, op, deleted>>

\* The members of a deleted group stay members of the organisation.
DeleteGroup(p, g) ==
    /\ Call /\ scim[p].groups[g] # NoGroup
    /\ deleted' = [deleted EXCEPT ![p] = @ \cup scim[p].groups[g]]
    /\ Persist(p, [scim[p] EXCEPT !.groups[g] = NoGroup])
    /\ UNCHANGED <<setup, tokenVars, members, op>>

\* The process dies and is started again; tokens past their TTL are found
\* when the file is loaded (expired), and then it is rewritten.
Restart(p, expired) ==
    /\ Call /\ expired \subseteq {t \in Tokens : stored[t] = "active"}
    /\ backend = "table" => expired = {}
    /\ LET loaded == [t \in Tokens |-> IF t \in expired THEN "revoked" ELSE stored[t]]
       IN  IF backend = "file"
           THEN cache' = [cache EXCEPT ![p] = loaded] /\ stored' = loaded
           ELSE UNCHANGED <<cache, stored>>
    /\ scim' = [scim EXCEPT ![p] = disk] /\ members' = [members EXCEPT ![p] = {}]
    /\ op' = [op EXCEPT ![p] = NoOp] /\ deleted' = [deleted EXCEPT ![p] = {}]
    /\ UNCHANGED <<setup, revoked, faults, disk>>

Deprovision(p) == DeprovisionRevoke(p) \/ DeprovisionMembers(p) \/ DeprovisionTask(p)

Next ==
    \E p \in procs :
        \/ Deprovision(p)
        \/ \E t \in Tokens : Issue(p, t) \/ Revoke(p, t) \/ VerifyExpired(p, t)
        \/ \E u \in Users : DeleteUser(p, u)
        \/ \E u \in Users, active \in BOOLEAN : CreateUser(p, u, active) \/ UpdateUser(p, u, active)
        \/ \E g \in Groups, named \in SUBSET Users : SyncGroupMembers(p, g, named)
        \/ \E g \in Groups : DeleteGroup(p, g)
        \/ \E expired \in SUBSET Tokens : Restart(p, expired)

Spec == Init /\ [][Next]_vars

----------------------------------------------------------------------------
ScimStates == [users : [Users -> {"none", "active", "inactive"}],
               groups : [Groups -> (SUBSET Users) \cup {NoGroup}], tasks : SUBSET Users]
TypeOK ==
    /\ procs \subseteq Procs /\ backend \in {"table", "file"} /\ admin \in BOOLEAN
    /\ stored \in [Tokens -> TokenStates] /\ cache \in [Procs -> [Tokens -> TokenStates]]
    /\ scim \in [Procs -> ScimStates] /\ disk \in ScimStates
    /\ members \in [Procs -> SUBSET Users] /\ deleted \in [Procs -> SUBSET (Users \cup {NoUser})]
    /\ op \in [Procs -> [pc : {"idle", "revoke", "members", "task"},
                         user : Users \cup {NoUser}, before : SUBSET Tokens]]
    /\ \A p \in Procs : op[p].pc = "idle" \/ op[p].user \in Users
    /\ revoked \subseteq Tokens /\ calls \in 0 .. MaxCalls /\ faults \in 0 .. MaxFaults

\* A revocation that was written is final, whatever is issued, revoked,
\* persisted or restarted behind it.  Only the JSONL store breaks this, with a
\* second process that has the token active in its memory: it accepts the
\* token and writes it back with its next change (_persist of ApiTokenStore).
RevokedStaysRevoked ==
    \A t \in revoked :
        \/ stored[t] # "active" /\ \A p \in procs : View(p)[t] # "active"
        \/ backend = "file" /\ \E p \in procs : cache[p][t] = "active" /\ procs # {p}

\* When a deprovision task is recorded, the process has revoked every token of
\* the user that existed when the deprovisioning began, on file too unless a
\* write failed or another process wrote, whatever was issued, revoked or
\* synchronised in between (deprovision_user).
TaskMeansOut ==
    [][\A p \in procs : DeprovisionTask(p) => \A t \in op[p].before :
          /\ View(p)[t] # "active"
          /\ procs = {p} /\ faults = 0 => stored[t] # "active"]_vars

\* A member of the organisation is listed by a group of the process, or was
\* when its group was deleted: neither a deprovisioning nor a synchronisation
\* leaves a membership behind that no group explains (_sync_group_members).
MembersListed ==
    \A p \in Procs : \A u \in members[p] :
        u \in deleted[p] \/ \E g \in Groups : u \in scim[p].groups[g]

\* Deprovisioning takes tokens and memberships away, as the two say.
DeprovisionedIsOut == []MembersListed /\ TaskMeansOut
=============================================================================
