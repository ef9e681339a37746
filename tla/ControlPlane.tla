---------------------------- MODULE ControlPlane ----------------------------
(***************************************************************************)
(* Components of the control plane that share no state: the metering of    *)
(* runs by worker processes (UsageMetering) and an instance of nine other  *)
(* modules, put one beside the other instead of in all combinations:       *)
(* `part' names the one that moves, and the others stay in one of their    *)
(* initial states.  Every constant of a component is one of this module,   *)
(* under its own name where no other component uses that name.             *)
(***************************************************************************)
EXTENDS UsageMetering, Integers

Parts == {"metering", "identity", "billing", "rollup", "limiter", "memory", "records", "schema",
          "migrations", "pulls"}

VARIABLE part

CONSTANTS Servers, Users, Groups, Tokens, Owner, NoUser, MaxCalls, MaxTokenFaults
VARIABLES procs, backend, admin, stored, cache, scim, disk, members, op, revoked, deleted, calls, idFaults
identity == <<procs, backend, admin, stored, cache, scim, disk, members, op, revoked, deleted, calls, idFaults>>
I == INSTANCE Identity WITH Procs <- Servers, MaxFaults <- MaxTokenFaults, faults <- idFaults

CONSTANTS BilledRuns, BilledSteps, Included, TokensPerCredit, SecondsPerCredit, RetriesPerStep,
          CapMultiplier, DefaultMultiplier, MultiplierParts, Usage, MaxEntries, MaxEvents, MaxDay
VARIABLES org, billEntries, day, events
billing == <<org, billEntries, day, events>>
B == INSTANCE Billing WITH
        Runs <- BilledRuns, Steps <- BilledSteps, MaxRetries <- RetriesPerStep, entries <- billEntries
\* A tier includes some runs, an envelope has a size, usage is counted, and a
\* multiplier is a number of parts of one.
ASSUME BillingAssumption ==
    /\ \A tier \in DOMAIN Included : Included[tier] \in Nat
    /\ TokensPerCredit \in Nat \ {0} /\ SecondsPerCredit \in Nat \ {0}
    /\ RetriesPerStep \in Nat /\ CapMultiplier \in Nat /\ DefaultMultiplier \in Nat
    /\ MultiplierParts \in Nat \ {0}
    /\ Usage \subseteq [attempt : Nat, tokens : Nat, seconds : Nat]

CONSTANTS Orgs, Jobs, MaxRepeats
VARIABLES usage, state, job, warned, exceeded, silent, repeats
rollup == <<usage, state, job, warned, exceeded, silent, repeats>>
U == INSTANCE Rollup
ASSUME RollupAssumption == IsFiniteSet(Jobs)

CONSTANTS Replicas, Limit, Window, MaxSkew, MaxTime, MaxRequests
VARIABLES now, skew, zset, answering, local, served, requests
limiter == <<now, skew, zset, answering, local, served, requests>>
L == INSTANCE RateLimiter
ASSUME LimiterAssumption ==
    /\ Limit \in Nat /\ Window \in Nat /\ MaxSkew \in Nat /\ MaxTime \in Nat
    /\ Replicas # {} /\ "redis" \notin Replicas

CONSTANTS Clients, Ids, FreshIds, MaxAdds
VARIABLES items, clients, adds
memory == <<items, clients, adds>>
M == INSTANCE MemoryTiers

CONSTANTS MaxAttempts, MaxNodeRetries, MaxLostWrites
VARIABLES run, steps, patches, verifications, api, graph, recFaults, lost
records == <<run, steps, patches, verifications, api, graph, recFaults, lost>>
R == INSTANCE RunRecords WITH MaxFaults <- MaxLostWrites, faults <- recFaults
ASSUME RecordsAssumption == MaxAttempts \in Nat /\ MaxNodeRetries \in Nat

CONSTANTS Openers, MaxDeaths
VARIABLES tables, versions, opener, deaths
schema == <<tables, versions, opener, deaths>>
S == INSTANCE Schema

CONSTANTS Stores, Scripts, Shells, Edited, LastFile, MaxTransactions, MaxAborts
VARIABLES made, rows, bare, session, crossed, txCalls, txFaults
migrations == <<made, rows, bare, session, crossed, txCalls, txFaults>>
G == INSTANCE Migrations WITH
        Last <- LastFile, MaxCalls <- MaxTransactions, MaxFaults <- MaxAborts,
        calls <- txCalls, faults <- txFaults
\* The files go at least to the one the store's tables need, and a process is
\* of one kind.
ASSUME MigrationsAssumption ==
    /\ LastFile \in Nat /\ LastFile >= 4
    /\ Stores \cap Scripts = {} /\ Shells \cap Scripts = {}

CONSTANTS FixRuns, BranchOf, Bots, MaxOpenPrs, MaxPrCalls, MaxPrFaults
VARIABLES applied, tree, head, localBranches, remote, prs, call, counted, opened, unheard, prCalls, prFaults
pulls == <<applied, tree, head, localBranches, remote, prs, call, counted, opened, unheard, prCalls, prFaults>>
P == INSTANCE PullRequests WITH
        Runs <- FixRuns, MaxCalls <- MaxPrCalls, MaxFaults <- MaxPrFaults,
        local <- localBranches, calls <- prCalls, faults <- prFaults
\* A contributor may have one request open at least, and "absent" names no run.
ASSUME PullsAssumption == IsFiniteSet(FixRuns) /\ "absent" \notin FixRuns /\ MaxOpenPrs \in Nat \ {0}

ControlPlaneInit ==
    /\ part \in Parts
    /\ Init /\ I!Init /\ B!Init /\ U!Init /\ L!Init /\ M!Init /\ R!Init /\ S!Init /\ G!Init /\ P!Init
    /\ part # "identity" => procs = Servers /\ backend = "file" /\ admin
    /\ part # "billing" => org.tier = CHOOSE t \in DOMAIN Included : TRUE
    /\ part # "migrations" => made = {}
    /\ part # "limiter" => \A r \in DOMAIN skew : skew[r] = 0

MeteringStep ==
    part = "metering" /\ Next /\ UNCHANGED <<part, identity, billing, rollup, limiter, memory, records, schema, migrations, pulls>>
IdentityStep ==
    part = "identity" /\ I!Next /\ UNCHANGED <<part, vars, billing, rollup, limiter, memory, records, schema, migrations, pulls>>
BillingStep ==
    part = "billing" /\ B!Next /\ UNCHANGED <<part, vars, identity, rollup, limiter, memory, records, schema, migrations, pulls>>
RollupStep ==
    part = "rollup" /\ U!Next /\ UNCHANGED <<part, vars, identity, billing, limiter, memory, records, schema, migrations, pulls>>
LimiterStep ==
    part = "limiter" /\ L!Next /\ UNCHANGED <<part, vars, identity, billing, rollup, memory, records, schema, migrations, pulls>>
MemoryStep ==
    part = "memory" /\ M!Next /\ UNCHANGED <<part, vars, identity, billing, rollup, limiter, records, schema, migrations, pulls>>
RecordsStep ==
    part = "records" /\ R!Next /\ UNCHANGED <<part, vars, identity, billing, rollup, limiter, memory, schema, migrations, pulls>>
SchemaStep ==
    part = "schema" /\ S!Next /\ UNCHANGED <<part, vars, identity, billing, rollup, limiter, memory, records, migrations, pulls>>
MigrationsStep ==
    part = "migrations" /\ G!Next /\ UNCHANGED <<part, vars, identity, billing, rollup, limiter, memory, records, schema, pulls>>
PullsStep ==
    part = "pulls" /\ P!Next /\ UNCHANGED <<part, vars, identity, billing, rollup, limiter, memory, records, schema, migrations>>

ControlPlaneNext ==
    \/ MeteringStep \/ IdentityStep \/ BillingStep \/ RollupStep \/ LimiterStep
    \/ MemoryStep \/ RecordsStep \/ SchemaStep \/ MigrationsStep \/ PullsStep

controlPlane == <<part, vars, identity, billing, rollup, limiter, memory, records, schema, migrations, pulls>>
ControlPlaneSpec == ControlPlaneInit /\ [][ControlPlaneNext]_controlPlane

----------------------------------------------------------------------------
\* The properties of the instances, stated with their modules.

\* A revoked token stays revoked, but for what stale processes write (Identity).
RevokedStaysRevoked == I!RevokedStaysRevoked
\* A user whose deprovisioning is recorded is out, and memberships are those
\* the groups list, within the known gaps (Identity).
DeprovisionedIsOut == I!DeprovisionedIsOut
\* The invoice of a month only grows, up to its cap (Billing).
InvoiceGrows == B!InvoiceGrows
\* No threshold crossing is lost, or reported twice without a cause (Rollup).
CrossingsReported == U!CrossingsReported
\* No window holds more requests than the limit (RateLimiter).
RateLimitKept == L!RateLimitKept
\* What an append-only tier holds is not overwritten (MemoryTiers).
AppendOnlyKept == M!AppendOnlyKept
\* What a run that ended leaves in the records is whole, but for lost writes (RunRecords).
RecordsComplete == R!RecordsComplete
\* A recorded version has its tables and columns (Schema, Migrations).
SchemaComplete == S!SchemaComplete /\ G!MigrationsWhole
\* Pull requests are counted, and stacked one on the other (PullRequests).
PrsAccounted == P!PrsAccounted
=============================================================================
