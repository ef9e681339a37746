---------------------------- MODULE Migrations ----------------------------
(***************************************************************************)
(* The PostgreSQL schema.  A process that opens the records store creates  *)
(* the tables of its release and then applies the migration files          *)
(* (migration_runner); postgres_migrate.py applies them too, up to a       *)
(* target, and the runner's command line deletes what is recorded above    *)
(* one.  Each is one transaction under an advisory lock, but the script    *)
(* and the runner do not use the same lock.  DDL is transactional and the  *)
(* isolation is READ COMMITTED: what another one commits is seen by later  *)
(* statements.                                                             *)
(*                                                                         *)
(* What is in the database is named by the migration that makes it: 1 the  *)
(* tables, 3 their timestamp columns, and so on.  No down files exist, and *)
(* every file can run again: it says IF NOT EXISTS throughout.             *)
(***************************************************************************)
EXTENDS Integers, FiniteSets

CONSTANTS
    Stores, Scripts, Shells,  \* processes: stores, postgres_migrate.py, the runner's command line
    Edited,                   \* processes of a release whose file 2 was edited
    Last,                     \* number of the last file
    MaxCalls,                 \* bound on transactions that begin
    MaxFaults                 \* bound on transactions that the database aborts

VARIABLES
    made,     \* what is in the database
    rows,     \* schema_migrations: checksum of every version recorded
    bare,     \* schema_migrations has no columns filename and checksum
    session,  \* of each process: stage, versions to run, to stamp, to delete
    crossed,  \* a script and a rollback were at work at the same time
    calls,
    faults

migrationVars == <<made, rows, bare, session, crossed, calls, faults>>

Procs == Stores \cup Scripts \cup Shells
Versions == 1 .. Last
Recorded == DOMAIN rows
Checksum(p, v) == IF p \in Edited /\ v = 2 THEN "edited" ELSE "shipped"

Closed == [stage |-> "closed", run |-> {}, stamp |-> {}, delete |-> {}]
Failed == [Closed EXCEPT !.stage = "failed"]

\* Empty, or left by a release that recorded no checksums.
Init ==
    /\ \E last \in 0 .. Last, old \in BOOLEAN :
          /\ rows = [v \in 1 .. last |-> "legacy"]
          /\ made = 1 .. last /\ bare = (old /\ last > 0)
    /\ session = [p \in Procs |-> Closed]
    /\ crossed = FALSE /\ calls = 0 /\ faults = 0

Goto(p, s) == session' = [session EXCEPT ![p] = s]
Idle(p) == session[p].stage \in {"closed", "failed"}
InTransaction(p) == session[p].stage \in {"apply", "rollback"}
SameLock(p, q) == (p \in Scripts) = (q \in Scripts)
Begins(p) ==
    /\ calls < MaxCalls /\ calls' = calls + 1
    /\ \A q \in Procs : InTransaction(q) => ~SameLock(p, q)

----------------------------------------------------------------------------
\* RunRecordStore._init_postgres_db.  The indexes on the timestamp columns are
\* created before any migration: tables without these columns are an error.
CreateTables(p) ==
    /\ p \in Stores /\ Idle(p)
    /\ IF 1 \in made /\ 3 \notin made
       THEN Goto(p, Failed) /\ UNCHANGED made
       ELSE Goto(p, [Closed EXCEPT !.stage = "created"]) /\ made' = made \cup {1, 3, 4}
    /\ UNCHANGED <<rows, bare, crossed, calls, faults>>

\* The files up to the target: those recorded are skipped, or stamped when
\* they have no checksum; another checksum is an error.
Plan(p, target) ==
    LET files == 1 .. target
        known == files \cap Recorded
    IN  IF \E v \in known : rows[v] \notin {"legacy", Checksum(p, v)}
        THEN Failed
        ELSE [stage |-> "apply", run |-> files \ known,
              stamp |-> {v \in known : rows[v] = "legacy"}, delete |-> {}]

\* apply_postgres_migrations, from a store or a shell, adds the columns that
\* an old schema_migrations lacks.
Apply(p) ==
    /\ \/ p \in Stores /\ session[p].stage = "created"
       \/ p \in Shells /\ Idle(p)
    /\ Begins(p) /\ Goto(p, Plan(p, Last))
    /\ UNCHANGED <<made, rows, bare, crossed, faults>>

\* postgres_migrate.py selects these columns, there or not.
Migrate(p, target) ==
    /\ p \in Scripts /\ Idle(p) /\ Begins(p)
    /\ Goto(p, IF bare THEN Failed ELSE Plan(p, target))
    /\ UNCHANGED <<made, rows, bare, crossed, faults>>

\* rollback_postgres_migration.
Rollback(p, target) ==
    /\ p \in Shells /\ Idle(p) /\ Begins(p)
    /\ Goto(p, [Closed EXCEPT !.stage = "rollback", !.delete = {v \in Recorded : v > target}])
    /\ UNCHANGED <<made, rows, bare, crossed, faults>>

\* A script and a rollback that overlap.
Crossing(p) ==
    \E q \in Procs \ {p} :
       /\ InTransaction(q) /\ ~SameLock(p, q)
       /\ {session[p].stage, session[q].stage} = {"apply", "rollback"}

\* A version that another transaction recorded meanwhile violates the primary
\* key, and all is undone.
CommitApply(p) ==
    LET s == session[p] IN
    /\ s.stage = "apply"
    /\ IF s.run \cap Recorded # {}
       THEN Goto(p, Failed) /\ UNCHANGED <<made, rows, bare>>
       ELSE /\ rows' = [v \in Recorded \cup s.run |->
                            IF v \in s.run \cup s.stamp THEN Checksum(p, v) ELSE rows[v]]
            /\ made' = made \cup s.run /\ bare' = (bare /\ p \in Scripts)
            /\ Goto(p, IF p \in Stores THEN [Closed EXCEPT !.stage = "open"] ELSE Closed)
    /\ crossed' = (crossed \/ Crossing(p))
    /\ UNCHANGED <<calls, faults>>

CommitRollback(p) ==
    /\ session[p].stage = "rollback"
    /\ rows' = [v \in Recorded \ session[p].delete |-> rows[v]]
    /\ bare' = FALSE /\ crossed' = (crossed \/ Crossing(p))
    /\ Goto(p, Closed)
    /\ UNCHANGED <<made, calls, faults>>

\* A deadlock, a table that another one creates at the same time, a lost
\* connection, the death of the process.
Abort(p) ==
    /\ InTransaction(p) \/ session[p].stage = "created"
    /\ faults < MaxFaults /\ faults' = faults + 1
    /\ Goto(p, Failed)
    /\ UNCHANGED <<made, rows, bare, crossed, calls>>

----------------------------------------------------------------------------
Next ==
    \E p \in Procs :
       \/ CreateTables(p) \/ Apply(p) \/ CommitApply(p) \/ CommitRollback(p) \/ Abort(p)
       \/ \E target \in 0 .. Last : Migrate(p, target) \/ Rollback(p, target)

Spec == Init /\ [][Next]_migrationVars
----------------------------------------------------------------------------
TypeOK ==
    /\ made \subseteq Versions /\ Recorded \subseteq Versions
    /\ \A p \in Procs : session[p].stage \in {"closed", "failed", "created", "apply", "rollback", "open"}

\* Whatever races and aborts, a version that is recorded ran; the versions
\* recorded have no gap, but for a rollback beside a script, which its lock
\* does not keep out; and a store that is open finds all that its release
\* uses, also behind a rollback (apply_postgres_migrations,
\* rollback_postgres_migration, postgres_migrate.migrate).
MigrationsWhole ==
    /\ Recorded \subseteq made
    /\ crossed \/ \A v \in Recorded : 1 .. v \subseteq Recorded
    /\ \A p \in Stores : session[p].stage = "open" => made = Versions
=============================================================================
