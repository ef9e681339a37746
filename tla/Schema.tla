------------------------------- MODULE Schema -------------------------------
(***************************************************************************)
(* How the SQLite stores bring their databases up to date.  The memory     *)
(* store and the records store each read the newest version once and then  *)
(* run the migrations after it.  Each statement of a migration that changes*)
(* the schema commits by itself, and its version is recorded afterwards:   *)
(* several processes may be at it at once, and each may die in between.    *)
(***************************************************************************)
EXTENDS Integers, Sequences, FiniteSetsExt

CONSTANTS
    Openers,   \* processes
    MaxDeaths  \* bound on processes that die while they open a store

VARIABLES
    tables,    \* of each SQLite database: migrations whose statements ran
    versions,  \* of each: schema_migrations
    opener,    \* of each process: the store it opens, stage, next migration
    deaths     \* what processes that died while they opened a store were at

schemaVars == <<tables, versions, opener, deaths>>

Last == [memory |-> 3, records |-> 1]
Databases == DOMAIN Last
\* Every statement says IF NOT EXISTS but the one that adds org_id.
AddsColumn(db, version) == db = "memory" /\ version = 3

Closed == [db |-> "memory", stage |-> "closed", next |-> 0]

Init ==
    /\ tables = [db \in Databases |-> {}] /\ versions = [db \in Databases |-> {}]
    /\ opener = [p \in Openers |-> Closed]
    /\ deaths = <<>>

At(p, stage) == opener[p].stage = stage
Step(p, o) == opener' = [opener EXCEPT ![p] = o]

----------------------------------------------------------------------------
\* _init_db: schema_migrations is there, and the newest version in it is read.
Open(p, db) ==
    LET newest == Max(versions[db] \cup {0}) IN
    /\ opener[p].stage \in {"closed", "failed"}
    /\ Step(p, [db |-> db, stage |-> IF newest < Last[db] THEN "migrate" ELSE "open", next |-> newest + 1])
    /\ UNCHANGED <<tables, versions, deaths>>

\* The statements of the next migration; OperationalError when the column is
\* there already.
Migrate(p) ==
    LET o == opener[p] IN
    /\ At(p, "migrate")
    /\ IF AddsColumn(o.db, o.next) /\ o.next \in tables[o.db]
       THEN Step(p, [o EXCEPT !.stage = "failed"]) /\ UNCHANGED tables
       ELSE /\ Step(p, [o EXCEPT !.stage = "record"])
            /\ tables' = [tables EXCEPT ![o.db] = @ \cup {o.next}]
    /\ UNCHANGED <<versions, deaths>>

\* Mutant of Record: the version is one more than the newest recorded.
RecordNewest(p) ==
    LET o == opener[p]
        version == Max(versions[o.db] \cup {0}) + 1
    IN
    /\ At(p, "record") /\ version <= Last[o.db]
    /\ versions' = [versions EXCEPT ![o.db] = @ \cup {version}]
    /\ Step(p, IF o.next = Last[o.db] THEN [o EXCEPT !.stage = "open"]
               ELSE [o EXCEPT !.stage = "migrate", !.next = @ + 1])
    /\ UNCHANGED <<tables, deaths>>

\* The version is recorded; IntegrityError when another process was faster.
Record(p) ==
    LET o == opener[p] IN
    /\ At(p, "record")
    /\ IF o.next \in versions[o.db]
       THEN Step(p, [o EXCEPT !.stage = "failed"]) /\ UNCHANGED versions
       ELSE /\ versions' = [versions EXCEPT ![o.db] = @ \cup {o.next}]
            /\ Step(p, IF o.next = Last[o.db] THEN [o EXCEPT !.stage = "open"]
                       ELSE [o EXCEPT !.stage = "migrate", !.next = @ + 1])
    /\ UNCHANGED <<tables, deaths>>

Close(p) ==
    /\ At(p, "open") /\ Step(p, Closed)
    /\ UNCHANGED <<tables, versions, deaths>>

Die(p) ==
    /\ Len(deaths) < MaxDeaths /\ opener[p].stage \in {"migrate", "record"}
    /\ deaths' = Append(deaths, opener[p])
    /\ Step(p, Closed)
    /\ UNCHANGED <<tables, versions>>

----------------------------------------------------------------------------
Next ==
    \/ \E p \in Openers :
          \/ \E db \in Databases : Open(p, db)
          \/ Migrate(p) \/ Record(p) \/ Close(p) \/ Die(p)

Spec == Init /\ [][Next]_schemaVars
----------------------------------------------------------------------------
TypeOK ==
    /\ \A db \in Databases : versions[db] \subseteq 1 .. Last[db] /\ tables[db] \subseteq 1 .. Last[db]
    /\ \A p \in Openers : opener[p].stage \in {"closed", "migrate", "record", "open", "failed"}

\* The column is there, its version is not, and nobody is about to record it:
\* no process will ever open the memory store again.
Stuck ==
    /\ 3 \in tables["memory"] \ versions["memory"]
    /\ \A p \in Openers : opener[p].db = "memory" => ~At(p, "record") \/ opener[p].next # 3

\* Whatever races and dies: a version that is recorded ran, with all before
\* it; a store that is open has every one; and the memory store gets stuck
\* only by a process that died between the new column and its version
\* (_apply_migrations of both stores).
SchemaComplete ==
    /\ \A db \in Databases :
          /\ versions[db] \subseteq tables[db]
          /\ \A v \in versions[db] : 1 .. v \subseteq versions[db]
    /\ \A p \in Openers : At(p, "open") => versions[opener[p].db] = 1 .. Last[opener[p].db]
    /\ Stuck => \E i \in DOMAIN deaths : deaths[i] = [db |-> "memory", stage |-> "record", next |-> 3]
=============================================================================
