------------------------------- MODULE Rollup -------------------------------
(***************************************************************************)
(* UsageRollupJob: run_once reads the state file, and for every            *)
(* organisation compares the percentage of its quota with the one of the   *)
(* last run; crossing a threshold is recorded and announced, one await     *)
(* after the other, and the state file is written when all organisations   *)
(* are done.  A run may die in between and two runs may overlap.           *)
(*                                                                         *)
(* A percentage is a level: 0 below 80, 1 from 80, 2 from 100, 3 from 999. *)
(***************************************************************************)
EXTENDS Integers, FiniteSets

CONSTANTS
    Orgs,
    Jobs,       \* rollup runs that may overlap
    MaxRepeats  \* bound on repeats

VARIABLES
    usage,      \* of each organisation: the level of its ledger
    state,      \* the state file: level of the last run
    job,        \* of each run: stage, organisations left, its copy of the state
    warned,     \* of each organisation: soft warnings announced
    exceeded,   \* of each organisation: announcements that the quota is used up
    silent,     \* organisations that went past 999 percent between two runs
    repeats     \* runs that died or overlapped, and quotas that grew

rollupVars == <<usage, state, job, warned, exceeded, silent, repeats>>

Levels == 0 .. 3
Idle == [stage |-> "idle", left |-> {}, org |-> {}, level |-> 0, copy |-> [o \in Orgs |-> 0]]

Init ==
    /\ usage = [o \in Orgs |-> 0] /\ state = [o \in Orgs |-> 0]
    /\ job = [j \in Jobs |-> Idle]
    /\ warned = [o \in Orgs |-> 0] /\ exceeded = [o \in Orgs |-> 0]
    /\ silent = {} /\ repeats = 0

\* The ledger grows, and nothing is removed from it; a percentage falls when
\* the organisation changes to a tier with a larger quota.
Use(o, level) ==
    LET falls == level < usage[o] IN
    /\ level \in Levels \ {usage[o]} /\ usage' = [usage EXCEPT ![o] = level]
    /\ falls => repeats < MaxRepeats
    /\ repeats' = IF falls THEN repeats + 1 ELSE repeats
    /\ UNCHANGED <<state, job, warned, exceeded, silent>>

\* run_once, up to its loop; it may overlap a run that is slow to announce.
Load(j) ==
    LET overlaps == \E i \in Jobs : job[i].stage # "idle" IN
    /\ job[j].stage = "idle"
    /\ overlaps => repeats < MaxRepeats
    /\ job' = [job EXCEPT ![j] = [Idle EXCEPT !.stage = "next", !.left = Orgs, !.copy = state]]
    /\ repeats' = IF overlaps THEN repeats + 1 ELSE repeats
    /\ UNCHANGED <<usage, state, warned, exceeded, silent>>

\* The snapshot of the next organisation is built.
Take(j, o) ==
    /\ job[j].stage = "next" /\ o \in job[j].left
    /\ job' = [job EXCEPT ![j].stage = "warn", ![j].left = @ \ {o}, ![j].org = {o}, ![j].level = usage[o]]
    /\ UNCHANGED <<usage, state, warned, exceeded, silent, repeats>>

Crosses(j, o, threshold) == job[j].copy[o] < threshold /\ threshold <= job[j].level

\* Mutant of Warn: only the step into the band itself is a crossing.
WarnBand(j, o) ==
    /\ job[j].stage = "warn" /\ job[j].org = {o}
    /\ warned' = IF Crosses(j, o, 1) /\ job[j].level = 1 THEN [warned EXCEPT ![o] = @ + 1] ELSE warned
    /\ job' = [job EXCEPT ![j].stage = "exceed"]
    /\ UNCHANGED <<usage, state, exceeded, silent, repeats>>

\* _emit_crossings: the soft warning, and its dispatch is awaited.
Warn(j, o) ==
    /\ job[j].stage = "warn" /\ job[j].org = {o}
    /\ warned' = IF Crosses(j, o, 1) THEN [warned EXCEPT ![o] = @ + 1] ELSE warned
    /\ job' = [job EXCEPT ![j].stage = "exceed"]
    /\ UNCHANGED <<usage, state, exceeded, silent, repeats>>

\* The hard limit, not announced from 999 percent on; then the level is kept
\* in the run's copy of the state.
Exceed(j, o) ==
    /\ job[j].stage = "exceed" /\ job[j].org = {o}
    /\ exceeded' = IF Crosses(j, o, 2) /\ job[j].level < 3 THEN [exceeded EXCEPT ![o] = @ + 1] ELSE exceeded
    /\ silent' = IF Crosses(j, o, 2) /\ job[j].level = 3 THEN silent \cup {o} ELSE silent
    /\ job' = [job EXCEPT ![j].stage = "next", ![j].org = {}, ![j].level = 0, ![j].copy[o] = job[j].level]
    /\ UNCHANGED <<usage, state, warned, repeats>>

\* _save_state, with the copy the run loaded for what it did not process.
Save(j) ==
    /\ job[j].stage = "next" /\ job[j].left = {}
    /\ state' = job[j].copy
    /\ job' = [job EXCEPT ![j] = Idle]
    /\ UNCHANGED <<usage, warned, exceeded, silent, repeats>>

Die(j) ==
    /\ job[j].stage # "idle" /\ repeats < MaxRepeats /\ repeats' = repeats + 1
    /\ job' = [job EXCEPT ![j] = Idle]
    /\ UNCHANGED <<usage, state, warned, exceeded, silent>>

Next ==
    \/ \E o \in Orgs, level \in Levels : Use(o, level)
    \/ \E j \in Jobs : Load(j) \/ Save(j) \/ Die(j)
    \/ \E j \in Jobs, o \in Orgs : Take(j, o) \/ Warn(j, o) \/ Exceed(j, o)

Spec == Init /\ [][Next]_rollupVars

----------------------------------------------------------------------------
TypeOK ==
    /\ usage \in [Orgs -> Levels] /\ state \in [Orgs -> Levels]
    /\ \A j \in Jobs :
          /\ job[j].stage \in {"idle", "next", "warn", "exceed"} /\ job[j].level \in Levels
          /\ job[j].left \subseteq Orgs /\ job[j].copy \in [Orgs -> Levels]
          /\ job[j].stage \in {"warn", "exceed"} <=> job[j].org # {}
    /\ silent \subseteq Orgs /\ warned \in [Orgs -> Nat] /\ exceeded \in [Orgs -> Nat]

\* No crossing is lost: what the state file knows was announced, whatever run
\* died or overlapped, but for a quota that passed 100 and 999 percent between
\* two runs; and only a run that died or overlapped another, or a quota that
\* grew, repeats an announcement (run_once, _emit_crossings: "idempotent on replay").
CrossingsReported ==
    \A o \in Orgs :
        /\ state[o] >= 1 => warned[o] >= 1
        /\ state[o] >= 2 => exceeded[o] >= 1 \/ o \in silent
        /\ warned[o] <= 1 + repeats /\ exceeded[o] <= 1 + repeats
=============================================================================
