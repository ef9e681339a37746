----------------------------- MODULE Workspace -----------------------------
(***************************************************************************)
(* The working tree of a repository: the patcher snapshots it, obtains a   *)
(* patch and applies it through a file in the tree; a rollback restores a  *)
(* snapshot.  Nothing keeps two runs off the same repository, and a run    *)
(* taken up again after a crash patches a second time.                     *)
(*                                                                         *)
(* The tree is what rollback can tell apart: the patches in tracked files, *)
(* the user's uncommitted work, and directories that a snapshot leaves out *)
(* (dependencies, build output, caches).  The harness never commits.       *)
(***************************************************************************)
EXTENDS Integers, FiniteSets, FiniteSetsExt, Sequences

CONSTANTS
    Runs,
    NoRun,          \* not one of Runs
    Retained,       \* max_retained_snapshots
    MaxSnapshots    \* bound on snapshots ever taken

VARIABLES
    git,        \* the repository is a git root and worktree add works
    tree,       \* patches, uncommitted work, left-out directories
    patchFile,  \* .loom_patch.diff: whose patch it holds
    snapshots,  \* every snapshot taken: its content, and whether it is on disk
    agent,      \* of each run: the patcher's stage, its snapshot, its result
    mixed,      \* runs whose patch file another run wrote or removed
    again,      \* runs that patched more than once
    rolled      \* runs rolled back since they last applied a patch

workspaceVars == <<git, tree, patchFile, snapshots, agent, mixed, again, rolled>>

Tree == [patches : SUBSET Runs, uncommitted : BOOLEAN, leftOut : BOOLEAN]
Stages == {"start", "pruned", "generate", "write", "check", "apply", "unlink", "end"}
Results == {"none", "applied", "conflict", "invalid", "blocked", "error"}
None == 0

Init ==
    /\ git \in BOOLEAN
    /\ tree \in [patches : {{}}, uncommitted : BOOLEAN, leftOut : BOOLEAN]
    /\ patchFile = NoRun /\ snapshots = <<>>
    /\ agent = [r \in Runs |-> [stage |-> "start", snapshot |-> None, result |-> "none"]]
    /\ mixed = {} /\ again = {} /\ rolled = {}

OnDisk == {i \in DOMAIN snapshots : snapshots[i].disk = "kept"}
Step(r, from, to) == agent[r].stage = from /\ agent' = [agent EXCEPT ![r].stage = to]
End(r, from, result) ==
    agent[r].stage = from /\ agent' = [agent EXCEPT ![r].stage = "end", ![r].result = result]

----------------------------------------------------------------------------
\* The oldest snapshots beyond the limit; ids are times, so a number orders them.
Excess(kept, limit) == {i \in kept : Cardinality({j \in kept : j > i}) >= limit}

\* The snapshots that may be older than max_age_seconds.  A worktree has the
\* time of its creation; a copy has that of the repository's root directory,
\* so any of them may seem old.
Expirable ==
    {old \in SUBSET OnDisk : git => \A i \in old, j \in OnDisk : j < i => j \in old}

\* create_snapshot, first part: prune_snapshots leaves room for one more.
Prune(r) ==
    /\ Step(r, "start", "pruned")
    /\ \E expired \in Expirable :
          snapshots' = [i \in DOMAIN snapshots |->
              IF i \in expired THEN [snapshots[i] EXCEPT !.disk = "expired"]
              ELSE IF i \in Excess(OnDisk, Retained - 1) THEN [snapshots[i] EXCEPT !.disk = "excess"]
              ELSE snapshots[i]]
    /\ UNCHANGED <<git, tree, patchFile, mixed, again, rolled>>

\* A worktree of HEAD, or else a copy of the tree without what
\* SNAPSHOT_IGNORED_PATTERNS names.
Copied ==
    IF git THEN [patches |-> {}, uncommitted |-> FALSE, leftOut |-> FALSE]
           ELSE [tree EXCEPT !.leftOut = FALSE]

CreateSnapshot(r) ==
    /\ agent[r].stage = "pruned" /\ Len(snapshots) < MaxSnapshots
    /\ snapshots' = Append(snapshots, [content |-> Copied, disk |-> "kept"])
    /\ agent' = [agent EXCEPT ![r].stage = "generate", ![r].snapshot = Len(snapshots) + 1]
    /\ UNCHANGED <<git, tree, patchFile, mixed, again, rolled>>

\* The model answers with a diff the commit gateway and the consensus accept,
\* with one of them refused, or with nothing that is a diff.
Generate(r) ==
    /\ \/ Step(r, "generate", "write")
       \/ \E result \in {"blocked", "invalid"} : End(r, "generate", result)
    /\ UNCHANGED <<git, tree, patchFile, snapshots, mixed, again, rolled>>

Others(r) == {q \in Runs \ {r} : agent[q].stage \in {"check", "apply", "unlink"}}

\* Mutant of WritePatch: a file that is there is not written again.
WritePatchOnce(r) ==
    /\ Step(r, "write", "check")
    /\ patchFile' = IF patchFile = NoRun THEN r ELSE patchFile
    /\ mixed' = mixed \cup Others(r)
    /\ UNCHANGED <<git, tree, snapshots, again, rolled>>

WritePatch(r) ==
    /\ Step(r, "write", "check")
    /\ patchFile' = r /\ mixed' = mixed \cup Others(r)
    /\ UNCHANGED <<git, tree, snapshots, again, rolled>>

\* git apply --check of what the file holds now; a patch that is in the tree
\* already, or one that does not fit another, is a conflict.
CheckPatch(r) ==
    /\ \/ Step(r, "check", "apply") /\ patchFile # NoRun /\ patchFile \notin tree.patches
       \/ End(r, "check", "conflict") /\ patchFile = NoRun
       \/ Step(r, "check", "unlink") /\ patchFile # NoRun
    /\ UNCHANGED <<git, tree, patchFile, snapshots, mixed, again, rolled>>

ApplyPatch(r) ==
    /\ agent[r].stage = "apply"
    /\ IF patchFile = NoRun \/ patchFile \in tree.patches
       THEN agent' = [agent EXCEPT ![r].stage = "unlink", ![r].result = "conflict"]
            /\ UNCHANGED <<tree, rolled>>
       ELSE /\ agent' = [agent EXCEPT ![r].stage = "unlink", ![r].result = "applied"]
            /\ tree' = [tree EXCEPT !.patches = @ \cup {patchFile}]
            /\ rolled' = rolled \ {r}
    /\ UNCHANGED <<git, patchFile, snapshots, mixed, again>>

\* The finally clause removes the file, whoever wrote it.
UnlinkPatch(r) ==
    /\ agent[r].stage = "unlink"
    /\ End(r, "unlink", IF agent[r].result = "none" THEN "conflict" ELSE agent[r].result)
    /\ patchFile' = NoRun
    /\ mixed' = IF patchFile = r THEN mixed ELSE mixed \cup Others(r)
    /\ UNCHANGED <<git, tree, snapshots, again, rolled>>

\* The process dies after or during the patcher, and the run is taken up
\* again from its checkpoint with the patcher still to do.
PatchAgain(r) ==
    /\ agent[r].stage \notin {"start"} /\ r \notin again
    /\ agent' = [agent EXCEPT ![r].stage = "start", ![r].result = "none"]
    /\ again' = again \cup {r} /\ mixed' = mixed \ {r}
    /\ UNCHANGED <<git, tree, patchFile, snapshots, rolled>>

\* Mutant of Restored: the names that are in the tree alone stay.
RestoredOver(content) ==
    [patches |-> content.patches \cup tree.patches, uncommitted |-> tree.uncommitted \/ content.uncommitted,
     leftOut |-> tree.leftOut]

\* restore_snapshot: what the snapshot has not is removed, dependencies and
\* untracked files included; the rest is replaced.
Restored(content) == content

\* _do_rollback, control_run and the command line: the run's snapshot, if it
\* is still on disk.  The run may be in the middle of its patcher.
Rollback(r) ==
    LET i == agent[r].snapshot IN
    /\ i # None /\ i \in OnDisk
    /\ tree' = Restored(snapshots[i].content)
    /\ rolled' = rolled \cup {r}
    /\ UNCHANGED <<git, patchFile, snapshots, agent, mixed, again>>

Patch(r) ==
    \/ Prune(r) \/ CreateSnapshot(r) \/ Generate(r) \/ WritePatch(r)
    \/ CheckPatch(r) \/ ApplyPatch(r) \/ UnlinkPatch(r)

Next ==
    \E r \in Runs : Patch(r) \/ PatchAgain(r) \/ Rollback(r)

Spec == Init /\ [][Next]_workspaceVars

----------------------------------------------------------------------------
TypeOK ==
    /\ git \in BOOLEAN /\ tree \in Tree /\ patchFile \in Runs \cup {NoRun}
    /\ \A i \in DOMAIN snapshots :
          snapshots[i].content \in Tree /\ snapshots[i].disk \in {"kept", "expired", "excess"}
    /\ \A r \in Runs :
          /\ agent[r].stage \in Stages /\ agent[r].result \in Results
          /\ agent[r].snapshot \in {None} \cup DOMAIN snapshots
    /\ mixed \subseteq Runs /\ again \subseteq Runs /\ rolled \subseteq Runs

Enters(r) == r \in tree'.patches \ tree.patches
SaysApplied(r) == agent[r].result # "applied" /\ agent'[r].result = "applied"

\* A run is told "applied" of the patch it proposed and of no other, and only
\* an application or a rollback puts a patch into the tree; the exception are
\* runs whose .loom_patch.diff another run wrote or removed meanwhile, which
\* may apply the other's patch (PatcherAgent.execute).
AppliedIsOwn ==
    [][\A r \in Runs :
          /\ SaysApplied(r) => Enters(r) \/ r \in mixed
          /\ Enters(r) => \/ \E q \in {r} \cup mixed : SaysApplied(q)
                         \/ UNCHANGED agent]_workspaceVars

\* A rollback takes the patch of the run out of the tree, unless the run
\* patched twice; and the uncommitted work of the user survives rollbacks
\* where the snapshots are copies, whatever runs overlap (restore_snapshot).
TakenBack ==
    [][\A r \in rolled' \ rolled :
          /\ r \notin again => r \notin tree'.patches
          /\ ~git => tree'.uncommitted = tree.uncommitted]_workspaceVars

\* A snapshot that was removed as one too many had Retained - 1 younger ones,
\* and no more are on disk than Retained and one for every other run that
\* creates one at the same time (prune_snapshots, create_snapshot).
SnapshotsKept ==
    /\ \A i \in DOMAIN snapshots :
          snapshots[i].disk = "excess" => Len(snapshots) - i >= Retained - 1
    /\ Cardinality(OnDisk) <= Retained - 1 + Cardinality(Runs)

\* Snapshots are there as long as they should, and taken back to what they hold.
RollbackClears == []SnapshotsKept /\ TakenBack
=============================================================================
