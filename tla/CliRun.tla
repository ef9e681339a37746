------------------------------- MODULE CliRun -------------------------------
(***************************************************************************)
(* A run of the command line: _execute_task_graph walks the agents itself, *)
(* saves checkpoints, and keeps a run record (RecoveryManager) by which    *)
(* "loom resume-run" and "loom run --resume" find where to go on after a   *)
(* failure, a crash or a key press.  One process at a time works on a run. *)
(*                                                                         *)
(* A state is the nodes whose output it holds and whether verification     *)
(* passed.                                                                 *)
(***************************************************************************)
EXTENDS Integers, FiniteSets, FiniteSetsExt, Sequences

CONSTANTS
    MaxRetries,  \* of the record
    MaxResumes   \* bound on resumes

VARIABLES
    fallback,   \* FALLBACK_MODEL_MAP knows the model of the run
    record,     \* the run record: status, completed nodes, retry count
    checkpoint, \* the state in the checkpoint file
    state,      \* the state in memory
    walk,       \* the process: stage, how it walks, what it has to do
    verified,   \* the last patch passed the last verification
    early,      \* nodes a parallel walk marked before they ran
    resumes, crashes,
    rewalked    \* a process patched again over a patch that had passed

cliVars == <<fallback, record, checkpoint, state, walk, verified, early, resumes, crashes, rewalked>>

Sequence == <<"onboarding", "reproduction", "planner", "patcher", "verifier", "reviewer">>
Nodes == {Sequence[i] : i \in DOMAIN Sequence}
\* The nodes RecoveryManager.get_resume_point knows, and those of a fast walk.
Resumable == <<"onboarding", "reproduction", "patcher", "verifier", "reviewer">>
NoState == [out |-> {}, passed |-> FALSE]

Groups(parallel, fast) ==
    IF parallel
    THEN <<{"onboarding"}, {"reproduction"} \cup (IF fast THEN {} ELSE {"planner"}), {"patcher"},
           {"verifier", "reviewer"}>>
    ELSE LET nodes == IF fast THEN Resumable ELSE Sequence IN [i \in DOMAIN nodes |-> {nodes[i]}]

\* The walk begins at the node resumed from; parallel walks begin at the start.
From(groups, parallel, point) ==
    IF parallel \/ point = "none" THEN groups
    ELSE LET i == CHOOSE i \in DOMAIN groups : point \in groups[i] IN SubSeq(groups, i, Len(groups))

Walk(parallel, groups) ==
    [stage |-> "group", parallel |-> parallel, left |-> groups, running |-> {}, failed |-> {},
     skipped |-> Nodes \ UNION {groups[i] : i \in DOMAIN groups}]
NoWalk == [Walk(FALSE, <<>>) EXCEPT !.stage = "none", !.skipped = {}]

Init ==
    /\ fallback \in BOOLEAN
    /\ record = [status |-> "running", completed |-> {}, retries |-> 0]
    /\ checkpoint = NoState /\ state = NoState
    /\ \E parallel, fast \in BOOLEAN : walk = Walk(parallel, Groups(parallel, fast))
    /\ verified = FALSE /\ early = {} /\ resumes = 0 /\ crashes = 0 /\ rewalked = FALSE

----------------------------------------------------------------------------
\* A parallel walk marks its nodes as completed before they run.
Mark ==
    IF walk.parallel
    THEN /\ record' = [record EXCEPT !.completed = @ \cup Head(walk.left)]
         /\ early' = early \cup (Head(walk.left) \ state.out)
    ELSE UNCHANGED <<record, early>>

\* Mutant of StartGroup: the state is saved after a node alone.
StartGroupUnsaved ==
    /\ walk.stage = "group" /\ walk.left # <<>>
    /\ Mark
    /\ walk' = [walk EXCEPT !.stage = "run", !.running = Head(walk.left), !.left = Tail(@)]
    /\ UNCHANGED <<fallback, checkpoint, state, verified, resumes, crashes, rewalked>>

\* The state is saved, and the next group begins.
StartGroup ==
    /\ walk.stage = "group" /\ walk.left # <<>>
    /\ checkpoint' = state /\ Mark
    /\ walk' = [walk EXCEPT !.stage = "run", !.running = Head(walk.left), !.left = Tail(@)]
    /\ UNCHANGED <<fallback, state, verified, resumes, crashes, rewalked>>

\* What an agent that returns leaves in the state.  The verifier passes or
\* not; a patch it has not seen is not verified.
Returns(node, passes) ==
    /\ state' = [out |-> state.out \cup {node},
                 passed |-> IF node = "verifier" THEN passes ELSE state.passed]
    /\ verified' = CASE node = "patcher" -> FALSE [] node = "verifier" -> passes [] OTHER -> verified

\* An agent returns, and a sequential walk marks it; it saves the state after
\* that, and only with the next group when a fallback model answered.
NodeReturns(node) ==
    /\ walk.stage \in {"run", "retry"} /\ node \in walk.running
    /\ \E passes \in BOOLEAN : Returns(node, passes)
    /\ record' = IF walk.parallel THEN record ELSE [record EXCEPT !.completed = @ \cup {node}]
    /\ walk' = [walk EXCEPT !.running = @ \ {node},
                            !.stage = IF walk.parallel THEN "run" ELSE IF walk.stage = "retry" THEN "group" ELSE "save"]
    /\ UNCHANGED <<fallback, checkpoint, early, resumes, crashes, rewalked>>

Save ==
    /\ walk.stage = "save" /\ checkpoint' = state /\ walk' = [walk EXCEPT !.stage = "group"]
    /\ UNCHANGED <<fallback, record, state, verified, early, resumes, crashes, rewalked>>

\* mark_node_failed and should_retry_with_fallback.
RetryWithFallback ==
    LET again == fallback /\ record.retries + 1 <= MaxRetries IN
    /\ record' = [record EXCEPT !.status = "failed", !.retries = @ + 1]
    /\ walk' = IF again THEN [walk EXCEPT !.stage = "retry"] ELSE [walk EXCEPT !.stage = "end", !.running = {}]

\* An agent of a sequential walk raises: once more with another model, or the
\* walk ends; when that raises too, the walk ends.
NodeRaises ==
    /\ ~walk.parallel /\ walk.running # {}
    /\ \/ walk.stage = "run" /\ RetryWithFallback
       \/ /\ walk.stage = "retry" /\ walk' = [walk EXCEPT !.stage = "end", !.running = {}]
          /\ UNCHANGED record
    /\ UNCHANGED <<fallback, checkpoint, state, verified, early, resumes, crashes, rewalked>>

\* An agent of a parallel walk raises; gather hands its exception over.
NodeRaisesParallel(node) ==
    /\ walk.parallel /\ walk.stage = "run" /\ node \in walk.running
    /\ walk' = [walk EXCEPT !.running = @ \ {node}, !.failed = @ \cup {node}]
    /\ UNCHANGED <<fallback, record, checkpoint, state, verified, early, resumes, crashes, rewalked>>

\* The group is over; the next one begins, whatever failed.
Gathered ==
    /\ walk.parallel /\ walk.stage = "run" /\ walk.running = {}
    /\ record' = IF walk.failed = {} THEN record ELSE [record EXCEPT !.status = "failed"]
    /\ walk' = [walk EXCEPT !.stage = "group", !.failed = {}]
    /\ UNCHANGED <<fallback, checkpoint, state, verified, early, resumes, crashes, rewalked>>

\* The last save, and then mark_run_completed.
LastSave ==
    /\ \/ walk.stage = "end"
       \/ walk.stage = "group" /\ walk.left = <<>>
    /\ checkpoint' = state /\ walk' = [walk EXCEPT !.stage = "summary", !.left = <<>>]
    /\ UNCHANGED <<fallback, record, state, verified, early, resumes, crashes, rewalked>>

MarkRunCompleted ==
    /\ walk.stage = "summary" /\ walk' = NoWalk
    /\ record' = [record EXCEPT !.status = IF state.passed THEN "verified" ELSE "failed"]
    /\ state' = NoState
    /\ UNCHANGED <<fallback, checkpoint, verified, early, resumes, crashes, rewalked>>

\* The process dies, or the user stops it.
Crash ==
    /\ walk.stage # "none" /\ walk' = NoWalk /\ state' = NoState /\ crashes' = crashes + 1
    /\ UNCHANGED <<fallback, record, checkpoint, verified, early, resumes, rewalked>>

\* can_resume asks for a status that is never written.
CanResume == record.retries < MaxRetries /\ record.status # "completed"

\* get_resume_point: the first node that is not completed.
ResumePoint ==
    LET open == {i \in DOMAIN Resumable : Resumable[i] \notin record.completed} IN
    IF open = {} THEN "none" ELSE Resumable[Min(open)]

\* resume_run: the whole graph, where nothing is open; "run --resume" starts
\* another run there.  Only the latter takes --parallel and --fast.
Resume ==
    /\ walk.stage = "none" /\ CanResume /\ resumes < MaxResumes /\ resumes' = resumes + 1
    /\ \E parallel, fast \in BOOLEAN :
          /\ ResumePoint = "none" => ~parallel /\ ~fast
          /\ walk' = Walk(parallel, From(Groups(parallel, fast), parallel, ResumePoint))
          /\ rewalked' = (rewalked \/ (checkpoint.passed /\ "patcher" \notin walk'.skipped))
    /\ state' = checkpoint
    /\ UNCHANGED <<fallback, record, checkpoint, verified, early, crashes>>

Next ==
    \/ StartGroup \/ Save \/ NodeRaises \/ Gathered \/ LastSave \/ MarkRunCompleted
    \/ \E node \in Nodes : NodeReturns(node) \/ NodeRaisesParallel(node)
    \/ Crash \/ Resume

Spec == Init /\ [][Next]_cliVars

----------------------------------------------------------------------------
TypeOK ==
    /\ record.status \in {"running", "failed", "verified"} /\ record.completed \subseteq Nodes
    /\ {state.out, checkpoint.out, walk.running, walk.failed, walk.skipped} \subseteq SUBSET Nodes
    /\ walk.stage \in {"none", "group", "run", "retry", "save", "end", "summary"}
    /\ record.retries \in Nat /\ resumes \in 0 .. MaxResumes

\* What a resumed walk skips was run and is in the state it loads, but for one
\* node for every process that died, the planner, and nodes that a parallel
\* walk had marked before it ran them: the record is written before the
\* checkpoint (_execute_task_graph, get_resume_point).
SkipsWhatRan ==
    Cardinality(walk.skipped \ (state.out \cup early \cup {"planner"})) <= crashes

\* A run is recorded as verified when the verification that ran last passed,
\* and ran after the last patch; only a run that was verified and then walked
\* again may keep the result of the patch before (mark_run_completed).
VerifiedIsFresh == record.status = "verified" => verified \/ rewalked

\* The retries of a run, over all its processes, end one past the limit.
RetriesBounded == record.retries <= MaxRetries + 1

\* A resumed run leaves nothing out, claims nothing it did not verify, and is
\* not retried without end.
ResumeSound == SkipsWhatRan /\ VerifiedIsFresh /\ RetriesBounded
=============================================================================
