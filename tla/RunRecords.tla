----------------------------- MODULE RunRecords -----------------------------
(***************************************************************************)
(* The relational records of one run: the run row, a row for every agent   *)
(* step, patch and verification stage.  The API writes the run row before  *)
(* the job is queued, the worker again when it takes the job, the graph    *)
(* while it walks and when it ends.  Every write is a transaction of its   *)
(* own; the graph goes on when one of its writes fails.  A job whose worker*)
(* died is executed again, by a graph that makes rows of its own.          *)
(***************************************************************************)
EXTENDS Integers, FiniteSets

CONSTANTS
    MaxAttempts,    \* bound on executions of the job
    MaxNodeRetries, \* max_retries of the graph
    MaxFaults       \* bound on writes that fail

VARIABLES
    run,            \* the run row: the organisation it is in, and its status
    steps,          \* step rows: execution, node, status, retry count
    patches,        \* of each execution: patch rows
    verifications,  \* of each execution: rows of its verification
    api,            \* create_run: what it has done
    graph,          \* the execution: its number, stage, node, retries
    faults,         \* writes that failed
    lost            \* executions of which the graph lost a write

recordVars == <<run, steps, patches, verifications, api, graph, faults, lost>>

Attempts == 1 .. MaxAttempts
\* The nodes of the walk that differ in what they record.
Nodes == <<"reproduction", "patcher", "verifier">>
VerificationStages == 5   \* build, test, repro, sast, lint
Final == {"merged", "failed", "rolled_back"}
NoRow == [org |-> "none", status |-> "none"]
Row(status) == [org |-> "own", status |-> status]

Init ==
    /\ run = NoRow /\ steps = {}
    /\ patches = [a \in Attempts |-> 0] /\ verifications = [a \in Attempts |-> 0]
    /\ api = "start"
    /\ graph = [attempt |-> 0, stage |-> "none", node |-> 1, retries |-> 0, left |-> 0]
    /\ faults = 0 /\ lost = {}

----------------------------------------------------------------------------
\* Mutant of RecordRun: a row that is there is left alone.
RecordRunOnce(status) == run' = IF run = NoRow THEN Row(status) ELSE run

\* record_run inserts the row or replaces every column of it.
RecordRun(status) == run' = Row(status)

\* The placeholder that keeps a step, a patch or a stage from being an orphan.
RecordParent == run' = IF run = NoRow THEN [org |-> "default", status |-> "unknown"] ELSE run

Fault == faults < MaxFaults /\ faults' = faults + 1

\* submit_production_run: the row, and then the job; without a row there is
\* no job.
Submit ==
    /\ api = "start"
    /\ \/ RecordRun("queued") /\ api' = "recorded" /\ UNCHANGED faults
       \/ Fault /\ api' = "failed" /\ UNCHANGED run
    /\ UNCHANGED <<steps, patches, verifications, graph, lost>>

Enqueue ==
    /\ api = "recorded" /\ api' = "enqueued"
    /\ UNCHANGED <<run, steps, patches, verifications, graph, faults, lost>>

\* execute_job up to the walk; a failure here fails the execution.  A
\* checkpoint lets a later execution begin where an earlier one was.
Execute ==
    /\ api = "enqueued" /\ graph.stage \in {"none", "dead"} /\ graph.attempt < MaxAttempts
    /\ \/ /\ RecordRun("queued") /\ UNCHANGED faults
          /\ \E node \in IF graph.attempt = 0 THEN {1} ELSE DOMAIN Nodes :
                graph' = [graph EXCEPT !.attempt = @ + 1, !.stage = "node", !.node = node, !.retries = 0]
       \/ /\ Fault /\ UNCHANGED run
          /\ graph' = [graph EXCEPT !.attempt = @ + 1, !.stage = "dead"]
    /\ UNCHANGED <<steps, patches, verifications, api, lost>>

Walks(stage) == graph.stage = stage
Node == Nodes[graph.node]
NextNode(g) ==
    IF g.node = Cardinality(DOMAIN Nodes) THEN [g EXCEPT !.stage = "end"]
    ELSE [g EXCEPT !.stage = "node", !.node = @ + 1, !.retries = 0]

\* A write of the graph: it is made, or it is lost and the walk goes on.
Written(write) ==
    \/ write /\ UNCHANGED <<faults, lost>>
    \/ Fault /\ lost' = lost \cup {graph.attempt} /\ UNCHANGED <<run, steps, patches, verifications>>

\* _record_step: one row for a node of an execution, replaced by its retries.
RecordStep(status) ==
    /\ RecordParent
    /\ steps' = {s \in steps : s.attempt # graph.attempt \/ s.node # Node} \cup
                {[attempt |-> graph.attempt, node |-> Node, status |-> status, retries |-> graph.retries]}
    /\ UNCHANGED <<patches, verifications>>

NodeCompletes ==
    /\ Walks("node") /\ Written(RecordStep("completed"))
    /\ graph' = CASE Node = "patcher" -> [graph EXCEPT !.stage = "patch"]
                  [] Node = "verifier" -> [graph EXCEPT !.stage = "verification", !.left = VerificationStages]
                  [] OTHER -> NextNode(graph)
    /\ UNCHANGED api

\* Retried, unless the tries are used up or the error is that of the last try.
NodeFails ==
    /\ Walks("node") /\ Written(RecordStep("failed"))
    /\ \/ graph.retries < MaxNodeRetries /\ graph' = [graph EXCEPT !.retries = @ + 1]
       \/ (graph.retries > 0 \/ MaxNodeRetries = 0) /\ graph' = [graph EXCEPT !.stage = "failed"]
    /\ UNCHANGED api

\* _record_patch; a walk that waits for an approval leaves without a record.
RecordPatch ==
    /\ Walks("patch")
    /\ Written(/\ RecordParent /\ patches' = [patches EXCEPT ![graph.attempt] = @ + 1]
               /\ UNCHANGED <<steps, verifications>>)
    /\ graph' \in {NextNode(graph), [graph EXCEPT !.stage = "pending"]}
    /\ UNCHANGED api

\* _record_verification_stages: row after row, until a write fails.
RecordVerification ==
    /\ Walks("verification")
    /\ \/ /\ RecordParent /\ verifications' = [verifications EXCEPT ![graph.attempt] = @ + 1]
          /\ graph' = IF graph.left = 1 THEN NextNode([graph EXCEPT !.left = 0]) ELSE [graph EXCEPT !.left = @ - 1]
          /\ UNCHANGED <<steps, patches, faults, lost>>
       \/ /\ Fault /\ lost' = lost \cup {graph.attempt}
          /\ graph' = NextNode([graph EXCEPT !.left = 0])
          /\ UNCHANGED <<run, steps, patches, verifications>>
    /\ UNCHANGED api

\* _record_run at the end of the walk.
Finish ==
    /\ graph.stage \in {"end", "failed"}
    /\ Written(/\ RecordRun(IF graph.stage = "end" THEN "merged" ELSE "failed")
               /\ UNCHANGED <<steps, patches, verifications>>)
    /\ graph' = [graph EXCEPT !.stage = "done"]
    /\ UNCHANGED api

\* The worker dies before the job is acknowledged: it is delivered again,
\* even when the walk was finished.
Die ==
    /\ graph.stage \notin {"none", "dead"} /\ graph' = [graph EXCEPT !.stage = "dead", !.left = 0]
    /\ UNCHANGED <<run, steps, patches, verifications, api, faults, lost>>

\* control_run reads the row and writes it back with another status.
Rollback ==
    /\ run # NoRow /\ graph.attempt > 0 /\ run' = [run EXCEPT !.status = "rolled_back"]
    /\ UNCHANGED <<steps, patches, verifications, api, graph, faults, lost>>

Next ==
    \/ Submit \/ Enqueue \/ Execute \/ NodeCompletes \/ NodeFails \/ RecordPatch
    \/ RecordVerification \/ Finish \/ Die \/ Rollback

Spec == Init /\ [][Next]_recordVars

----------------------------------------------------------------------------
TypeOK ==
    /\ run.org \in {"none", "own", "default"} /\ run.status \in Final \cup {"none", "unknown", "queued"}
    /\ \A s \in steps : s.attempt \in Attempts /\ s.status \in {"completed", "failed"}
    /\ patches \in [Attempts -> Nat] /\ verifications \in [Attempts -> 0 .. VerificationStages]
    /\ graph.attempt \in 0 .. MaxAttempts /\ graph.left \in 0 .. VerificationStages

StepsOf(attempt) == {s \in steps : s.attempt = attempt}
RowsOf(attempt, node) == {s \in StepsOf(attempt) : s.node = node /\ s.status = "completed"}

\* The run row is always in the organisation of the run, never in the one of
\* the placeholder; and what a walk that ended without losing a write leaves
\* is whole and only its own: the final status, one row for every node with
\* its last outcome, one patch for the patcher and every verification stage
\* for the verifier (record_run, _record_step, _record_patch).
RecordsComplete ==
    /\ run = NoRow \/ run.org = "own"
    /\ graph.stage = "done" /\ graph.attempt \notin lost =>
          /\ run.status \in Final
          /\ \A s, t \in StepsOf(graph.attempt) : s.node = t.node => s = t
          /\ patches[graph.attempt] = Cardinality(RowsOf(graph.attempt, "patcher"))
          /\ verifications[graph.attempt] =
                IF RowsOf(graph.attempt, "verifier") # {} THEN VerificationStages ELSE 0
=============================================================================
