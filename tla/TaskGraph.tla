----------------------------- MODULE TaskGraph -----------------------------
(***************************************************************************)
(* One run of the orchestrator: the coroutine(s) of TaskGraph.run walk the *)
(* six agents in order, save a checkpoint after each step and derive the   *)
(* final status, while control requests (pause, resume, step, cancel,      *)
(* rollback, approve_patch) change the same graph between two awaits.      *)
(*                                                                         *)
(* Mode says who owns the graph.  "worker": execute_run_job loads the last *)
(* checkpoint, runs the graph and the job is acknowledged when it returns; *)
(* a crash before that redelivers the job (module JobQueue) to a process   *)
(* that has only the checkpoint.  "async" and "sync": create_run of the    *)
(* API, which keeps the graph in memory and never reads a checkpoint; only *)
(* the asynchronous form registers its task.                               *)
(***************************************************************************)
EXTENDS Integers

CONSTANTS
    Coroutines,     \* slots for calls of graph.run() that may be alive
    Mode,           \* "worker", "async" or "sync"
    Controls,       \* the control requests the environment may send
    AlwaysApprove,  \* the organisation's require_patch_approval
    MaxRetries,     \* max_retries of TaskGraph
    MaxFaults,      \* bound on crashes and on exceptions out of run()
    NoCoroutine, NoCheckpoint

ASSUME CoroutinesAssumption ==
    /\ Coroutines # {} /\ NoCoroutine \notin Coroutines
    /\ Mode = "worker" => \E c \in Coroutines : Coroutines = {c}
ASSUME ModeAssumption == Mode \in {"worker", "async", "sync"}
ASSUME ControlsAssumption ==
    Controls \subseteq {"pause", "resume", "step", "cancel", "rollback", "approve_patch"}
ASSUME BoundsAssumption ==
    MaxRetries \in Nat /\ MaxFaults \in Nat /\ AlwaysApprove \in BOOLEAN

\* NODE_SEQUENCE, by position.
Onboarding == 1
Reproduction == 2
Planner == 3
Patcher == 4
Verifier == 5
Reviewer == 6
Nodes == Onboarding .. Reviewer
Past == Reviewer + 1

\* STATUS_NODE_MAP.
NodeStatus == <<"onboarding", "reproducing", "planning", "patching",
                "verifying", "evidence_review">>

RunStatus == {NodeStatus[n] : n \in Nodes} \cup
    {"queued", "conflict_resolution", "security_hold", "pending_approval",
     "merged", "failed", "rolled_back", "cancelled"}

Verdicts == {"auto_merge", "human_review", "reject", "security_hold"}
Passing == {"auto_merge", "human_review"}

\* OrchestratorState, cut down to what the control flow reads.  "fresh" and
\* "needed" are history variables: the verdict is about the current patch;
\* the current patch required an approval.
RunState == [status: RunStatus,
             nodes: [Nodes -> {"pending", "running", "completed", "failed"}],
             passed: BOOLEAN, decision: Verdicts \cup {"none"},
             conflict: BOOLEAN, held: BOOLEAN, approved: BOOLEAN,
             overBudget: BOOLEAN, fresh: BOOLEAN, needed: BOOLEAN]

NewState == [status |-> "queued", nodes |-> [n \in Nodes |-> "pending"],
             passed |-> FALSE, decision |-> "none", conflict |-> FALSE,
             held |-> FALSE, approved |-> FALSE, overBudget |-> FALSE,
             fresh |-> FALSE, needed |-> FALSE]

VARIABLES
    st,         \* state: the OrchestratorState of the live graph
    disk,       \* the checkpoint file of the run
    paused, cancelled, stepMode,    \* is_paused, is_cancelled, step_mode
    pc, pos, attempt,   \* of each coroutine: stage, node, retries used
    task,       \* run_entry["task"], or NoCoroutine
    job,        \* "queued", "executing", "returned" or "acked"
    faults

flags == <<paused, cancelled, stepMode>>
vars == <<st, disk, flags, pc, pos, attempt, task, job, faults>>

Stages == {"idle", "boundary", "paused", "agent", "backoff", "finish", "flushing"}

Init ==
    /\ st = NewState /\ disk = NoCheckpoint
    /\ paused = FALSE /\ cancelled = FALSE /\ stepMode = FALSE
    /\ pc = [c \in Coroutines |-> "idle"]
    /\ pos = [c \in Coroutines |-> Onboarding]
    /\ attempt = [c \in Coroutines |-> 0]
    /\ task = NoCoroutine /\ job = "queued" /\ faults = 0

----------------------------------------------------------------------------
(* The event loop runs one coroutine at a time, from await to await.       *)

\* c waits in an await: everything but the reviewer's execute suspends.
Suspended(c) ==
    \/ pc[c] \in {"idle", "paused", "backoff", "flushing"}
    \/ pc[c] = "agent" /\ pos[c] # Reviewer

\* c may run: no other coroutine is between two awaits.
Scheduled(c) == \A d \in Coroutines \ {c} : Suspended(d)
Quiet == \A d \in Coroutines : Suspended(d)

Goto(c, stage) == pc' = [pc EXCEPT ![c] = stage]

\* state.save_checkpoint of the state s the step leaves behind.
Save(s) == st' = s /\ disk' = s
Keep(s) == st' = s /\ UNCHANGED disk

----------------------------------------------------------------------------
(* Starting the graph.                                                     *)

\* _resume_node: the first node the checkpoint does not show completed, or
\* the whole sequence when it shows all of them completed.
ResumeNode(s) ==
    LET open == {n \in Nodes : s.nodes[n] # "completed"} IN
    IF open = {} THEN Onboarding
    ELSE CHOOSE n \in open : \A k \in open : n <= k

\* A call of run(resume_from): QUEUED, then the first loop boundary.
Launch(c, from, s) ==
    /\ Keep([s EXCEPT !.status = "queued"])
    /\ Goto(c, "boundary")
    /\ pos' = [pos EXCEPT ![c] = from]
    /\ attempt' = [attempt EXCEPT ![c] = 0]

\* execute_run_job on a delivered job: a new graph over the loaded state.
ExecuteJob(c) ==
    /\ Mode = "worker" /\ job = "queued" /\ pc[c] = "idle"
    /\ job' = "executing"
    /\ paused' = FALSE /\ cancelled' = FALSE /\ stepMode' = FALSE
    /\ IF disk = NoCheckpoint
       THEN Launch(c, Onboarding, NewState)
       ELSE Launch(c, ResumeNode(disk), disk)
    /\ UNCHANGED <<task, faults>>

\* Mutant of CreateRun: create_run does not register the task.
CreateRunUnregistered(c) ==
    /\ Mode # "worker" /\ job = "queued"
    /\ job' = "executing"
    /\ Launch(c, Onboarding, st)
    /\ UNCHANGED <<task, flags, faults>>

\* create_run of the API; only async_mode registers the task.
CreateRun(c) ==
    /\ Mode # "worker" /\ job = "queued"
    /\ job' = "executing"
    /\ Launch(c, Onboarding, st)
    /\ task' = IF Mode = "async" THEN c ELSE NoCoroutine
    /\ UNCHANGED <<flags, faults>>

----------------------------------------------------------------------------
(* The loop of run(), up to the await of the agent.                        *)

\* budget.check_limits raises at the top of the loop.
BudgetExceeded(c) ==
    /\ pc[c] = "boundary" /\ Scheduled(c)
    /\ Keep([st EXCEPT !.status = "failed", !.overBudget = TRUE])
    /\ Goto(c, "finish")
    /\ UNCHANGED <<flags, pos, attempt, task, job, faults>>

\* Mutant of SeeCancelled: The wait for a resume does not look at is_cancelled.
SeeCancelledAtBoundary(c) ==
    /\ pc[c] = "boundary" /\ Scheduled(c)
    /\ cancelled
    /\ Goto(c, "finish")
    /\ UNCHANGED <<st, disk, flags, pos, attempt, task, job, faults>>

SeeCancelled(c) ==
    /\ pc[c] \in {"boundary", "paused"} /\ Scheduled(c)
    /\ cancelled
    /\ Goto(c, "finish")
    /\ UNCHANGED <<st, disk, flags, pos, attempt, task, job, faults>>

SeePaused(c) ==
    /\ pc[c] = "boundary" /\ Scheduled(c)
    /\ paused /\ ~cancelled
    /\ Goto(c, "paused")
    /\ UNCHANGED <<st, disk, flags, pos, attempt, task, job, faults>>

\* An attempt at node n: running, current, saved; then the agent's await.
StartAttempt(c, s) ==
    /\ Save([s EXCEPT !.nodes[pos[c]] = "running"])
    /\ Goto(c, "agent")

StartNode(c) ==
    /\ pc[c] \in {"boundary", "paused"} /\ Scheduled(c)
    /\ ~cancelled /\ ~paused
    /\ StartAttempt(c, [st EXCEPT !.status = NodeStatus[pos[c]]])
    /\ attempt' = [attempt EXCEPT ![c] = 0]
    /\ UNCHANGED <<flags, pos, task, job, faults>>

BackoffEnds(c) ==
    /\ pc[c] = "backoff" /\ Scheduled(c)
    /\ StartAttempt(c, st)
    /\ attempt' = [attempt EXCEPT ![c] = @ + 1]
    /\ UNCHANGED <<flags, pos, task, job, faults>>

----------------------------------------------------------------------------
(* What the agents return.                                                 *)

Completed(c, s) == [s EXCEPT !.nodes[pos[c]] = "completed"]

\* The tail of a successful iteration: save, step mode, next node or out of
\* the loop.
NextNode(c, s) ==
    /\ Save(s)
    /\ paused' = (paused \/ stepMode)
    /\ stepMode' = FALSE
    /\ pos' = [pos EXCEPT ![c] = @ + 1]
    /\ Goto(c, IF pos[c] = Reviewer THEN "finish" ELSE "boundary")
    /\ UNCHANGED <<cancelled, attempt, task, job, faults>>

Returning(c, n) == pc[c] = "agent" /\ pos[c] = n /\ Scheduled(c)

AgentReturns(c) ==
    /\ \E n \in {Onboarding, Reproduction, Planner, Reviewer} : Returning(c, n)
    /\ NextNode(c, Completed(c, st))

\* The onboarding and reproduction guards reject a completed node.
GuardFails(c) ==
    /\ \E n \in {Onboarding, Reproduction} : Returning(c, n)
    /\ Keep([Completed(c, st) EXCEPT !.status = "failed"])
    /\ Goto(c, "finish")
    /\ UNCHANGED <<flags, pos, attempt, task, job, faults>>

\* The commit gateway refuses the patch.
PatchHeld(c) ==
    /\ Returning(c, Patcher)
    /\ Keep([Completed(c, st) EXCEPT !.status = "security_hold", !.held = TRUE,
                !.decision = "security_hold", !.fresh = FALSE])
    /\ Goto(c, "finish")
    /\ UNCHANGED <<flags, pos, attempt, task, job, faults>>

\* A patch the gateway allows; it may not apply, and is_approval_required
\* asks for an approval by policy or by the risk of the diff.
Patched(c, conflict, needed) ==
    [Completed(c, st) EXCEPT !.held = FALSE, !.conflict = conflict,
        !.needed = needed, !.fresh = FALSE]

PatchReady(c) ==
    /\ Returning(c, Patcher)
    /\ \E conflict \in BOOLEAN, needed \in {AlwaysApprove, TRUE} :
          /\ ~needed \/ st.approved
          /\ NextNode(c, Patched(c, conflict, needed))

\* run() returns: the worker's job is done, the API's task or request is.
Leave(c) ==
    /\ Goto(c, "idle")
    /\ job' = IF Mode = "worker" THEN "returned" ELSE job

\* Mutant of PatchPending: PENDING_APPROVAL is reported and the loop goes on.
PendingGoesOn(c) ==
    /\ Returning(c, Patcher)
    /\ ~st.approved
    /\ NextNode(c, [Patched(c, FALSE, TRUE) EXCEPT !.status = "pending_approval"])

PatchPending(c) ==
    /\ Returning(c, Patcher)
    /\ ~st.approved
    /\ \E conflict \in BOOLEAN :
          Save([Patched(c, conflict, TRUE) EXCEPT !.status = "pending_approval"])
    /\ paused' = TRUE
    /\ Leave(c)
    /\ UNCHANGED <<cancelled, stepMode, pos, attempt, task, faults>>

VerifierReturns(c) ==
    /\ Returning(c, Verifier)
    /\ \E v \in Verdicts :
          NextNode(c, [Completed(c, st) EXCEPT !.decision = v,
                          !.passed = v \in Passing, !.fresh = TRUE])

\* The agent raises.  A second identical error (error signature) or the last
\* attempt fails the run, since both callers' error_cb return None; the
\* patcher may already have replaced the patch.
Raised(c) ==
    IF pos[c] = Patcher
    THEN {[st EXCEPT !.nodes[Patcher] = "failed", !.fresh = FALSE, !.held = h] :
             h \in {FALSE, st.held}}
    ELSE {[st EXCEPT !.nodes[pos[c]] = "failed"]}

AgentFails(c) ==
    /\ pc[c] = "agent" /\ Scheduled(c)
    /\ \E s \in Raised(c) :
          \/ /\ attempt[c] > 0 \/ attempt[c] >= MaxRetries
             /\ Keep([s EXCEPT !.status = "failed"])
             /\ Goto(c, "finish")
          \/ /\ attempt[c] < MaxRetries
             /\ Keep(s)
             /\ Goto(c, "backoff")
    /\ UNCHANGED <<flags, pos, attempt, task, job, faults>>

----------------------------------------------------------------------------
(* The end of run().                                                       *)

\* compute_merge_decision: the decision behind "auto_merge".
AutoMerge(s) ==
    s.passed /\ s.decision = "auto_merge" /\ ~s.conflict

\* Mutant of FinalStatus: The final status is derived also for a run that already failed
\* or was rolled back.
FinalStatusAlwaysDerived(s) ==
    IF cancelled THEN "cancelled"
    ELSE IF s.decision = "security_hold" THEN "security_hold"
    ELSE IF s.conflict THEN "conflict_resolution"
    ELSE IF ~s.passed \/ s.decision = "reject" THEN "failed"
    ELSE IF AutoMerge(s) THEN "merged" ELSE "evidence_review"

\* Mutant of FinalStatus: The final status is derived without a look at is_cancelled.
FinalStatusForgetsCancel(s) ==
    CASE s.status \in {"failed", "rolled_back", "cancelled"} -> s.status
      [] OTHER -> IF AutoMerge(s) THEN "merged" ELSE "evidence_review"

FinalStatus(s) ==
    CASE s.status \in {"failed", "rolled_back", "cancelled"} -> s.status
      [] OTHER ->
         IF cancelled THEN "cancelled"
         ELSE IF s.overBudget THEN "failed"
         ELSE IF s.decision = "security_hold" THEN "security_hold"
         ELSE IF s.conflict THEN "conflict_resolution"
         ELSE IF ~s.passed \/ s.decision = "reject" THEN "failed"
         ELSE IF AutoMerge(s) THEN "merged"
         ELSE "evidence_review"

Finish(c) ==
    /\ pc[c] = "finish" /\ Scheduled(c)
    /\ Save([st EXCEPT !.status = FinalStatus(st)])
    /\ Goto(c, "flushing")
    /\ UNCHANGED <<flags, pos, attempt, task, job, faults>>

\* The pending webhooks are awaited, then run() returns.
Flushed(c) ==
    /\ pc[c] = "flushing" /\ Scheduled(c)
    /\ Leave(c)
    /\ UNCHANGED <<st, disk, flags, pos, attempt, task, faults>>

\* resolve_model or get_adapter raise out of run(): the worker saves and the
\* job goes back to the queue, the API's coroutine is gone.
StartRaises(c) ==
    /\ pc[c] \in {"boundary", "paused"} /\ Scheduled(c)
    /\ ~cancelled /\ ~paused /\ faults < MaxFaults
    /\ LET s == [st EXCEPT !.status = NodeStatus[pos[c]]] IN
          IF Mode = "worker" THEN Save(s) ELSE Keep(s)
    /\ Goto(c, "idle")
    /\ job' = IF Mode = "worker" THEN "queued" ELSE job
    /\ faults' = faults + 1
    /\ UNCHANGED <<flags, pos, attempt, task>>

----------------------------------------------------------------------------
(* The worker around the graph.                                            *)

\* The watchdog finds a hard limit reached, once a second.
Watchdog ==
    /\ Mode = "worker" /\ job = "executing" /\ Quiet
    /\ ~st.overBudget
    /\ Keep([st EXCEPT !.overBudget = TRUE])
    /\ cancelled' = TRUE /\ paused' = FALSE
    /\ UNCHANGED <<stepMode, pc, pos, attempt, task, job, faults>>

Ack ==
    /\ job = "returned"
    /\ job' = "acked"
    /\ UNCHANGED <<st, disk, flags, pc, pos, attempt, task, faults>>

\* The process dies at any point before the acknowledgement; only the
\* checkpoint is left and the job is delivered again.
Crash ==
    /\ Mode = "worker" /\ job \in {"executing", "returned"}
    /\ faults < MaxFaults
    /\ st' = NewState
    /\ paused' = FALSE /\ cancelled' = FALSE /\ stepMode' = FALSE
    /\ pc' = [c \in Coroutines |-> "idle"]
    /\ job' = "queued"
    /\ faults' = faults + 1
    /\ UNCHANGED <<disk, pos, attempt, task>>

----------------------------------------------------------------------------
(* control_run of the API, and control_loop of the worker, which knows the *)
(* first four requests only.                                               *)

Requested(action) == action \in Controls /\ job = "executing" /\ Quiet

Pause ==
    /\ Requested("pause")
    /\ paused' = TRUE
    /\ UNCHANGED <<st, disk, cancelled, stepMode, pc, pos, attempt, task, job, faults>>

Resume ==
    /\ Requested("resume")
    /\ paused' = FALSE /\ stepMode' = FALSE
    /\ UNCHANGED <<st, disk, cancelled, pc, pos, attempt, task, job, faults>>

StepOver ==
    /\ Requested("step")
    /\ paused' = FALSE /\ stepMode' = TRUE
    /\ UNCHANGED <<st, disk, cancelled, pc, pos, attempt, task, job, faults>>

Cancel ==
    /\ Requested("cancel")
    /\ cancelled' = TRUE /\ paused' = FALSE
    /\ UNCHANGED <<st, disk, stepMode, pc, pos, attempt, task, job, faults>>

\* The snapshot the patcher took is restored.
Rollback ==
    /\ Requested("rollback") /\ Mode # "worker"
    /\ st.nodes[Patcher] # "pending"
    /\ Keep([st EXCEPT !.status = "rolled_back"])
    /\ UNCHANGED <<flags, pc, pos, attempt, task, job, faults>>

\* The registered task is absent or done: run(resume_from="verifier") is
\* started; create_task runs it at the next turn of the loop, in which
\* nothing else of the model moves, so its first step is folded in.
ApprovePatch ==
    /\ Requested("approve_patch") /\ Mode # "worker"
    /\ paused' = FALSE /\ stepMode' = FALSE
    /\ LET s == [st EXCEPT !.approved = TRUE, !.status = "verifying"] IN
       IF task = NoCoroutine \/ (task # NoCoroutine /\ pc[task] = "idle")
       THEN \E c \in Coroutines :
               /\ pc[c] = "idle"
               /\ Launch(c, Verifier, s)
               /\ task' = c
       ELSE Keep(s) /\ UNCHANGED <<pc, pos, attempt, task>>
    /\ UNCHANGED <<cancelled, job, faults>>

Control == Pause \/ Resume \/ StepOver \/ Cancel \/ Rollback \/ ApprovePatch

Advance(c) ==
    \/ ExecuteJob(c) \/ CreateRun(c)
    \/ BudgetExceeded(c) \/ SeeCancelled(c) \/ SeePaused(c) \/ StartNode(c)
    \/ BackoffEnds(c) \/ AgentReturns(c) \/ GuardFails(c) \/ PatchHeld(c)
    \/ PatchReady(c) \/ PatchPending(c) \/ VerifierReturns(c) \/ AgentFails(c)
    \/ Finish(c) \/ Flushed(c)

Next ==
    \/ \E c \in Coroutines : Advance(c) \/ StartRaises(c)
    \/ Watchdog \/ Ack \/ Crash \/ Control

Spec == Init /\ [][Next]_vars

\* asyncio runs a ready coroutine, an agent's call returns (its tool and
\* model calls have timeouts), a sleep ends, and the queue redelivers.
Fairness ==
    /\ \A c \in Coroutines : WF_vars(Advance(c))
    /\ WF_vars(Ack)
FairSpec == Spec /\ Fairness

----------------------------------------------------------------------------
(* Properties.                                                             *)

Active == {c \in Coroutines : pc[c] # "idle"}
Started(n) == \E c \in Coroutines :
    pc[c] # "agent" /\ pc'[c] = "agent" /\ pos[c] = n

TypeOK ==
    /\ st \in RunState /\ disk \in RunState \cup {NoCheckpoint}
    /\ paused \in BOOLEAN /\ cancelled \in BOOLEAN /\ stepMode \in BOOLEAN
    /\ pc \in [Coroutines -> Stages]
    /\ pos \in [Coroutines -> Nodes \cup {Past}]
    /\ attempt \in [Coroutines -> 0 .. MaxRetries]
    /\ task \in Coroutines \cup {NoCoroutine}
    /\ job \in {"queued", "executing", "returned", "acked"}
    /\ faults \in 0 .. MaxFaults
    \* Past is reached only out of the loop, a backoff leaves a retry to use.
    /\ \A c \in Coroutines :
          /\ pos[c] = Past => pc[c] \in {"finish", "flushing", "idle"}
          /\ pc[c] = "backoff" => attempt[c] < MaxRetries

\* A run is MERGED, live or in its checkpoint, only on a passing auto-merge
\* verdict about the very patch it carries, and never on a patch that did
\* not apply: retries, redeliveries and resumptions never leave the verdict
\* of an older patch in place (task_graph.py, final status of run()).
MergedIsVerified(s) ==
    s.status = "merged" =>
        /\ s.passed /\ s.decision = "auto_merge" /\ ~s.conflict
        /\ s.fresh /\ s.nodes[Verifier] = "completed"
MergedOnlyVerified ==
    /\ MergedIsVerified(st)
    /\ disk # NoCheckpoint => MergedIsVerified(disk)

\* A node starts only after every earlier node completed: whatever the
\* worker resumes from, no agent works on the output of one that failed
\* (_resume_node and the failure exits of run()).
StartsInOrder ==
    \A n \in Nodes :
        Started(n) => \A k \in 1 .. n - 1 : st.nodes[k] = "completed"
NodesInOrder == [][StartsInOrder]_vars

\* A patch that requires an approval is verified only once approve_patch was
\* received (is_approval_required and the PENDING_APPROVAL exit).  True of the
\* API's graph; a worker that resumes after a crash walks past the gate.
ApprovalGate == [][Started(Verifier) /\ st.needed => st.approved]_vars

\* With a registered task a run is never walked by two coroutines at once:
\* approve_patch starts one only when the last is done (control_run).
OnePipeline == \A c, d \in Active : c = d

\* A cancelled run does not become MERGED, whenever the request arrives, also
\* between the last agent and the final status.
CancelledNotMerged ==
    [][cancelled /\ st.status # "merged" => st'.status # "merged"]_vars

\* A rollback outlasts the pipeline once that has no node left to start: the
\* final status does not replace it, and only an approval that comes later
\* starts the run again.  Before that the next node, or the failure of the one
\* that runs, assigns run_status and the rollback is forgotten (control_run,
\* final status of run()).
RollbackStands ==
    [][st.status = "rolled_back" /\ (\A c \in Active : pc[c] \in {"finish", "flushing"})
        => st'.status \in {"rolled_back", "queued", "verifying"}]_vars

\* A cancelled pipeline comes to rest, also one that was paused or backing off.
CancelStops == cancelled ~> (~cancelled \/ Active = {})

\* Every job that is taken up is acknowledged in the end, unless it is held
\* by a pause, whatever is retried, rejected, cancelled or redelivered.
JobSettles == (job = "executing") ~> (job = "acked" \/ paused)

\* Pipelines and jobs come to rest.
RunsSettle == CancelStops /\ JobSettles
=============================================================================
