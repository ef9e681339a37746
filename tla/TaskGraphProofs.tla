-------------------------- MODULE TaskGraphProofs --------------------------
(***************************************************************************)
(* Proofs about TaskGraph, for every number of coroutine slots, retries    *)
(* and faults and every set of control requests: a run is MERGED only on a *)
(* fresh passing verdict, one coroutine walks the graph at a time, the     *)
(* worker starts its nodes in order, and the API's walk waits for the      *)
(* approval its patch requires.                                            *)
(*                                                                         *)
(* The synchronous create_run is excluded (Mode # "sync"): it registers no *)
(* task, approve_patch starts a second walk beside it and the facts fail.  *)
(***************************************************************************)
EXTENDS TaskGraph, TLAPS

\* The positions are numbers to every proof below.
USE DEF Nodes, Past, Onboarding, Reproduction, Planner, Patcher, Verifier, Reviewer

Working == {"boundary", "paused", "agent", "backoff"}
Done(s, n) == s.nodes[n] = "completed"

\* At most one coroutine is alive; the API's is the registered task, and a
\* run not yet created has its initial state.
Single ==
    /\ \A c, d \in Coroutines : pc[c] # "idle" /\ pc[d] # "idle" => c = d
    /\ Mode = "async" => \A c \in Coroutines : pc[c] # "idle" => task = c
    /\ job = "queued" => \A c \in Coroutines : pc[c] = "idle"
    /\ Mode = "async" /\ job = "queued" => st = NewState

\* A state a worker may resume from: when all that is left is the reviewer,
\* the verdict is about the current patch.
Resumable(s) ==
    Done(s, Verifier) /\ ~Done(s, Reviewer) =>
        s.fresh /\ \A n \in Onboarding .. Patcher : Done(s, n)

\* Where a coroutine stands says what has been established.
Walk(c) ==
    /\ pc[c] \in Working \cup {"finish"} => st.status # "merged"
    /\ pc[c] \in Working => pos[c] \in Nodes
    /\ pc[c] \in Working /\ pos[c] = Reviewer => st.fresh /\ Done(st, Verifier)
    /\ pc[c] \in Working /\ pos[c] <= Patcher =>
          (Done(st, Verifier) => Done(st, Reviewer))
    /\ pc[c] \in Working /\ Mode = "worker" =>
          \A n \in Nodes : n < pos[c] => Done(st, n)
    /\ pc[c] = "finish" =>
          \/ st.status \in {"failed", "rolled_back", "cancelled"}
          \/ cancelled
          \/ st.decision = "security_hold"
          \/ st.fresh /\ Done(st, Verifier)

IInv ==
    /\ TypeOK
    /\ Single
    /\ \A c \in Coroutines : Walk(c)
    /\ MergedIsVerified(st)
    /\ disk # NoCheckpoint => MergedIsVerified(disk)
    /\ Mode = "worker" => Resumable(st)
    /\ Mode = "worker" /\ disk # NoCheckpoint => Resumable(disk)

----------------------------------------------------------------------------
(* Types.                                                                  *)

\* What every assignment to the state is made of stays a RunState.
LEMMA StateUpdates ==
    ASSUME NEW s \in RunState
    PROVE  /\ \A x \in RunStatus : [s EXCEPT !.status = x] \in RunState
           /\ \A n \in Nodes, x \in {"pending", "running", "completed", "failed"} :
                 [s EXCEPT !.nodes[n] = x] \in RunState
           /\ [s EXCEPT !.overBudget = TRUE] \in RunState
           /\ [s EXCEPT !.approved = TRUE] \in RunState
           /\ \A x, y, z \in BOOLEAN :
                 [s EXCEPT !.held = x, !.fresh = y] \in RunState
           /\ s.status \in RunStatus /\ s.nodes \in [Nodes -> {"pending", "running", "completed", "failed"}]
BY DEF RunState

\* The state of a new run is a RunState.
LEMMA NewStateType == NewState \in RunState
BY DEF NewState, RunState, RunStatus, NodeStatus, Nodes, Onboarding, Reviewer

\* Every status a step writes is a RunStatus, and no node's status is MERGED.
LEMMA StatusNames ==
    /\ \A n \in Nodes : NodeStatus[n] \in RunStatus /\ NodeStatus[n] # "merged"
    /\ {"queued", "conflict_resolution", "security_hold", "pending_approval",
        "merged", "failed", "rolled_back", "cancelled", "verifying",
        "evidence_review"} \subseteq RunStatus
BY DEF RunStatus, NodeStatus, Nodes, Onboarding, Reviewer


\* A patched state and a state after a raised exception are states.
LEMMA PatchedType ==
    ASSUME TypeOK, NEW c \in Coroutines, pos[c] = Patcher,
           NEW x \in BOOLEAN, NEW y \in BOOLEAN
    PROVE  Patched(c, x, y) \in RunState
<1>0. pos[c] \in Nodes
  BY DEF Nodes, Onboarding, Patcher, Reviewer
<1>1. Completed(c, st) \in RunState
  BY <1>0, StateUpdates DEF TypeOK, Completed
<1> QED
  BY <1>1 DEF Patched, RunState

\* A state after a raised exception is a RunState.
LEMMA RaisedType ==
    ASSUME TypeOK, NEW c \in Coroutines, pc[c] = "agent"
    PROVE  Raised(c) \subseteq RunState
<1>1. pos[c] \in Nodes
  BY DEF TypeOK
<1>2. [st EXCEPT !.nodes[pos[c]] = "failed"] \in RunState
  BY <1>1, StateUpdates DEF TypeOK
<1>3. st.held \in BOOLEAN
  BY DEF TypeOK, RunState
<1>4. CASE pos[c] = Patcher
  <2>1. \A h \in BOOLEAN :
           [st EXCEPT !.nodes[Patcher] = "failed", !.fresh = FALSE, !.held = h] \in RunState
    BY <1>2, <1>4 DEF RunState
  <2> QED
    BY <1>3, <1>4, <2>1 DEF Raised
<1> QED
  BY <1>2, <1>4 DEF Raised

\* The tail of an iteration keeps the types.
LEMMA NextNodeType ==
    ASSUME TypeOK, NEW c \in Coroutines, NEW s \in RunState,
           pc[c] = "agent", NextNode(c, s)
    PROVE  TypeOK'
<1> USE DEF TypeOK, NextNode, Save, Goto
<1>1. st' \in RunState /\ disk' \in RunState \cup {NoCheckpoint}
  OBVIOUS
<1>2. paused' \in BOOLEAN /\ cancelled' \in BOOLEAN /\ stepMode' \in BOOLEAN
  OBVIOUS
<1>3. pc' \in [Coroutines -> Stages]
  BY DEF Stages
<1>4. pos[c] \in Nodes
  BY DEF Nodes, Past, Onboarding, Reviewer
<1>5. pos' \in [Coroutines -> Nodes \cup {Past}]
  BY <1>4 DEF Nodes, Past, Onboarding, Reviewer
<1>6. \A d \in Coroutines :
         /\ pos'[d] = Past => pc'[d] \in {"finish", "flushing", "idle"}
         /\ pc'[d] = "backoff" => attempt'[d] < MaxRetries
  BY <1>4 DEF Nodes, Past, Onboarding, Reviewer, Stages
<1> QED
  BY <1>1, <1>2, <1>3, <1>5, <1>6

\* So does a call of run().
LEMMA LaunchType ==
    ASSUME TypeOK, NEW c \in Coroutines, NEW s \in RunState,
           NEW from \in Nodes, Launch(c, from, s)
    PROVE  /\ st' \in RunState /\ disk' \in RunState \cup {NoCheckpoint}
           /\ pc' \in [Coroutines -> Stages]
           /\ pos' \in [Coroutines -> Nodes \cup {Past}]
           /\ attempt' \in [Coroutines -> 0 .. MaxRetries]
           /\ \A d \in Coroutines :
                 /\ pos'[d] = Past => pc'[d] \in {"finish", "flushing", "idle"}
                 /\ pc'[d] = "backoff" => attempt'[d] < MaxRetries
<1> USE DEF TypeOK, Launch, Keep, Goto
<1>1. st' \in RunState
  BY StateUpdates, StatusNames
<1>2. pc' \in [Coroutines -> Stages]
  BY DEF Stages
<1>3. from # Past
  BY DEF Nodes, Past, Onboarding, Reviewer
<1>4. attempt' \in [Coroutines -> 0 .. MaxRetries]
  BY BoundsAssumption
<1>5. \A d \in Coroutines :
         /\ pos'[d] = Past => pc'[d] \in {"finish", "flushing", "idle"}
         /\ pc'[d] = "backoff" => attempt'[d] < MaxRetries
  BY <1>3 DEF Stages
<1> QED
  BY <1>1, <1>2, <1>4, <1>5

\* What the loop resumes from is a node.
LEMMA ResumeNodeIsNode ==
    ASSUME NEW s \in RunState
    PROVE  /\ ResumeNode(s) \in Nodes
           /\ \A n \in Nodes : n < ResumeNode(s) => Done(s, n)
           /\ (\A n \in Nodes : Done(s, n)) \/ ~Done(s, ResumeNode(s))
<1> DEFINE open == {n \in Nodes : s.nodes[n] # "completed"}
<1>1. CASE open = {}
  BY <1>1 DEF ResumeNode, Done, Nodes, Onboarding, Reviewer
<1>2. CASE open # {}
  <2>1. \E n \in open : \A k \in open : n <= k
    BY <1>2 DEF Nodes, Onboarding, Reviewer
  <2>2. ResumeNode(s) \in open /\ \A k \in open : ResumeNode(s) <= k
    BY <1>2, <2>1 DEF ResumeNode
  <2>3. \A n \in Nodes : n < ResumeNode(s) => n \notin open
    BY <2>2 DEF Nodes, Onboarding, Reviewer
  <2> QED
    BY <2>2, <2>3 DEF Done
<1> QED
  BY <1>1, <1>2

\* Every step keeps the types.
LEMMA TypeStep == TypeOK /\ [Next]_vars => TypeOK'
<1> SUFFICES ASSUME TypeOK, [Next]_vars PROVE TypeOK'
  OBVIOUS
<1> USE DEF flags
<1>1. ASSUME NEW c \in Coroutines, BudgetExceeded(c) PROVE TypeOK'
  <2>1. st' \in RunState
    BY <1>1, StatusNames, NewStateType DEF TypeOK, RunState, Verdicts, Passing,
       BudgetExceeded, Keep, Goto
  <2>2. disk' \in RunState \cup {NoCheckpoint}
    BY <1>1, <2>1 DEF TypeOK, BudgetExceeded, Keep, Goto
  <2> QED
    BY <1>1, <2>1, <2>2, BoundsAssumption DEF TypeOK, Stages,
       BudgetExceeded, Keep, Goto
<1>2. ASSUME NEW c \in Coroutines, SeeCancelled(c) PROVE TypeOK'
  BY <1>2 DEF TypeOK, Stages, SeeCancelled, Goto
<1>3. ASSUME NEW c \in Coroutines, SeePaused(c) PROVE TypeOK'
  BY <1>3 DEF TypeOK, Stages, SeePaused, Goto
<1>4. ASSUME NEW c \in Coroutines, StartNode(c) PROVE TypeOK'
  <2>1. st' \in RunState
    BY <1>4, StatusNames, NewStateType DEF TypeOK, RunState, Verdicts, Passing,
       StartNode, StartAttempt, Save, Goto
  <2>2. disk' \in RunState \cup {NoCheckpoint}
    BY <1>4, <2>1 DEF TypeOK, StartNode, StartAttempt, Save, Goto
  <2> QED
    BY <1>4, <2>1, <2>2, BoundsAssumption DEF TypeOK, Stages, StartNode,
       StartAttempt, Save, Goto
<1>5. ASSUME NEW c \in Coroutines, BackoffEnds(c) PROVE TypeOK'
  <2>1. st' \in RunState
    BY <1>5, StatusNames, NewStateType DEF TypeOK, RunState, Verdicts, Passing,
       BackoffEnds, StartAttempt, Save, Goto
  <2>2. disk' \in RunState \cup {NoCheckpoint}
    BY <1>5, <2>1 DEF TypeOK, BackoffEnds, StartAttempt, Save, Goto
  <2> QED
    BY <1>5, <2>1, <2>2, BoundsAssumption DEF TypeOK, Stages, BackoffEnds,
       StartAttempt, Save, Goto
<1>6. ASSUME NEW c \in Coroutines, AgentReturns(c) PROVE TypeOK'
  <2>1. Completed(c, st) \in RunState
    BY <1>6, StateUpdates DEF TypeOK, AgentReturns, Returning, Completed
  <2> QED
    BY <1>6, <2>1, NextNodeType DEF AgentReturns, Returning
<1>7. ASSUME NEW c \in Coroutines, GuardFails(c) PROVE TypeOK'
  <2>1. st' \in RunState
    BY <1>7, StatusNames, NewStateType DEF TypeOK, RunState, Verdicts, Passing,
       GuardFails, Returning, Completed, Keep, Goto
  <2>2. disk' \in RunState \cup {NoCheckpoint}
    BY <1>7, <2>1 DEF TypeOK, GuardFails, Returning, Completed, Keep, Goto
  <2> QED
    BY <1>7, <2>1, <2>2, BoundsAssumption DEF TypeOK, Stages, GuardFails,
       Returning, Completed, Keep, Goto
<1>8. ASSUME NEW c \in Coroutines, PatchHeld(c) PROVE TypeOK'
  <2>1. st' \in RunState
    BY <1>8, StatusNames, NewStateType DEF TypeOK, RunState, Verdicts, Passing,
       PatchHeld, Returning, Completed, Keep, Goto
  <2>2. disk' \in RunState \cup {NoCheckpoint}
    BY <1>8, <2>1 DEF TypeOK, PatchHeld, Returning, Completed, Keep, Goto
  <2> QED
    BY <1>8, <2>1, <2>2, BoundsAssumption DEF TypeOK, Stages, PatchHeld,
       Returning, Completed, Keep, Goto
<1>9. ASSUME NEW c \in Coroutines, PatchReady(c) PROVE TypeOK'
  <2>1. PICK conflict \in BOOLEAN, needed \in {AlwaysApprove, TRUE} :
                NextNode(c, Patched(c, conflict, needed))
    BY <1>9 DEF PatchReady
  <2>2. Patched(c, conflict, needed) \in RunState
    BY PatchedType, BoundsAssumption, <1>9 DEF PatchReady, Returning
  <2> QED
    BY <1>9, <2>1, <2>2, NextNodeType DEF PatchReady, Returning
<1>10. ASSUME NEW c \in Coroutines, PatchPending(c) PROVE TypeOK'
  <2>1. PICK conflict \in BOOLEAN :
                Save([Patched(c, conflict, TRUE) EXCEPT !.status = "pending_approval"])
    BY <1>10 DEF PatchPending
  <2>2. Patched(c, conflict, TRUE) \in RunState
    BY PatchedType, <1>10 DEF PatchPending, Returning
  <2>3. st' \in RunState /\ disk' \in RunState
    BY <2>1, <2>2, StateUpdates, StatusNames DEF Save
  <2> QED
    BY <1>10, <2>3 DEF TypeOK, Stages, PatchPending, Leave, Goto
<1>11. ASSUME NEW c \in Coroutines, VerifierReturns(c) PROVE TypeOK'
  <2>1. PICK v \in Verdicts :
                NextNode(c, [Completed(c, st) EXCEPT !.decision = v,
                               !.passed = v \in Passing, !.fresh = TRUE])
    BY <1>11 DEF VerifierReturns
  <2>2. Completed(c, st) \in RunState
    BY <1>11, StateUpdates DEF TypeOK, VerifierReturns, Returning, Completed
  <2>3. \A b \in BOOLEAN : [Completed(c, st) EXCEPT !.decision = v, !.passed = b, !.fresh = TRUE] \in RunState
    BY <2>2 DEF RunState
  <2>4. (v \in Passing) \in BOOLEAN
    OBVIOUS
  <2>5. [Completed(c, st) EXCEPT !.decision = v, !.passed = v \in Passing, !.fresh = TRUE] \in RunState
    BY <2>3, <2>4
  <2> QED
    BY <1>11, <2>1, <2>5, NextNodeType DEF VerifierReturns, Returning
<1>12. ASSUME NEW c \in Coroutines, AgentFails(c) PROVE TypeOK'
  <2>1. PICK s \in Raised(c) :
          \/ Keep([s EXCEPT !.status = "failed"]) /\ Goto(c, "finish")
          \/ attempt[c] < MaxRetries /\ Keep(s) /\ Goto(c, "backoff")
    BY <1>12 DEF AgentFails
  <2>2. s \in RunState
    BY <2>1, RaisedType, <1>12 DEF AgentFails
  <2>3. st' \in RunState /\ disk' = disk
    BY <2>1, <2>2, StateUpdates, StatusNames DEF Keep
  <2>4. pos[c] # Past
    BY <1>12 DEF TypeOK, AgentFails, Stages
  <2> QED
    BY <1>12, <2>1, <2>3, <2>4 DEF TypeOK, Stages, AgentFails, Goto
<1>13. ASSUME NEW c \in Coroutines, Finish(c) PROVE TypeOK'
  <2>1. st' \in RunState
    BY <1>13, StatusNames, NewStateType DEF TypeOK, RunState, Verdicts, Passing,
       Finish, FinalStatus, Save, Goto
  <2>2. disk' \in RunState \cup {NoCheckpoint}
    BY <1>13, <2>1 DEF TypeOK, Finish, FinalStatus, Save, Goto
  <2> QED
    BY <1>13, <2>1, <2>2, BoundsAssumption DEF TypeOK, Stages, Finish,
       FinalStatus, Save, Goto
<1>14. ASSUME NEW c \in Coroutines, Flushed(c) PROVE TypeOK'
  BY <1>14 DEF TypeOK, Stages, Flushed, Leave, Goto
<1>15. ASSUME NEW c \in Coroutines, ExecuteJob(c) PROVE TypeOK'
  <2>1. PICK from \in Nodes, s \in RunState : Launch(c, from, s)
    BY <1>15, ResumeNodeIsNode, NewStateType DEF TypeOK, ExecuteJob
  <2> QED
    BY <1>15, <2>1, LaunchType DEF TypeOK, ExecuteJob
<1>16. ASSUME NEW c \in Coroutines, CreateRun(c) PROVE TypeOK'
  <2>1. Onboarding \in Nodes
    OBVIOUS
  <2> QED
    BY <1>16, <2>1, LaunchType DEF TypeOK, CreateRun
<1>17. ASSUME NEW c \in Coroutines, StartRaises(c) PROVE TypeOK'
  <2>1. st' \in RunState
    BY <1>17, StatusNames, NewStateType DEF TypeOK, RunState, Verdicts, Passing,
       StartRaises, Save, Keep, Goto
  <2>2. disk' \in RunState \cup {NoCheckpoint}
    BY <1>17, <2>1 DEF TypeOK, StartRaises, Save, Keep, Goto
  <2> QED
    BY <1>17, <2>1, <2>2, BoundsAssumption DEF TypeOK, Stages, StartRaises,
       Save, Keep, Goto
<1>18. ASSUME Watchdog PROVE TypeOK'
  <2>1. st' \in RunState
    BY <1>18, StatusNames, NewStateType DEF TypeOK, RunState, Verdicts, Passing,
       Watchdog, Keep
  <2>2. disk' \in RunState \cup {NoCheckpoint}
    BY <1>18, <2>1 DEF TypeOK, Watchdog, Keep
  <2> QED
    BY <1>18, <2>1, <2>2, BoundsAssumption DEF TypeOK, Stages, Watchdog,
       Keep
<1>19. ASSUME Ack PROVE TypeOK'
  BY <1>19 DEF TypeOK, Stages, Ack
<1>20. ASSUME Crash PROVE TypeOK'
  <2>1. pc' \in [Coroutines -> Stages]
    BY <1>20 DEF Crash, Stages
  <2>2. faults' \in 0 .. MaxFaults
    BY <1>20, BoundsAssumption DEF TypeOK, Crash
  <2>3. \A d \in Coroutines : pc'[d] = "idle"
    BY <1>20 DEF Crash
  <2> QED
    BY <1>20, <2>1, <2>2, <2>3, NewStateType DEF TypeOK, Crash
<1>21. ASSUME Pause PROVE TypeOK'
  BY <1>21 DEF TypeOK, Stages, Pause
<1>22. ASSUME Resume PROVE TypeOK'
  BY <1>22 DEF TypeOK, Stages, Resume
<1>23. ASSUME StepOver PROVE TypeOK'
  BY <1>23 DEF TypeOK, Stages, StepOver
<1>24. ASSUME Cancel PROVE TypeOK'
  BY <1>24 DEF TypeOK, Stages, Cancel
<1>25. ASSUME Rollback PROVE TypeOK'
  <2>1. st' \in RunState
    BY <1>25, StatusNames, NewStateType DEF TypeOK, RunState, Verdicts, Passing,
       Rollback, Requested, Keep
  <2>2. disk' \in RunState \cup {NoCheckpoint}
    BY <1>25, <2>1 DEF TypeOK, Rollback, Requested, Keep
  <2> QED
    BY <1>25, <2>1, <2>2, BoundsAssumption DEF TypeOK, Stages, Rollback,
       Requested, Keep
<1>26. ASSUME ApprovePatch PROVE TypeOK'
  <2> DEFINE s == [st EXCEPT !.approved = TRUE, !.status = "verifying"]
  <2>1. s \in RunState
    BY StatusNames DEF TypeOK, RunState
  <2>2. Verifier \in Nodes
    OBVIOUS
  <2>3. CASE \E c \in Coroutines : Launch(c, Verifier, s) /\ task' = c
    BY <1>26, <2>1, <2>2, <2>3, LaunchType DEF TypeOK, ApprovePatch
  <2>4. CASE Keep(s) /\ UNCHANGED <<pc, pos, attempt, task>>
    BY <1>26, <2>1, <2>4 DEF TypeOK, ApprovePatch, Keep
  <2> QED
    BY <1>26, <2>3, <2>4 DEF ApprovePatch
<1>27. CASE UNCHANGED vars
  BY <1>27 DEF TypeOK, vars
<1> QED
  BY <1>1, <1>2, <1>3, <1>4, <1>5, <1>6, <1>7, <1>8, <1>9, <1>10, <1>11, <1>12,
     <1>13, <1>14, <1>15, <1>16, <1>17, <1>18, <1>19, <1>20, <1>21, <1>22, <1>23,
     <1>24, <1>25, <1>26, <1>27 DEF Next, Advance, Control

----------------------------------------------------------------------------
(* The inductive invariant.                                                *)

\* What Walk asks of the node to resume from.
ResumesWell(s) ==
    /\ ResumeNode(s) \in Nodes
    /\ ResumeNode(s) = Reviewer => s.fresh /\ Done(s, Verifier)
    /\ ResumeNode(s) <= Patcher => (Done(s, Verifier) => Done(s, Reviewer))
    /\ \A n \in Nodes : n < ResumeNode(s) => Done(s, n)

\* A resumable state resumes where Walk holds.
LEMMA ResumePoint ==
    ASSUME NEW s \in RunState, Resumable(s)
    PROVE  ResumesWell(s)
<1> DEFINE k == ResumeNode(s)
<1>1. /\ k \in Nodes
      /\ \A n \in Nodes : n < k => Done(s, n)
      /\ (\A n \in Nodes : Done(s, n)) \/ ~Done(s, k)
  BY ResumeNodeIsNode
<1>2. (\A n \in Nodes : Done(s, n)) => k = Onboarding
  BY DEF ResumeNode, Done
<1> HIDE DEF k
<1>3. k = Reviewer => s.fresh /\ Done(s, Verifier)
  BY <1>1, <1>2 DEF Resumable
<1>4. k <= Patcher => (Done(s, Verifier) => Done(s, Reviewer))
  BY <1>1 DEF Resumable
<1> QED
  BY <1>1, <1>3, <1>4 DEF ResumesWell, k

\* A new run starts at the first node.
LEMMA NewStateResume ==
    ResumeNode(NewState) = Onboarding /\ Resumable(NewState)
<1>1. ~Done(NewState, Onboarding)
  BY DEF NewState, Done
<1>2. ResumeNode(NewState) = Onboarding
  BY <1>1, ResumeNodeIsNode, NewStateType
<1> QED
  BY <1>2 DEF NewState, Resumable, Done

\* The agent failed: what its exception handler leaves of the state.
LEMMA RaisedKeeps ==
    ASSUME TypeOK, NEW c \in Coroutines, pc[c] = "agent", NEW s \in Raised(c)
    PROVE  /\ s.status = st.status /\ s.passed = st.passed
           /\ s.decision = st.decision /\ s.conflict = st.conflict
           /\ pos[c] # Patcher => s.fresh = st.fresh
           /\ \A n \in Nodes : n # pos[c] => s.nodes[n] = st.nodes[n]
           /\ s.nodes[pos[c]] = "failed"
<1>1. pos[c] \in Nodes
  BY DEF TypeOK
<1>2. CASE pos[c] = Patcher
  <2>1. PICK h \in {FALSE, st.held} :
           s = [st EXCEPT !.nodes[Patcher] = "failed", !.fresh = FALSE, !.held = h]
    BY <1>2 DEF Raised
  <2> QED
    BY <1>1, <1>2, <2>1 DEF TypeOK, RunState
<1>3. CASE pos[c] # Patcher
  <2>1. s = [st EXCEPT !.nodes[pos[c]] = "failed"]
    BY <1>3 DEF Raised
  <2> QED
    BY <1>1, <1>3, <2>1 DEF TypeOK, RunState
<1> QED
  BY <1>2, <1>3

\* Only c moves when c is awake: the facts about the others are kept.
LEMMA OthersIdle ==
    ASSUME IInv, NEW c \in Coroutines, pc[c] # "idle"
    PROVE  \A d \in Coroutines \ {c} : pc[d] = "idle"
BY DEF IInv, Single

\* BudgetExceeded keeps the inductive invariant.
LEMMA BudgetExceededStep ==
    ASSUME IInv, TypeOK', Mode # "sync", NEW c \in Coroutines, BudgetExceeded(c)
    PROVE  IInv'
<1> USE DEF IInv, flags
<1>1. \A d \in Coroutines \ {c} : pc[d] = "idle" /\ pc'[d] = "idle"
  BY OthersIdle DEF Single, TypeOK, BudgetExceeded, Keep, Goto
<1>2. Single'
  BY <1>1, ModeAssumption DEF TypeOK, Single, BudgetExceeded, Keep, Goto
<1>3. Walk(c)'
  BY StatusNames, ModeAssumption DEF TypeOK, RunState, Single, Walk, Working, Done,
     MergedIsVerified, Resumable, BudgetExceeded, Keep, Goto
<1>4. \A d \in Coroutines : Walk(d)'
  BY <1>1, <1>3 DEF Walk, Working
<1>5. MergedIsVerified(st') /\ (Mode = "worker" => Resumable(st'))
  BY StatusNames DEF TypeOK, RunState, Single, Walk, Working, Done,
     MergedIsVerified, Resumable, AutoMerge, BudgetExceeded, Keep, Goto
<1>6. disk' # NoCheckpoint => MergedIsVerified(disk') /\ (Mode = "worker" => Resumable(disk'))
  BY <1>5 DEF BudgetExceeded, Keep, Goto
<1> QED
  BY <1>2, <1>4, <1>5, <1>6

\* SeeCancelled keeps the inductive invariant.
LEMMA SeeCancelledStep ==
    ASSUME IInv, TypeOK', Mode # "sync", NEW c \in Coroutines, SeeCancelled(c)
    PROVE  IInv'
<1> USE DEF IInv, flags
<1>1. \A d \in Coroutines \ {c} : pc[d] = "idle" /\ pc'[d] = "idle"
  BY OthersIdle DEF Single, TypeOK, SeeCancelled, Goto
<1>2. Single'
  BY <1>1, ModeAssumption DEF TypeOK, Single, SeeCancelled, Goto
<1>3. Walk(c)'
  BY StatusNames, ModeAssumption DEF TypeOK, RunState, Single, Walk, Working, Done,
     MergedIsVerified, Resumable, SeeCancelled, Goto
<1>4. \A d \in Coroutines : Walk(d)'
  BY <1>1, <1>3 DEF Walk, Working
<1>5. MergedIsVerified(st') /\ (Mode = "worker" => Resumable(st'))
  BY StatusNames DEF TypeOK, RunState, Single, Walk, Working, Done,
     MergedIsVerified, Resumable, AutoMerge, SeeCancelled, Goto
<1>6. disk' # NoCheckpoint => MergedIsVerified(disk') /\ (Mode = "worker" => Resumable(disk'))
  BY <1>5 DEF SeeCancelled, Goto
<1> QED
  BY <1>2, <1>4, <1>5, <1>6

\* SeePaused keeps the inductive invariant.
LEMMA SeePausedStep ==
    ASSUME IInv, TypeOK', Mode # "sync", NEW c \in Coroutines, SeePaused(c)
    PROVE  IInv'
<1> USE DEF IInv, flags
<1>1. \A d \in Coroutines \ {c} : pc[d] = "idle" /\ pc'[d] = "idle"
  BY OthersIdle DEF Single, TypeOK, SeePaused, Goto
<1>2. Single'
  BY <1>1, ModeAssumption DEF TypeOK, Single, SeePaused, Goto
<1>3. Walk(c)'
  BY StatusNames, ModeAssumption DEF TypeOK, RunState, Single, Walk, Working, Done,
     MergedIsVerified, Resumable, SeePaused, Goto
<1>4. \A d \in Coroutines : Walk(d)'
  BY <1>1, <1>3 DEF Walk, Working
<1>5. MergedIsVerified(st') /\ (Mode = "worker" => Resumable(st'))
  BY StatusNames DEF TypeOK, RunState, Single, Walk, Working, Done,
     MergedIsVerified, Resumable, AutoMerge, SeePaused, Goto
<1>6. disk' # NoCheckpoint => MergedIsVerified(disk') /\ (Mode = "worker" => Resumable(disk'))
  BY <1>5 DEF SeePaused, Goto
<1> QED
  BY <1>2, <1>4, <1>5, <1>6

\* StartNode keeps the inductive invariant.
LEMMA StartNodeStep ==
    ASSUME IInv, TypeOK', Mode # "sync", NEW c \in Coroutines, StartNode(c)
    PROVE  IInv'
<1> USE DEF IInv, flags
<1>1. \A d \in Coroutines \ {c} : pc[d] = "idle" /\ pc'[d] = "idle"
  BY OthersIdle DEF Single, TypeOK, StartNode, StartAttempt, Save, Goto
<1>2. Single'
  BY <1>1, ModeAssumption DEF TypeOK, Single, StartNode, StartAttempt, Save, Goto
<1>3. Walk(c)'
  BY StatusNames, ModeAssumption DEF TypeOK, RunState, Single, Walk, Working, Done,
     MergedIsVerified, Resumable, StartNode, StartAttempt, Save, Goto
<1>4. \A d \in Coroutines : Walk(d)'
  BY <1>1, <1>3 DEF Walk, Working
<1>5. MergedIsVerified(st') /\ (Mode = "worker" => Resumable(st'))
  BY StatusNames DEF TypeOK, RunState, Single, Walk, Working, Done,
     MergedIsVerified, Resumable, AutoMerge, StartNode, StartAttempt, Save, Goto
<1>6. disk' # NoCheckpoint => MergedIsVerified(disk') /\ (Mode = "worker" => Resumable(disk'))
  BY <1>5 DEF StartNode, StartAttempt, Save, Goto
<1> QED
  BY <1>2, <1>4, <1>5, <1>6

\* BackoffEnds keeps the inductive invariant.
LEMMA BackoffEndsStep ==
    ASSUME IInv, TypeOK', Mode # "sync", NEW c \in Coroutines, BackoffEnds(c)
    PROVE  IInv'
<1> USE DEF IInv, flags
<1>1. \A d \in Coroutines \ {c} : pc[d] = "idle" /\ pc'[d] = "idle"
  BY OthersIdle DEF Single, TypeOK, BackoffEnds, StartAttempt, Save, Goto
<1>2. Single'
  BY <1>1, ModeAssumption DEF TypeOK, Single, BackoffEnds, StartAttempt, Save, Goto
<1>3. Walk(c)'
  BY StatusNames, ModeAssumption DEF TypeOK, RunState, Single, Walk, Working, Done,
     MergedIsVerified, Resumable, BackoffEnds, StartAttempt, Save, Goto
<1>4. \A d \in Coroutines : Walk(d)'
  BY <1>1, <1>3 DEF Walk, Working
<1>5. MergedIsVerified(st') /\ (Mode = "worker" => Resumable(st'))
  BY StatusNames DEF TypeOK, RunState, Single, Walk, Working, Done,
     MergedIsVerified, Resumable, AutoMerge, BackoffEnds, StartAttempt, Save, Goto
<1>6. disk' # NoCheckpoint => MergedIsVerified(disk') /\ (Mode = "worker" => Resumable(disk'))
  BY <1>5 DEF BackoffEnds, StartAttempt, Save, Goto
<1> QED
  BY <1>2, <1>4, <1>5, <1>6

\* AgentReturns keeps the inductive invariant.
LEMMA AgentReturnsStep ==
    ASSUME IInv, TypeOK', Mode # "sync", NEW c \in Coroutines, AgentReturns(c)
    PROVE  IInv'
<1> USE DEF IInv, flags
<1>1. \A d \in Coroutines \ {c} : pc[d] = "idle" /\ pc'[d] = "idle"
  BY OthersIdle DEF Single, TypeOK, AgentReturns, Returning, NextNode, Completed,
     Save, Goto
<1>2. Single'
  BY <1>1, ModeAssumption DEF TypeOK, Single, AgentReturns, Returning, NextNode,
     Completed, Save, Goto
<1>3. Walk(c)'
  BY StatusNames, ModeAssumption DEF TypeOK, RunState, Single, Walk, Working, Done,
     MergedIsVerified, Resumable, AgentReturns, Returning, NextNode, Completed,
     Save, Goto
<1>4. \A d \in Coroutines : Walk(d)'
  BY <1>1, <1>3 DEF Walk, Working
<1>5. MergedIsVerified(st') /\ (Mode = "worker" => Resumable(st'))
  BY StatusNames DEF TypeOK, RunState, Single, Walk, Working, Done,
     MergedIsVerified, Resumable, AutoMerge, AgentReturns, Returning, NextNode,
     Completed, Save, Goto
<1>6. disk' # NoCheckpoint => MergedIsVerified(disk') /\ (Mode = "worker" => Resumable(disk'))
  BY <1>5 DEF AgentReturns, Returning, NextNode, Completed, Save, Goto
<1> QED
  BY <1>2, <1>4, <1>5, <1>6

\* GuardFails keeps the inductive invariant.
LEMMA GuardFailsStep ==
    ASSUME IInv, TypeOK', Mode # "sync", NEW c \in Coroutines, GuardFails(c)
    PROVE  IInv'
<1> USE DEF IInv, flags
<1>1. \A d \in Coroutines \ {c} : pc[d] = "idle" /\ pc'[d] = "idle"
  BY OthersIdle DEF Single, TypeOK, GuardFails, Returning, Completed, Keep, Goto
<1>2. Single'
  BY <1>1, ModeAssumption DEF TypeOK, Single, GuardFails, Returning, Completed,
     Keep, Goto
<1>3. Walk(c)'
  BY StatusNames, ModeAssumption DEF TypeOK, RunState, Single, Walk, Working, Done,
     MergedIsVerified, Resumable, GuardFails, Returning, Completed, Keep, Goto
<1>4. \A d \in Coroutines : Walk(d)'
  BY <1>1, <1>3 DEF Walk, Working
<1>5. MergedIsVerified(st') /\ (Mode = "worker" => Resumable(st'))
  BY StatusNames DEF TypeOK, RunState, Single, Walk, Working, Done,
     MergedIsVerified, Resumable, AutoMerge, GuardFails, Returning, Completed, Keep,
     Goto
<1>6. disk' # NoCheckpoint => MergedIsVerified(disk') /\ (Mode = "worker" => Resumable(disk'))
  BY <1>5 DEF GuardFails, Returning, Completed, Keep, Goto
<1> QED
  BY <1>2, <1>4, <1>5, <1>6

\* PatchHeld keeps the inductive invariant.
LEMMA PatchHeldStep ==
    ASSUME IInv, TypeOK', Mode # "sync", NEW c \in Coroutines, PatchHeld(c)
    PROVE  IInv'
<1> USE DEF IInv, flags
<1>1. \A d \in Coroutines \ {c} : pc[d] = "idle" /\ pc'[d] = "idle"
  BY OthersIdle DEF Single, TypeOK, PatchHeld, Returning, Completed, Keep, Goto
<1>2. Single'
  BY <1>1, ModeAssumption DEF TypeOK, Single, PatchHeld, Returning, Completed, Keep,
     Goto
<1>3. Walk(c)'
  BY StatusNames, ModeAssumption DEF TypeOK, RunState, Single, Walk, Working, Done,
     MergedIsVerified, Resumable, PatchHeld, Returning, Completed, Keep, Goto
<1>4. \A d \in Coroutines : Walk(d)'
  BY <1>1, <1>3 DEF Walk, Working
<1>5. MergedIsVerified(st') /\ (Mode = "worker" => Resumable(st'))
  BY StatusNames DEF TypeOK, RunState, Single, Walk, Working, Done,
     MergedIsVerified, Resumable, AutoMerge, PatchHeld, Returning, Completed, Keep,
     Goto
<1>6. disk' # NoCheckpoint => MergedIsVerified(disk') /\ (Mode = "worker" => Resumable(disk'))
  BY <1>5 DEF PatchHeld, Returning, Completed, Keep, Goto
<1> QED
  BY <1>2, <1>4, <1>5, <1>6

\* PatchReady keeps the inductive invariant.
LEMMA PatchReadyStep ==
    ASSUME IInv, TypeOK', Mode # "sync", NEW c \in Coroutines, PatchReady(c)
    PROVE  IInv'
<1> USE DEF IInv, flags
<1>1. \A d \in Coroutines \ {c} : pc[d] = "idle" /\ pc'[d] = "idle"
  BY OthersIdle DEF Single, TypeOK, PatchReady, Patched, Returning, NextNode,
     Completed, Save, Goto
<1>2. Single'
  BY <1>1, ModeAssumption DEF TypeOK, Single, PatchReady, Patched, Returning,
     NextNode, Completed, Save, Goto
<1>3. Walk(c)'
  BY StatusNames, ModeAssumption DEF TypeOK, RunState, Single, Walk, Working, Done,
     MergedIsVerified, Resumable, PatchReady, Patched, Returning, NextNode,
     Completed, Save, Goto
<1>4. \A d \in Coroutines : Walk(d)'
  BY <1>1, <1>3 DEF Walk, Working
<1>5. MergedIsVerified(st') /\ (Mode = "worker" => Resumable(st'))
  BY StatusNames DEF TypeOK, RunState, Single, Walk, Working, Done,
     MergedIsVerified, Resumable, AutoMerge, PatchReady, Patched, Returning,
     NextNode, Completed, Save, Goto
<1>6. disk' # NoCheckpoint => MergedIsVerified(disk') /\ (Mode = "worker" => Resumable(disk'))
  BY <1>5 DEF PatchReady, Patched, Returning, NextNode, Completed, Save, Goto
<1> QED
  BY <1>2, <1>4, <1>5, <1>6

\* PatchPending keeps the inductive invariant.
LEMMA PatchPendingStep ==
    ASSUME IInv, TypeOK', Mode # "sync", NEW c \in Coroutines, PatchPending(c)
    PROVE  IInv'
<1> USE DEF IInv, flags
<1>1. \A d \in Coroutines \ {c} : pc[d] = "idle" /\ pc'[d] = "idle"
  BY OthersIdle DEF Single, TypeOK, PatchPending, Patched, Returning, Completed,
     Leave, Save, Goto
<1>2. Single'
  BY <1>1, ModeAssumption DEF TypeOK, Single, PatchPending, Patched, Returning,
     Completed, Leave, Save, Goto
<1>3. Walk(c)'
  BY StatusNames, ModeAssumption DEF TypeOK, RunState, Single, Walk, Working, Done,
     MergedIsVerified, Resumable, PatchPending, Patched, Returning, Completed,
     Leave, Save, Goto
<1>4. \A d \in Coroutines : Walk(d)'
  BY <1>1, <1>3 DEF Walk, Working
<1>5. MergedIsVerified(st') /\ (Mode = "worker" => Resumable(st'))
  BY StatusNames DEF TypeOK, RunState, Single, Walk, Working, Done,
     MergedIsVerified, Resumable, AutoMerge, PatchPending, Patched, Returning,
     Completed, Leave, Save, Goto
<1>6. disk' # NoCheckpoint => MergedIsVerified(disk') /\ (Mode = "worker" => Resumable(disk'))
  BY <1>5 DEF PatchPending, Patched, Returning, Completed, Leave, Save, Goto
<1> QED
  BY <1>2, <1>4, <1>5, <1>6

\* VerifierReturns keeps the inductive invariant.
LEMMA VerifierReturnsStep ==
    ASSUME IInv, TypeOK', Mode # "sync", NEW c \in Coroutines, VerifierReturns(c)
    PROVE  IInv'
<1> USE DEF IInv, flags
<1>1. \A d \in Coroutines \ {c} : pc[d] = "idle" /\ pc'[d] = "idle"
  BY OthersIdle DEF Single, TypeOK, VerifierReturns, Returning, NextNode, Completed,
     Save, Goto
<1>2. Single'
  BY <1>1, ModeAssumption DEF TypeOK, Single, VerifierReturns, Returning, NextNode,
     Completed, Save, Goto
<1>3. Walk(c)'
  BY StatusNames, ModeAssumption DEF TypeOK, RunState, Single, Walk, Working, Done,
     MergedIsVerified, Resumable, VerifierReturns, Returning, NextNode, Completed,
     Save, Goto
<1>4. \A d \in Coroutines : Walk(d)'
  BY <1>1, <1>3 DEF Walk, Working
<1>5. MergedIsVerified(st') /\ (Mode = "worker" => Resumable(st'))
  BY StatusNames DEF TypeOK, RunState, Single, Walk, Working, Done,
     MergedIsVerified, Resumable, AutoMerge, VerifierReturns, Returning, NextNode,
     Completed, Save, Goto
<1>6. disk' # NoCheckpoint => MergedIsVerified(disk') /\ (Mode = "worker" => Resumable(disk'))
  BY <1>5 DEF VerifierReturns, Returning, NextNode, Completed, Save, Goto
<1> QED
  BY <1>2, <1>4, <1>5, <1>6

\* AgentFails keeps the inductive invariant.
LEMMA AgentFailsStep ==
    ASSUME IInv, TypeOK', Mode # "sync", NEW c \in Coroutines, AgentFails(c)
    PROVE  IInv'
<1> USE DEF IInv, flags
<1>1. \A d \in Coroutines \ {c} : pc[d] = "idle" /\ pc'[d] = "idle"
  BY OthersIdle DEF Single, TypeOK, AgentFails, Raised, Keep, Goto
<1>2. Single'
  BY <1>1, ModeAssumption DEF TypeOK, Single, AgentFails, Raised, Keep, Goto
<1>2a. PICK s \in Raised(c) :
         \/ Keep([s EXCEPT !.status = "failed"]) /\ Goto(c, "finish")
         \/ Keep(s) /\ Goto(c, "backoff")
  BY DEF AgentFails
<1>2b. pc[c] = "agent" /\ s \in RunState
  BY <1>2a, RaisedType DEF AgentFails
<1>2e. pos[c] \in Nodes
  BY <1>2b DEF TypeOK
<1>2c. /\ s.status = st.status /\ s.passed = st.passed /\ s.decision = st.decision
       /\ s.conflict = st.conflict /\ (pos[c] # Patcher => s.fresh = st.fresh)
       /\ \A n \in Nodes : n # pos[c] => s.nodes[n] = st.nodes[n]
       /\ s.nodes[pos[c]] = "failed"
  BY <1>2a, <1>2b, RaisedKeeps
<1>2d. /\ st'.status \in {s.status, "failed"} /\ st'.passed = s.passed
       /\ st'.decision = s.decision /\ st'.conflict = s.conflict
       /\ st'.fresh = s.fresh /\ st'.nodes = s.nodes
       /\ pc'[c] = "finish" => st'.status = "failed"
       /\ pc'[c] \in {"finish", "backoff"}
       /\ pos' = pos /\ cancelled' = cancelled
  BY <1>2a, <1>2b DEF AgentFails, Keep, Goto, TypeOK, RunState
<1>2f. /\ Walk(c) /\ (Mode = "worker" => Resumable(st))
       /\ st'.nodes \in [Nodes -> {"pending", "running", "completed", "failed"}]
  BY DEF TypeOK, RunState
<1> HIDE DEF IInv
<1>2g. \A n \in Nodes : Done(st', n) <=> n # pos[c] /\ Done(st, n)
  BY <1>2c, <1>2d, <1>2e DEF Done
<1>2h. Verifier \in Nodes /\ Reviewer \in Nodes
  OBVIOUS
<1>2i. \A n \in Nodes : n < pos[c] => n # pos[c]
  BY <1>2e
<1>2j. pos[c] = Reviewer => pos[c] # Patcher
  OBVIOUS
<1>2k. Mode = "worker" => \A n \in Nodes : n < pos[c] => Done(st', n)
  BY <1>2b, <1>2f, <1>2g, <1>2i DEF Walk, Working
<1>2l. pos[c] = Reviewer => st'.fresh /\ Done(st', Verifier)
  <2> SUFFICES ASSUME pos[c] = Reviewer PROVE st'.fresh /\ Done(st', Verifier)
    OBVIOUS
  <2>1. st.fresh /\ Done(st, Verifier)
    BY <1>2b, <1>2f DEF Walk, Working
  <2>2. st'.fresh = st.fresh
    BY <1>2c, <1>2d, <1>2j
  <2>3. Verifier # Reviewer
    OBVIOUS
  <2>4. Done(st', Verifier)
    BY <2>1, <2>3, <1>2g, <1>2h
  <2> QED
    BY <2>1, <2>2, <2>4
<1>2m. pos[c] <= Patcher => (Done(st', Verifier) => Done(st', Reviewer))
  <2> SUFFICES ASSUME pos[c] <= Patcher, Done(st', Verifier) PROVE Done(st', Reviewer)
    OBVIOUS
  <2>1. Done(st, Reviewer)
    BY <1>2b, <1>2f, <1>2g, <1>2h DEF Walk, Working
  <2>2. pos[c] # Reviewer
    BY <1>2e
  <2> QED
    BY <2>1, <2>2, <1>2g, <1>2h
<1>2n. st.status # "merged"
  BY <1>2b, <1>2f DEF Walk, Working
<1>3. Walk(c)'
  BY <1>2b, <1>2c, <1>2d, <1>2e, <1>2k, <1>2l, <1>2m, <1>2n DEF Walk, Working
<1>5. MergedIsVerified(st') /\ (Mode = "worker" => Resumable(st'))
  <2>1. MergedIsVerified(st')
    BY <1>2c, <1>2d, <1>2n DEF MergedIsVerified
  <2>2. ASSUME Mode = "worker", Done(st', Verifier), ~Done(st', Reviewer)
        PROVE  st'.fresh /\ \A n \in Onboarding .. Patcher : Done(st', n)
    <3>1. Done(st, Verifier) /\ pos[c] # Verifier /\ ~(pos[c] <= Patcher)
      BY <2>2, <1>2g, <1>2h, <1>2m
    <3>2. pos[c] = Reviewer
      BY <3>1, <1>2e
    <3>3. \A n \in Onboarding .. Patcher : n \in Nodes /\ n < pos[c]
      BY <3>2
    <3> QED
      BY <2>2, <3>2, <3>3, <1>2k, <1>2l
  <2> QED
    BY <2>1, <2>2 DEF Resumable
<1>4. \A d \in Coroutines : Walk(d)'
  BY <1>1, <1>3 DEF Walk, Working
<1> USE DEF IInv
<1>6. disk' # NoCheckpoint => MergedIsVerified(disk') /\ (Mode = "worker" => Resumable(disk'))
  BY <1>5 DEF AgentFails, Raised, Keep, Goto
<1> QED
  BY <1>2, <1>4, <1>5, <1>6

\* Finish keeps the inductive invariant.
LEMMA FinishStep ==
    ASSUME IInv, TypeOK', Mode # "sync", NEW c \in Coroutines, Finish(c)
    PROVE  IInv'
<1> USE DEF IInv, flags
<1>1. \A d \in Coroutines \ {c} : pc[d] = "idle" /\ pc'[d] = "idle"
  BY OthersIdle DEF Single, TypeOK, Finish, FinalStatus, Save, Goto
<1>2. Single'
  BY <1>1, ModeAssumption DEF TypeOK, Single, Finish, FinalStatus, Save, Goto
<1>3. Walk(c)'
  BY StatusNames, ModeAssumption DEF TypeOK, RunState, Single, Walk, Working, Done,
     MergedIsVerified, Resumable, Finish, FinalStatus, Save, Goto
<1>4. \A d \in Coroutines : Walk(d)'
  BY <1>1, <1>3 DEF Walk, Working
<1>5. MergedIsVerified(st') /\ (Mode = "worker" => Resumable(st'))
  BY StatusNames DEF TypeOK, RunState, Single, Walk, Working, Done,
     MergedIsVerified, Resumable, AutoMerge, Finish, FinalStatus, Save, Goto
<1>6. disk' # NoCheckpoint => MergedIsVerified(disk') /\ (Mode = "worker" => Resumable(disk'))
  BY <1>5 DEF Finish, FinalStatus, Save, Goto
<1> QED
  BY <1>2, <1>4, <1>5, <1>6

\* Flushed keeps the inductive invariant.
LEMMA FlushedStep ==
    ASSUME IInv, TypeOK', Mode # "sync", NEW c \in Coroutines, Flushed(c)
    PROVE  IInv'
<1> USE DEF IInv, flags
<1>1. \A d \in Coroutines \ {c} : pc[d] = "idle" /\ pc'[d] = "idle"
  BY OthersIdle DEF Single, TypeOK, Flushed, Leave, Goto
<1>2. Single'
  BY <1>1, ModeAssumption DEF TypeOK, Single, Flushed, Leave, Goto
<1>3. Walk(c)'
  BY StatusNames, ModeAssumption DEF TypeOK, RunState, Single, Walk, Working, Done,
     MergedIsVerified, Resumable, Flushed, Leave, Goto
<1>4. \A d \in Coroutines : Walk(d)'
  BY <1>1, <1>3 DEF Walk, Working
<1>5. MergedIsVerified(st') /\ (Mode = "worker" => Resumable(st'))
  BY StatusNames DEF TypeOK, RunState, Single, Walk, Working, Done,
     MergedIsVerified, Resumable, AutoMerge, Flushed, Leave, Goto
<1>6. disk' # NoCheckpoint => MergedIsVerified(disk') /\ (Mode = "worker" => Resumable(disk'))
  BY <1>5 DEF Flushed, Leave, Goto
<1> QED
  BY <1>2, <1>4, <1>5, <1>6

\* ExecuteJob keeps the inductive invariant.
LEMMA ExecuteJobStep ==
    ASSUME IInv, TypeOK', Mode # "sync", NEW c \in Coroutines, ExecuteJob(c)
    PROVE  IInv'
<1> USE DEF IInv, flags
<1>1. \A d \in Coroutines \ {c} : pc[d] = "idle" /\ pc'[d] = "idle"
  BY DEF Single, TypeOK, ExecuteJob, Launch, ResumeNode, Keep, Goto
<1>2. Single'
  BY <1>1, ModeAssumption DEF TypeOK, Single, ExecuteJob, Launch, ResumeNode, Keep,
     Goto
<1>2a. PICK s \in RunState :
         /\ Launch(c, ResumeNode(s), s) /\ Resumable(s)
  <2>1. CASE disk = NoCheckpoint
    BY <2>1, NewStateResume, NewStateType DEF ExecuteJob
  <2> QED
    BY <2>1 DEF ExecuteJob, TypeOK
<1>2b. /\ st'.status = "queued" /\ st'.passed = s.passed
       /\ st'.decision = s.decision /\ st'.conflict = s.conflict
       /\ st'.fresh = s.fresh /\ st'.nodes = s.nodes
       /\ pc'[c] = "boundary" /\ pos'[c] = ResumeNode(s)
  BY <1>2a DEF Launch, Keep, Goto, TypeOK, RunState
<1>2c. ResumesWell(s)
  BY <1>2a, ResumePoint
<1>3. Walk(c)'
  BY <1>2b, <1>2c DEF Walk, Working, Done, ResumesWell
<1>5. MergedIsVerified(st') /\ (Mode = "worker" => Resumable(st'))
  BY <1>2a, <1>2b DEF MergedIsVerified, Resumable, Done
<1>4. \A d \in Coroutines : Walk(d)'
  BY <1>1, <1>3 DEF Walk, Working
<1>6. disk' # NoCheckpoint => MergedIsVerified(disk') /\ (Mode = "worker" => Resumable(disk'))
  BY <1>5 DEF ExecuteJob, Launch, ResumeNode, Keep, Goto
<1> QED
  BY <1>2, <1>4, <1>5, <1>6

\* CreateRun keeps the inductive invariant.
LEMMA CreateRunStep ==
    ASSUME IInv, TypeOK', Mode # "sync", NEW c \in Coroutines, CreateRun(c)
    PROVE  IInv'
<1> USE DEF IInv, flags
<1>1. \A d \in Coroutines \ {c} : pc[d] = "idle" /\ pc'[d] = "idle"
  BY DEF Single, TypeOK, CreateRun, Launch, Keep, Goto
<1>2. Single'
  BY <1>1, ModeAssumption DEF TypeOK, Single, CreateRun, Launch, Keep, Goto
<1>2a. Mode = "async" /\ st = NewState
  BY ModeAssumption DEF CreateRun, Single
<1>2b. /\ st' = [NewState EXCEPT !.status = "queued"]
       /\ pc'[c] = "boundary" /\ pos'[c] = Onboarding
  BY <1>2a DEF CreateRun, Launch, Keep, Goto, TypeOK
<1>2c. st'.nodes[Verifier] = "pending" /\ st'.status = "queued"
  BY <1>2b DEF NewState
<1>3. Walk(c)'
  BY <1>2a, <1>2b, <1>2c DEF Walk, Working, Done
<1>5. MergedIsVerified(st') /\ (Mode = "worker" => Resumable(st'))
  BY <1>2a, <1>2c DEF MergedIsVerified
<1>4. \A d \in Coroutines : Walk(d)'
  BY <1>1, <1>3 DEF Walk, Working
<1>6. disk' # NoCheckpoint => MergedIsVerified(disk') /\ (Mode = "worker" => Resumable(disk'))
  BY <1>5 DEF CreateRun, Launch, Keep, Goto
<1> QED
  BY <1>2, <1>4, <1>5, <1>6

\* StartRaises keeps the inductive invariant.
LEMMA StartRaisesStep ==
    ASSUME IInv, TypeOK', Mode # "sync", NEW c \in Coroutines, StartRaises(c)
    PROVE  IInv'
<1> USE DEF IInv, flags
<1>1. \A d \in Coroutines \ {c} : pc[d] = "idle" /\ pc'[d] = "idle"
  BY OthersIdle DEF Single, TypeOK, StartRaises, Save, Keep, Goto
<1>2. Single'
  BY <1>1, ModeAssumption DEF TypeOK, Single, StartRaises, Save, Keep, Goto
<1>3. Walk(c)'
  BY StatusNames, ModeAssumption DEF TypeOK, RunState, Single, Walk, Working, Done,
     MergedIsVerified, Resumable, StartRaises, Save, Keep, Goto
<1>4. \A d \in Coroutines : Walk(d)'
  BY <1>1, <1>3 DEF Walk, Working
<1>5. MergedIsVerified(st') /\ (Mode = "worker" => Resumable(st'))
  BY StatusNames DEF TypeOK, RunState, Single, Walk, Working, Done,
     MergedIsVerified, Resumable, AutoMerge, StartRaises, Save, Keep, Goto
<1>6. disk' # NoCheckpoint => MergedIsVerified(disk') /\ (Mode = "worker" => Resumable(disk'))
  BY <1>5 DEF StartRaises, Save, Keep, Goto
<1> QED
  BY <1>2, <1>4, <1>5, <1>6

\* Watchdog keeps the inductive invariant.
LEMMA WatchdogStep ==
    ASSUME IInv, TypeOK', Mode # "sync", Watchdog
    PROVE  IInv'
<1> USE DEF IInv, flags
<1>2. Single'
  BY ModeAssumption DEF TypeOK, Single, Watchdog, Keep, Requested, Quiet, Suspended
<1>3. ASSUME NEW c \in Coroutines PROVE Walk(c)'
  BY <1>3, StatusNames, ModeAssumption DEF TypeOK, RunState, Single, Walk, Working,
     Done, MergedIsVerified, Resumable, Watchdog, Keep, Requested, Quiet,
     Suspended
<1>5. MergedIsVerified(st') /\ (Mode = "worker" => Resumable(st'))
  BY DEF TypeOK, RunState, Single, Walk, Working, Done, MergedIsVerified, Resumable,
     NewState, Watchdog, Keep, Requested, Quiet, Suspended
<1>6. disk' # NoCheckpoint => MergedIsVerified(disk') /\ (Mode = "worker" => Resumable(disk'))
  BY <1>5 DEF Watchdog, Keep, Requested, Quiet, Suspended
<1> QED
  BY <1>2, <1>3, <1>5, <1>6

\* Ack keeps the inductive invariant.
LEMMA AckStep ==
    ASSUME IInv, TypeOK', Mode # "sync", Ack
    PROVE  IInv'
<1> USE DEF IInv, flags
<1>2. Single'
  BY ModeAssumption DEF TypeOK, Single, Ack
<1>3. ASSUME NEW c \in Coroutines PROVE Walk(c)'
  BY <1>3, StatusNames, ModeAssumption DEF TypeOK, RunState, Single, Walk, Working,
     Done, MergedIsVerified, Resumable, Ack
<1>5. MergedIsVerified(st') /\ (Mode = "worker" => Resumable(st'))
  BY DEF TypeOK, RunState, Single, Walk, Working, Done, MergedIsVerified, Resumable,
     NewState, Ack
<1>6. disk' # NoCheckpoint => MergedIsVerified(disk') /\ (Mode = "worker" => Resumable(disk'))
  BY <1>5 DEF Ack
<1> QED
  BY <1>2, <1>3, <1>5, <1>6

\* Crash keeps the inductive invariant.
LEMMA CrashStep ==
    ASSUME IInv, TypeOK', Mode # "sync", Crash
    PROVE  IInv'
<1> USE DEF IInv, flags
<1>2. Single'
  BY ModeAssumption DEF TypeOK, Single, Crash
<1>3. ASSUME NEW c \in Coroutines PROVE Walk(c)'
  BY <1>3, StatusNames, ModeAssumption DEF TypeOK, RunState, Single, Walk, Working,
     Done, MergedIsVerified, Resumable, Crash
<1>5. MergedIsVerified(st') /\ (Mode = "worker" => Resumable(st'))
  BY DEF TypeOK, RunState, Single, Walk, Working, Done, MergedIsVerified, Resumable,
     NewState, Crash
<1>6. disk' # NoCheckpoint => MergedIsVerified(disk') /\ (Mode = "worker" => Resumable(disk'))
  BY <1>5 DEF Crash
<1> QED
  BY <1>2, <1>3, <1>5, <1>6

\* Pause keeps the inductive invariant.
LEMMA PauseStep ==
    ASSUME IInv, TypeOK', Mode # "sync", Pause
    PROVE  IInv'
<1> USE DEF IInv, flags
<1>2. Single'
  BY ModeAssumption DEF TypeOK, Single, Pause, Requested, Quiet, Suspended
<1>3. ASSUME NEW c \in Coroutines PROVE Walk(c)'
  BY <1>3, StatusNames, ModeAssumption DEF TypeOK, RunState, Single, Walk, Working,
     Done, MergedIsVerified, Resumable, Pause, Requested, Quiet, Suspended
<1>5. MergedIsVerified(st') /\ (Mode = "worker" => Resumable(st'))
  BY DEF TypeOK, RunState, Single, Walk, Working, Done, MergedIsVerified, Resumable,
     NewState, Pause, Requested, Quiet, Suspended
<1>6. disk' # NoCheckpoint => MergedIsVerified(disk') /\ (Mode = "worker" => Resumable(disk'))
  BY <1>5 DEF Pause, Requested, Quiet, Suspended
<1> QED
  BY <1>2, <1>3, <1>5, <1>6

\* Resume keeps the inductive invariant.
LEMMA ResumeStep ==
    ASSUME IInv, TypeOK', Mode # "sync", Resume
    PROVE  IInv'
<1> USE DEF IInv, flags
<1>2. Single'
  BY ModeAssumption DEF TypeOK, Single, Resume, Requested, Quiet, Suspended
<1>3. ASSUME NEW c \in Coroutines PROVE Walk(c)'
  BY <1>3, StatusNames, ModeAssumption DEF TypeOK, RunState, Single, Walk, Working,
     Done, MergedIsVerified, Resumable, Resume, Requested, Quiet, Suspended
<1>5. MergedIsVerified(st') /\ (Mode = "worker" => Resumable(st'))
  BY DEF TypeOK, RunState, Single, Walk, Working, Done, MergedIsVerified, Resumable,
     NewState, Resume, Requested, Quiet, Suspended
<1>6. disk' # NoCheckpoint => MergedIsVerified(disk') /\ (Mode = "worker" => Resumable(disk'))
  BY <1>5 DEF Resume, Requested, Quiet, Suspended
<1> QED
  BY <1>2, <1>3, <1>5, <1>6

\* StepOver keeps the inductive invariant.
LEMMA StepOverStep ==
    ASSUME IInv, TypeOK', Mode # "sync", StepOver
    PROVE  IInv'
<1> USE DEF IInv, flags
<1>2. Single'
  BY ModeAssumption DEF TypeOK, Single, StepOver, Requested, Quiet, Suspended
<1>3. ASSUME NEW c \in Coroutines PROVE Walk(c)'
  BY <1>3, StatusNames, ModeAssumption DEF TypeOK, RunState, Single, Walk, Working,
     Done, MergedIsVerified, Resumable, StepOver, Requested, Quiet, Suspended
<1>5. MergedIsVerified(st') /\ (Mode = "worker" => Resumable(st'))
  BY DEF TypeOK, RunState, Single, Walk, Working, Done, MergedIsVerified, Resumable,
     NewState, StepOver, Requested, Quiet, Suspended
<1>6. disk' # NoCheckpoint => MergedIsVerified(disk') /\ (Mode = "worker" => Resumable(disk'))
  BY <1>5 DEF StepOver, Requested, Quiet, Suspended
<1> QED
  BY <1>2, <1>3, <1>5, <1>6

\* Cancel keeps the inductive invariant.
LEMMA CancelStep ==
    ASSUME IInv, TypeOK', Mode # "sync", Cancel
    PROVE  IInv'
<1> USE DEF IInv, flags
<1>2. Single'
  BY ModeAssumption DEF TypeOK, Single, Cancel, Requested, Quiet, Suspended
<1>3. ASSUME NEW c \in Coroutines PROVE Walk(c)'
  BY <1>3, StatusNames, ModeAssumption DEF TypeOK, RunState, Single, Walk, Working,
     Done, MergedIsVerified, Resumable, Cancel, Requested, Quiet, Suspended
<1>5. MergedIsVerified(st') /\ (Mode = "worker" => Resumable(st'))
  BY DEF TypeOK, RunState, Single, Walk, Working, Done, MergedIsVerified, Resumable,
     NewState, Cancel, Requested, Quiet, Suspended
<1>6. disk' # NoCheckpoint => MergedIsVerified(disk') /\ (Mode = "worker" => Resumable(disk'))
  BY <1>5 DEF Cancel, Requested, Quiet, Suspended
<1> QED
  BY <1>2, <1>3, <1>5, <1>6

\* Rollback keeps the inductive invariant.
LEMMA RollbackStep ==
    ASSUME IInv, TypeOK', Mode # "sync", Rollback
    PROVE  IInv'
<1> USE DEF IInv, flags
<1>2. Single'
  BY ModeAssumption DEF TypeOK, Single, Rollback, Requested, Keep, Requested, Quiet,
     Suspended
<1>3. ASSUME NEW c \in Coroutines PROVE Walk(c)'
  BY <1>3, StatusNames, ModeAssumption DEF TypeOK, RunState, Single, Walk, Working,
     Done, MergedIsVerified, Resumable, Rollback, Requested, Keep, Requested,
     Quiet, Suspended
<1>5. MergedIsVerified(st') /\ (Mode = "worker" => Resumable(st'))
  BY DEF TypeOK, RunState, Single, Walk, Working, Done, MergedIsVerified, Resumable,
     NewState, Rollback, Requested, Keep, Requested, Quiet, Suspended
<1>6. disk' # NoCheckpoint => MergedIsVerified(disk') /\ (Mode = "worker" => Resumable(disk'))
  BY <1>5 DEF Rollback, Requested, Keep, Requested, Quiet, Suspended
<1> QED
  BY <1>2, <1>3, <1>5, <1>6

\* ApprovePatch keeps the inductive invariant.
LEMMA ApprovePatchStep ==
    ASSUME IInv, TypeOK', Mode # "sync", ApprovePatch
    PROVE  IInv'
<1> USE DEF IInv, flags
<1> DEFINE s == [st EXCEPT !.approved = TRUE, !.status = "verifying"]
<1>1. Mode = "async" /\ disk' = disk /\ cancelled' = cancelled /\ job' = job /\ job = "executing"
  BY ModeAssumption DEF ApprovePatch, Launch, Keep, Requested
<1>2. CASE \E c \in Coroutines : pc[c] = "idle" /\ Launch(c, Verifier, s) /\ task' = c /\ (task = NoCoroutine \/ pc[task] = "idle")
  <2>1. PICK c \in Coroutines : Launch(c, Verifier, s) /\ task' = c /\ (task = NoCoroutine \/ pc[task] = "idle")
    BY <1>2
  <2>2. \A d \in Coroutines : pc[d] = "idle"
    BY <1>1, <2>1, CoroutinesAssumption DEF Single
  <2>3. \A d \in Coroutines \ {c} : pc'[d] = "idle"
    BY <2>1, <2>2 DEF Launch, Goto, TypeOK
  <2>4. /\ st'.status = "queued" /\ pc'[c] = "boundary" /\ pos'[c] = Verifier
    BY <2>1 DEF Launch, Goto, Keep, TypeOK, RunState
  <2>5. Walk(c)'
    BY <1>1, <2>4 DEF Walk, Working
  <2>6. \A d \in Coroutines : Walk(d)'
    BY <2>3, <2>5 DEF Walk, Working
  <2>7. Single'
    BY <1>1, <2>1, <2>3 DEF Single
  <2> QED
    BY <1>1, <2>4, <2>6, <2>7 DEF MergedIsVerified
<1>3. CASE Keep(s) /\ UNCHANGED <<pc, pos, attempt, task>>
  <2>1. /\ st'.status = "verifying" /\ st'.fresh = st.fresh /\ st'.nodes = st.nodes
        /\ st'.decision = st.decision
    BY <1>3 DEF Keep, TypeOK, RunState
  <2>2. \A c \in Coroutines : pc[c] # "finish"
    BY DEF ApprovePatch, Requested, Quiet, Suspended
  <2>3. \A c \in Coroutines : Walk(c)'
    BY <1>1, <1>3, <2>1, <2>2 DEF Walk, Working, Done
  <2>4. Single'
    BY <1>1, <1>3 DEF Single
  <2> QED
    BY <1>1, <2>1, <2>3, <2>4 DEF MergedIsVerified
<1> QED
  BY <1>2, <1>3 DEF ApprovePatch

----------------------------------------------------------------------------
(* Theorems.                                                               *)

\* The initial state has its type.
LEMMA InitType == Init => TypeOK
<1> SUFFICES ASSUME Init PROVE TypeOK
  OBVIOUS
<1>1. st \in RunState /\ disk = NoCheckpoint
  BY NewStateType DEF Init
<1>2. pc \in [Coroutines -> Stages] /\ \A c \in Coroutines : pc[c] = "idle"
  BY DEF Init, Stages
<1>3. pos \in [Coroutines -> Nodes \cup {Past}]
  BY DEF Init
<1>4. attempt \in [Coroutines -> 0 .. MaxRetries] /\ faults \in 0 .. MaxFaults
  BY BoundsAssumption DEF Init
<1> QED
  BY <1>1, <1>2, <1>3, <1>4 DEF Init, TypeOK

\* Every reachable state has its type.
THEOREM TypeCorrect == Spec => []TypeOK
<1> QED
  BY InitType, TypeStep, PTL DEF Spec

\* Every step keeps the inductive invariant.
LEMMA InvariantStep ==
    ASSUME Mode # "sync"
    PROVE  IInv /\ [Next]_vars => IInv'
<1> SUFFICES ASSUME IInv, [Next]_vars PROVE IInv'
  OBVIOUS
<1>1. TypeOK'
  BY TypeStep DEF IInv
<1>2. ASSUME NEW c \in Coroutines, Advance(c) \/ StartRaises(c) PROVE IInv'
  BY <1>1, <1>2, BudgetExceededStep, SeeCancelledStep, SeePausedStep, StartNodeStep,
     BackoffEndsStep, AgentReturnsStep, GuardFailsStep, PatchHeldStep,
     PatchReadyStep, PatchPendingStep, VerifierReturnsStep, AgentFailsStep,
     FinishStep, FlushedStep, ExecuteJobStep, CreateRunStep, StartRaisesStep DEF
     Advance
<1>3. CASE Watchdog \/ Ack \/ Crash \/ Control
  BY <1>1, <1>3, WatchdogStep, AckStep, CrashStep, PauseStep, ResumeStep,
     StepOverStep, CancelStep, RollbackStep, ApprovePatchStep DEF Control
<1>4. CASE UNCHANGED vars
  BY <1>4 DEF vars, flags, IInv, TypeOK, Single, Walk
<1> QED
  BY <1>2, <1>3, <1>4 DEF Next

\* The strengthened invariant holds of every reachable state.
THEOREM Invariant ==
    ASSUME Mode # "sync"
    PROVE  Spec => []IInv
<1>1. Init => IInv
  <2> SUFFICES ASSUME Init PROVE IInv
    OBVIOUS
  <2>1. TypeOK
    BY InitType
  <2>2. Single /\ \A c \in Coroutines : Walk(c)
    BY DEF Init, Single, Walk, Working
  <2>3. MergedIsVerified(st) /\ Resumable(st)
    BY NewStateResume DEF Init, MergedIsVerified, NewState
  <2> QED
    BY <2>1, <2>2, <2>3 DEF Init, IInv
<1> QED
  BY <1>1, InvariantStep, PTL DEF Spec

\* MERGED means verified: the verdict is about the patch of the run.
THEOREM MergedMeansVerified ==
    ASSUME Mode # "sync"
    PROVE  Spec => []MergedOnlyVerified
<1>1. IInv => MergedOnlyVerified
  BY DEF IInv, MergedOnlyVerified
<1> QED
  BY <1>1, Invariant, PTL

\* One coroutine at a time walks a run.
THEOREM OneCoroutine ==
    ASSUME Mode # "sync"
    PROVE  Spec => []OnePipeline
<1>1. IInv => OnePipeline
  BY DEF IInv, Single, OnePipeline, Active
<1> QED
  BY <1>1, Invariant, PTL

\* Only an agent's step, the retry of one or the loop before one starts an agent.
LEMMA StartedWorks ==
    ASSUME TypeOK, Next, NEW c \in Coroutines, pc[c] # "agent", pc'[c] = "agent"
    PROVE  pc[c] \in Working
<1>1. ASSUME NEW d \in Coroutines, Advance(d) \/ StartRaises(d)
      PROVE  pc[c] \in Working
  BY <1>1 DEF TypeOK, Stages, Working, Advance, BudgetExceeded, Keep, Goto, SeeCancelled, SeePaused, StartNode,
     StartAttempt, Save, BackoffEnds, AgentReturns, Returning, NextNode, Completed, GuardFails, PatchHeld,
     PatchReady, Patched, PatchPending, Leave, VerifierReturns, AgentFails, Raised, Finish, FinalStatus, Flushed,
     ExecuteJob, Launch, ResumeNode, CreateRun, StartRaises
<1>2. CASE Watchdog \/ Ack \/ Crash \/ Control
  BY <1>2 DEF TypeOK, Working, Watchdog, Ack, Crash, Control, Pause, Resume, StepOver, Cancel, Rollback,
     ApprovePatch, Launch, Goto
<1> QED
  BY <1>1, <1>2 DEF Next

\* The worker starts a node only when all before it are completed.
THEOREM WorkerInOrder ==
    ASSUME Mode = "worker"
    PROVE  Spec => NodesInOrder
<1>1. IInv /\ [Next]_vars => [StartsInOrder]_vars
  <2> SUFFICES ASSUME IInv, Next, NEW n \in Nodes, Started(n), NEW k \in 1 .. n - 1
               PROVE  Done(st, k)
    BY DEF StartsInOrder, Done
  <2>1. PICK c \in Coroutines : pc[c] # "agent" /\ pc'[c] = "agent" /\ pos[c] = n
    BY DEF Started
  <2>2. pc[c] \in Working
    BY <2>1, StartedWorks DEF IInv
  <2>3. k \in Nodes /\ k < n
    OBVIOUS
  <2> QED
    BY <2>1, <2>2, <2>3 DEF IInv, Walk
<1>2. Mode # "sync"
  OBVIOUS
<1>3. Spec => []IInv
  BY <1>2, Invariant
<1> QED
  BY <1>1, <1>3, PTL DEF Spec, NodesInOrder

\* A cancellation that arrives before MERGED wins, however the graph is run.
THEOREM CancellationWins == Spec => CancelledNotMerged
<1> DEFINE Wins == cancelled /\ st.status # "merged" => st'.status # "merged"
<1>1. TypeOK /\ [Next]_vars => [Wins]_vars
  <2> SUFFICES ASSUME TypeOK, Next, cancelled, st.status # "merged"
               PROVE  st'.status # "merged"
    OBVIOUS
  <2>1. ASSUME NEW c \in Coroutines, Advance(c) \/ StartRaises(c)
        PROVE  st'.status # "merged"
    <3>1. CASE AgentFails(c)
      <4>1. PICK s \in Raised(c) : Keep([s EXCEPT !.status = "failed"]) \/ Keep(s)
        BY <3>1 DEF AgentFails
      <4>2. s.status = st.status /\ s \in RunState
        BY <3>1, RaisedKeeps, RaisedType DEF AgentFails
      <4> QED
        BY <4>1, <4>2 DEF Keep, RunState
    <3>2. CASE Finish(c)
      BY <3>2 DEF Finish, FinalStatus, Save, TypeOK, RunState
    <3>3. CASE ExecuteJob(c) \/ CreateRun(c)
      <4>1. PICK s \in RunState : \E from : Launch(c, from, s)
        BY <3>3, NewStateType DEF ExecuteJob, CreateRun, TypeOK
      <4> QED
        BY <4>1 DEF Launch, Keep, RunState
    <3>4. CASE StartNode(c) \/ StartRaises(c)
      <4>1. pos[c] \in Nodes
        BY <3>4 DEF TypeOK, StartNode, StartRaises
      <4> QED
        BY <3>4, <4>1, StatusNames DEF StartNode, StartAttempt, StartRaises, Save,
           Keep, TypeOK, RunState
    <3>5. CASE BudgetExceeded(c) \/ SeeCancelled(c) \/ SeePaused(c) \/ BackoffEnds(c) \/ Flushed(c)
      BY <3>5 DEF BudgetExceeded, SeeCancelled, SeePaused, BackoffEnds, Flushed,
         StartAttempt, Save, Keep, TypeOK, RunState
    <3>6. CASE AgentReturns(c) \/ GuardFails(c) \/ PatchHeld(c)
      BY <3>6 DEF AgentReturns, GuardFails, PatchHeld, NextNode, Completed, Save,
         Keep,
         TypeOK, RunState
    <3>7. CASE PatchReady(c) \/ PatchPending(c) \/ VerifierReturns(c)
      BY <3>7 DEF PatchReady, PatchPending, VerifierReturns, Patched, NextNode,
         Completed,
         Save, TypeOK, RunState
    <3> QED
      BY <2>1, <3>1, <3>2, <3>3, <3>4, <3>5, <3>6, <3>7 DEF Advance
  <2>2. CASE Watchdog \/ Ack \/ Crash \/ Control
    <3>1. CASE ApprovePatch
      <4> DEFINE s == [st EXCEPT !.approved = TRUE, !.status = "verifying"]
      <4>1. s \in RunState /\ s.status = "verifying"
        BY StatusNames DEF TypeOK, RunState
      <4> HIDE DEF s
      <4>2. (\E c \in Coroutines : Launch(c, Verifier, s)) \/ Keep(s)
        BY <3>1 DEF ApprovePatch, s
      <4> QED
        BY <4>1, <4>2 DEF Launch, Keep, RunState
    <3>2. CASE Crash
      BY <3>2 DEF Crash, NewState
    <3>3. CASE Watchdog \/ Rollback
      BY <3>3 DEF Watchdog, Rollback, Keep, TypeOK, RunState
    <3>4. CASE Ack \/ Pause \/ Resume \/ StepOver \/ Cancel
      BY <3>4 DEF Ack, Pause, Resume, StepOver, Cancel
    <3> QED
      BY <2>2, <3>1, <3>2, <3>3, <3>4 DEF Control
  <2> QED
    BY <2>1, <2>2 DEF Next
<1> QED
  BY <1>1, TypeCorrect, PTL DEF Spec, CancelledNotMerged

\* A rollback outlasts the end of the pipeline: with no node left to start,
\* nothing but an approval takes ROLLED_BACK from the run (final status of
\* run(), control_run).
THEOREM RollbackIsKept == Spec => RollbackStands
<1> DEFINE Resting == \A c \in Active : pc[c] \in {"finish", "flushing"}
           Kept == st.status = "rolled_back" /\ Resting => st'.status \in {"rolled_back", "queued", "verifying"}
<1>1. TypeOK /\ [Next]_vars => [Kept]_vars
  <2> SUFFICES ASSUME TypeOK, Next, st.status = "rolled_back", Resting
               PROVE  st'.status \in {"rolled_back", "queued", "verifying"}
    OBVIOUS
  <2>1. ASSUME NEW c \in Coroutines, Advance(c) \/ StartRaises(c)
        PROVE  st'.status \in {"rolled_back", "queued", "verifying"}
    <3>1. pc[c] \notin {"boundary", "paused", "agent", "backoff"}
      BY DEF Active
    <3>2. Finish(c) \/ Flushed(c) \/ ExecuteJob(c) \/ CreateRun(c)
      BY <2>1, <3>1 DEF Advance, BudgetExceeded, SeeCancelled, SeePaused, StartNode, BackoffEnds, AgentReturns,
         Returning, GuardFails, PatchHeld, PatchReady, PatchPending, VerifierReturns, AgentFails, StartRaises
    <3>3. CASE Finish(c)
      BY <3>3 DEF Finish, FinalStatus, Save, TypeOK, RunState
    <3>4. CASE Flushed(c)
      BY <3>4 DEF Flushed
    <3>5. CASE ExecuteJob(c) \/ CreateRun(c)
      <4>1. PICK s \in RunState : \E from : Launch(c, from, s)
        BY <3>5, NewStateType DEF ExecuteJob, CreateRun, TypeOK
      <4> QED
        BY <4>1 DEF Launch, Keep, RunState
    <3> QED
      BY <3>2, <3>3, <3>4, <3>5
  <2>2. CASE Watchdog \/ Ack \/ Crash \/ Control
    <3>1. CASE ApprovePatch
      <4> DEFINE s == [st EXCEPT !.approved = TRUE, !.status = "verifying"]
      <4>1. s \in RunState /\ s.status = "verifying"
        BY StatusNames DEF TypeOK, RunState
      <4> HIDE DEF s
      <4>2. (\E c \in Coroutines : Launch(c, Verifier, s)) \/ Keep(s)
        BY <3>1 DEF ApprovePatch, s
      <4> QED
        BY <4>1, <4>2 DEF Launch, Keep, RunState
    <3>2. CASE Crash
      BY <3>2 DEF Crash, NewState
    <3>3. CASE Watchdog \/ Rollback
      BY <3>3 DEF Watchdog, Rollback, Keep, TypeOK, RunState
    <3>4. CASE Ack \/ Pause \/ Resume \/ StepOver \/ Cancel
      BY <3>4 DEF Ack, Pause, Resume, StepOver, Cancel
    <3> QED
      BY <2>2, <3>1, <3>2, <3>3, <3>4 DEF Control
  <2> QED
    BY <2>1, <2>2 DEF Next
<1> QED
  BY <1>1, TypeCorrect, PTL DEF Spec, RollbackStands

\* Whoever walks past the patcher has the approval its patch requires.
Gated(c) == pc[c] \in Working /\ pos[c] \in {Verifier, Reviewer} => (st.needed => st.approved)

\* A step that moves no coroutine past the patcher and leaves what is approved
\* and required as it is keeps the gate.
LEMMA GateKept ==
    ASSUME NEW c \in Coroutines, Gated(c), st'.needed = st.needed, st'.approved = st.approved,
           pc'[c] \in Working => pc[c] \in Working, pos'[c] = pos[c]
    PROVE  Gated(c)'
BY DEF Gated

\* No step of the API's walk, nor a request, gets past the gate.
LEMMA GateStep ==
    ASSUME Mode = "async", IInv, \A c \in Coroutines : Gated(c), [Next]_vars
    PROVE  \A c \in Coroutines : Gated(c)'
<1> USE DEF IInv
<1>1. ASSUME NEW c \in Coroutines, Advance(c) \/ StartRaises(c) PROVE \A d \in Coroutines : Gated(d)'
  <2>1. \A d \in Coroutines \ {c} : pc'[d] = "idle"
    <3>1. \A d \in Coroutines \ {c} : pc[d] = "idle"
      <4>1. CASE CreateRun(c)
        BY <4>1 DEF Single, CreateRun
      <4>2. CASE ~CreateRun(c)
        <5>1. pc[c] # "idle"
          BY <1>1, <4>2 DEF Advance, BudgetExceeded, SeeCancelled, SeePaused, StartNode, BackoffEnds, AgentReturns,
             Returning, GuardFails, PatchHeld, PatchReady, PatchPending, VerifierReturns, AgentFails, Finish,
             Flushed, ExecuteJob, StartRaises
        <5> QED
          BY <5>1 DEF Single
      <4> QED
        BY <4>1, <4>2
    <3>2. \A d \in Coroutines \ {c} : pc'[d] = pc[d]
      BY <1>1 DEF TypeOK, Advance, BudgetExceeded, SeeCancelled, SeePaused, StartNode, StartAttempt, BackoffEnds,
         AgentReturns, NextNode, GuardFails, PatchHeld, PatchReady, PatchPending, Leave, VerifierReturns,
         AgentFails, Finish, Flushed, ExecuteJob, CreateRun, Launch, StartRaises, Goto
    <3> QED
      BY <3>1, <3>2
  <2>2. Gated(c)'
    <3>1. CASE BudgetExceeded(c) \/ SeeCancelled(c) \/ GuardFails(c) \/ PatchHeld(c) \/ PatchPending(c) \/ Finish(c)
               \/ Flushed(c) \/ StartRaises(c)
      <4>1. pc'[c] \in {"finish", "idle", "flushing"}
        BY <3>1 DEF TypeOK, BudgetExceeded, SeeCancelled, GuardFails, PatchHeld, PatchPending, Leave, Finish, Flushed,
           StartRaises, Goto
      <4> QED
        BY <4>1 DEF Gated, Working
    <3>2. CASE SeePaused(c)
      BY <3>2 DEF Gated, Working, SeePaused, Goto, TypeOK
    <3>3. CASE StartNode(c) \/ BackoffEnds(c)
      <4>1. pc[c] \in Working /\ pos' = pos
        BY <3>3 DEF StartNode, BackoffEnds, Working
      <4>2. st'.needed = st.needed /\ st'.approved = st.approved
        BY <3>3 DEF TypeOK, RunState, StartNode, BackoffEnds, StartAttempt, Save
      <4> QED
        BY <4>1, <4>2, GateKept
    <3>4. CASE AgentFails(c)
      <4>1. PICK s \in Raised(c) : Keep([s EXCEPT !.status = "failed"]) \/ Keep(s)
        BY <3>4 DEF AgentFails
      <4>2. s \in RunState /\ s.needed = st.needed /\ s.approved = st.approved
        <5>1. s \in RunState
          BY <3>4, <4>1, RaisedType DEF AgentFails
        <5>2. pos[c] \in Nodes
          BY <3>4 DEF AgentFails, TypeOK, Stages
        <5>3. st \in RunState /\ st.held \in BOOLEAN
          BY DEF TypeOK, RunState
        <5>4. CASE pos[c] = Patcher
          <6>1. \E h \in BOOLEAN : s = [st EXCEPT !.nodes[Patcher] = "failed", !.fresh = FALSE, !.held = h]
            BY <4>1, <5>3, <5>4 DEF Raised
          <6> QED
            BY <5>1, <5>3, <6>1 DEF RunState
        <5>5. CASE pos[c] # Patcher
          <6>1. s = [st EXCEPT !.nodes[pos[c]] = "failed"]
            BY <4>1, <5>5 DEF Raised
          <6> QED
            BY <5>1, <5>3, <6>1 DEF RunState
        <5> QED
          BY <5>1, <5>4, <5>5
      <4>3. st'.needed = st.needed /\ st'.approved = st.approved
        BY <4>1, <4>2 DEF Keep, RunState
      <4>4. pc[c] \in Working /\ pos' = pos
        BY <3>4 DEF AgentFails, Working
      <4> QED
        BY <4>3, <4>4, GateKept
    <3>5. CASE AgentReturns(c)
      <4>1. pos'[c] \notin {Verifier, Reviewer} \/ pc'[c] = "finish"
        <5>1. pos[c] \in {Onboarding, Reproduction, Planner, Reviewer} /\ pos' = [pos EXCEPT ![c] = pos[c] + 1]
              /\ pc' = [pc EXCEPT ![c] = IF pos[c] = Reviewer THEN "finish" ELSE "boundary"]
          BY <3>5 DEF AgentReturns, Returning, NextNode, Goto
        <5>2. pos'[c] = pos[c] + 1 /\ (pos[c] = Reviewer => pc'[c] = "finish")
          BY <5>1 DEF TypeOK
        <5> QED
          BY <5>1, <5>2
      <4> QED
        BY <4>1 DEF Gated, Working
    <3>6. CASE PatchReady(c)
      <4>1. PICK conflict \in BOOLEAN, needed \in {AlwaysApprove, TRUE} :
               (~needed \/ st.approved) /\ st' = Patched(c, conflict, needed)
        BY <3>6 DEF PatchReady, NextNode, Save
      <4>2. st'.needed = needed /\ st'.approved = st.approved
        BY <4>1 DEF Patched, Completed, TypeOK, RunState
      <4> QED
        BY <4>1, <4>2 DEF Gated
    <3>7. CASE VerifierReturns(c)
      <4>1. st'.needed = st.needed /\ st'.approved = st.approved
        BY <3>7 DEF VerifierReturns, NextNode, Save, Completed, TypeOK, RunState
      <4>2. pc[c] \in Working /\ pos[c] = Verifier
        BY <3>7 DEF VerifierReturns, Returning, Working
      <4>3. st.needed => st.approved
        BY <4>2 DEF Gated
      <4> QED
        BY <4>1, <4>3 DEF Gated
    <3>8. CASE CreateRun(c)
      <4>1. pos'[c] = Onboarding
        BY <3>8 DEF CreateRun, Launch, TypeOK
      <4> QED
        BY <4>1 DEF Gated
    <3> QED
      BY <1>1, <3>1, <3>2, <3>3, <3>4, <3>5, <3>6, <3>7, <3>8 DEF Advance, ExecuteJob
  <2>3. \A d \in Coroutines \ {c} : Gated(d)'
    BY <2>1 DEF Gated, Working
  <2> QED
    BY <2>2, <2>3
<1>2. CASE Ack \/ Pause \/ Resume \/ StepOver \/ Cancel \/ UNCHANGED vars
  <2>1. UNCHANGED <<st, pc, pos>>
    BY <1>2 DEF Ack, Pause, Resume, StepOver, Cancel, vars
  <2> QED
    BY <2>1 DEF Gated
<1>3. CASE Rollback
  <2>1. st'.needed = st.needed /\ st'.approved = st.approved /\ UNCHANGED <<pc, pos>>
    BY <1>3 DEF Rollback, Keep, TypeOK, RunState
  <2> QED
    BY <2>1, GateKept
<1>4. CASE ApprovePatch
  <2> DEFINE s == [st EXCEPT !.approved = TRUE, !.status = "verifying"]
  <2>1. s \in RunState /\ s.approved
    BY StatusNames DEF TypeOK, RunState
  <2> HIDE DEF s
  <2>2. (\E c \in Coroutines : Launch(c, Verifier, s)) \/ Keep(s)
    BY <1>4 DEF ApprovePatch, s
  <2>3. st'.approved
    BY <2>1, <2>2 DEF Launch, Keep, RunState
  <2> QED
    BY <2>3 DEF Gated
<1>5. ~Watchdog /\ ~Crash
  BY DEF Watchdog, Crash
<1> QED
  BY <1>1, <1>2, <1>3, <1>4, <1>5 DEF Next, Control

\* ApprovalGate: the API's walk starts to verify a patch that requires an
\* approval only when approve_patch was received, also when it arrives while
\* another patch is made, or the run is paused, cancelled or rolled back
\* (is_approval_required, control_run).
THEOREM PatchIsApproved ==
    ASSUME Mode = "async"
    PROVE  Spec => ApprovalGate
<1> DEFINE GateInv == IInv /\ \A c \in Coroutines : Gated(c)
           Asked == Started(Verifier) /\ st.needed => st.approved
<1>1. Mode # "sync"
  OBVIOUS
<1>2. Init => \A c \in Coroutines : Gated(c)
  BY DEF Init, Gated, Working
<1>4. GateInv /\ [Next]_vars => [Asked]_vars
  <2> SUFFICES ASSUME GateInv, Next, Started(Verifier), st.needed PROVE st.approved
    OBVIOUS
  <2>1. PICK c \in Coroutines : pc[c] # "agent" /\ pc'[c] = "agent" /\ pos[c] = Verifier
    BY DEF Started
  <2>2. pc[c] \in Working
    BY <2>1, StartedWorks DEF IInv
  <2> QED
    BY <2>1, <2>2 DEF Gated
<1>5. Spec => []IInv
  BY <1>1, Invariant
<1> HIDE DEF Asked
<1>7. IInv /\ [Next]_vars /\ IInv' /\ (\A c \in Coroutines : Gated(c)) => (\A c \in Coroutines : Gated(c))'
  BY <1>1, GateStep
<1> QED
  BY <1>2, <1>4, <1>5, <1>7, PTL DEF Spec, ApprovalGate, Asked
=============================================================================
