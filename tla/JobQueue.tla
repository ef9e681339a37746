------------------------------ MODULE JobQueue ------------------------------
(***************************************************************************)
(* The durable job queue of loom.runtime: API processes enqueue runs on a  *)
(* Redis stream, workers of one consumer group claim them under a per-job  *)
(* lease, execute them, and acknowledge, retry or dead-letter them.        *)
(*                                                                         *)
(* Every Redis call is one action, so a crash, a failing call or another   *)
(* worker can fall between any two of them.  A message is named by its     *)
(* position in the stream.  A lease token is represented by the worker     *)
(* that drew it: a worker draws a token only after it dropped the previous *)
(* one, and a token whose worker forgot it (crash) becomes Orphan.         *)
(* Which consumer owns a pending entry is not kept: XAUTOCLAIM takes       *)
(* entries of any consumer and XACK acknowledges for any consumer.         *)
(***************************************************************************)
EXTENDS Naturals, Sequences, FiniteSets

CONSTANTS
  Workers,      \* worker processes (consumers of the group)
  Runs,         \* runs a client may submit
  MaxAttempts,  \* RunWorker.max_attempts
  ClaimCount,   \* how many entries one XAUTOCLAIM takes (10 in the code)
  Faults,       \* the kinds of fault that may happen, a subset of FaultKinds
  MaxFaults,    \* bound on the number of faults in a behaviour
  Free,         \* no lease key
  Orphan        \* a lease key whose token no process knows any more

FaultKinds == {"crash", "call", "heartbeat", "stall"}

ASSUME ConstantsAssumption ==
  /\ MaxAttempts \in Nat \ {0}
  /\ ClaimCount \in Nat \ {0}
  /\ MaxFaults \in Nat
  /\ Faults \subseteq FaultKinds
  /\ Free \notin Workers
  /\ Orphan \notin Workers
  /\ Free # Orphan

VARIABLES
  \* Redis
  stream,      \* loom:jobs, a sequence of jobs; entries are never deleted
  delivered,   \* last-delivered id of the consumer group
  pel,         \* delivered and not acknowledged messages
  idle,        \* the pending messages idle for the visibility timeout
  lease,       \* loom:job-lease:<job>, the token stored under the key
  jobStatus,   \* status field of the hash loom:job:<job>
  deadLetter,  \* the jobs on loom:jobs:dead-letter
  \* API process
  admission,   \* how far the request that creates a run has come
  \* worker processes
  pc,          \* where run_forever stands
  msg,         \* the message being handled, 0 when there is none
  batch,       \* autoclaimed messages not tried yet
  hb,          \* the heartbeat task of the job being handled
  \* history
  completed,   \* runs some execution of which returned normally
  faults       \* faults so far

redisVars == <<stream, delivered, pel, idle, lease, jobStatus, deadLetter>>
workerVars == <<pc, msg, batch, hb>>
vars == <<redisVars, admission, workerVars, completed, faults>>

-----------------------------------------------------------------------------
(* A RunJob.  Its job_id is a function of the run and the attempt: the API *)
(* draws one id per run, a retry appends ":retry:<attempt>".               *)
Job == [run : Runs, attempt : 0..(MaxAttempts - 1)]
FirstJob(r) == [run |-> r, attempt |-> 0]
RetryOf(j) == [run |-> j.run, attempt |-> j.attempt + 1]

Stages == {"poll", "scan", "fetched",
           "claimed", "started", "executing", "executed", "acking",
           "markDead", "bury", "markRetry", "requeue", "requeued", "ackFailed",
           "release"}
TryStages == {"claimed", "started", "executed", "acking"}
HandlerStages == {"markDead", "bury", "markRetry", "requeue", "requeued", "ackFailed"}
(* From the lease being granted to release_lease. *)
HoldingStages == TryStages \cup HandlerStages \cup {"executing", "release"}

JobOf(w) == stream[msg[w]]
Pending(m) == m \in pel
Undelivered(m) == m \in (delivered + 1)..Len(stream)
Holds(w) == lease[JobOf(w)] = w

Init ==
  /\ stream = <<>>
  /\ delivered = 0
  /\ pel = {}
  /\ idle = {}
  /\ lease = [j \in Job |-> Free]
  /\ jobStatus = [j \in Job |-> "none"]
  /\ deadLetter = {}
  /\ admission = [r \in Runs |-> "new"]
  /\ pc = [w \in Workers |-> "poll"]
  /\ msg = [w \in Workers |-> 0]
  /\ batch = [w \in Workers |-> {}]
  /\ hb = [w \in Workers |-> "off"]
  /\ completed = {}
  /\ faults = 0

-----------------------------------------------------------------------------
(* Admission: _production_create_run records the run, then enqueues it; an *)
(* enqueue is an XADD followed by an HSET.                                 *)
Record(r) ==
  /\ admission[r] = "new"
  /\ admission' = [admission EXCEPT ![r] = "recorded"]
  /\ UNCHANGED <<redisVars, workerVars, completed, faults>>

Publish(r) ==
  /\ admission[r] = "recorded"
  /\ admission' = [admission EXCEPT ![r] = "published"]
  /\ stream' = Append(stream, FirstJob(r))
  /\ UNCHANGED <<delivered, pel, idle, lease, jobStatus, deadLetter, workerVars,
                 completed, faults>>

MarkQueued(r) ==
  /\ admission[r] = "published"
  /\ admission' = [admission EXCEPT ![r] = "done"]
  /\ jobStatus' = [jobStatus EXCEPT ![FirstJob(r)] = "queued"]
  /\ UNCHANGED <<stream, delivered, pel, idle, lease, deadLetter, workerVars,
                 completed, faults>>

-----------------------------------------------------------------------------
(* JobQueue.claim: XAUTOCLAIM of the idle entries, oldest first, ...       *)
ClaimableNow == {m \in idle : Cardinality({k \in idle : k <= m}) <= ClaimCount}

AutoClaim(w) ==
  /\ pc[w] = "poll"
  /\ pc' = [pc EXCEPT ![w] = "scan"]
  /\ batch' = [batch EXCEPT ![w] = ClaimableNow]
  /\ idle' = idle \ ClaimableNow
  /\ UNCHANGED <<stream, delivered, pel, lease, jobStatus, deadLetter, admission,
                 msg, hb, completed, faults>>

(* Mutation: SET without NX. *)
GrantAnyway(w, m) ==
  /\ lease' = [lease EXCEPT ![stream[m]] = w]
  /\ pc' = [pc EXCEPT ![w] = "claimed"]
  /\ msg' = [msg EXCEPT ![w] = m]
  /\ batch' = [batch EXCEPT ![w] = {}]
  /\ hb' = [hb EXCEPT ![w] = "on"]

(* A lease granted for message m starts the heartbeat task of the job. *)
Grant(w, m) ==
  /\ lease[stream[m]] = Free
  /\ lease' = [lease EXCEPT ![stream[m]] = w]
  /\ pc' = [pc EXCEPT ![w] = "claimed"]
  /\ msg' = [msg EXCEPT ![w] = m]
  /\ batch' = [batch EXCEPT ![w] = {}]
  /\ hb' = [hb EXCEPT ![w] = "on"]

(* ... then SET NX for each of them until a lease is granted, ... *)
TryLeaseScanned(w) ==
  /\ pc[w] = "scan"
  /\ \E m \in batch[w] :
       /\ \A k \in batch[w] : m <= k
       /\ \/ Grant(w, m)
          \/ /\ lease[stream[m]] # Free
             /\ batch' = [batch EXCEPT ![w] = @ \ {m}]
             /\ UNCHANGED <<lease, pc, msg, hb>>
  /\ UNCHANGED <<stream, delivered, pel, idle, jobStatus, deadLetter, admission,
                 completed, faults>>

(* ... and, when none was, one new entry with XREADGROUP. *)
ReadGroup(w) ==
  /\ pc[w] = "scan"
  /\ batch[w] = {}
  /\ \/ /\ delivered < Len(stream)
        /\ delivered' = delivered + 1
        /\ pel' = pel \cup {delivered + 1}
        /\ msg' = [msg EXCEPT ![w] = delivered + 1]
        /\ pc' = [pc EXCEPT ![w] = "fetched"]
     \/ /\ delivered = Len(stream)
        /\ pc' = [pc EXCEPT ![w] = "poll"]
        /\ UNCHANGED <<delivered, pel, msg>>
  /\ UNCHANGED <<stream, idle, lease, jobStatus, deadLetter, admission, batch, hb,
                 completed, faults>>

TryLeaseNew(w) ==
  /\ pc[w] = "fetched"
  /\ \/ Grant(w, msg[w])
     \/ /\ ~ lease[JobOf(w)] = Free
        /\ pc' = [pc EXCEPT ![w] = "poll"]
        /\ msg' = [msg EXCEPT ![w] = 0]
        /\ UNCHANGED <<lease, batch, hb>>
  /\ UNCHANGED <<stream, delivered, pel, idle, jobStatus, deadLetter, admission,
                 completed, faults>>

-----------------------------------------------------------------------------
(* Mutation: the attempt limit is off by one. *)
CaughtOneMore(w, fatal) ==
  pc' = [pc EXCEPT ![w] = IF fatal \/ JobOf(w).attempt + 1 > MaxAttempts
                          THEN "markDead" ELSE "markRetry"]

(* The handler of run_forever, entered by any exception of the try block:  *)
(* a fatal class or the last attempt buries the job, another one retries.  *)
Caught(w, fatal) ==
  pc' = [pc EXCEPT ![w] = IF fatal \/ JobOf(w).attempt + 1 >= MaxAttempts
                          THEN "markDead" ELSE "markRetry"]

SetStatus(j, s) == jobStatus' = [jobStatus EXCEPT ![j] = s]

Goto(w, from, to) == pc[w] = from /\ pc' = [pc EXCEPT ![w] = to]

XAdd(j) == stream' = Append(stream, j)

XAck(m) == pel' = pel \ {m} /\ idle' = idle \ {m}

MarkStarted(w) ==
  /\ Goto(w, "claimed", "started")
  /\ SetStatus(JobOf(w), "running")
  /\ UNCHANGED <<stream, delivered, pel, idle, lease, deadLetter, admission, msg,
                 batch, hb, completed, faults>>

(* The renewal at the end of mark_started raises when the lease is lost. *)
RenewOnStart(w) ==
  /\ pc[w] = "started"
  /\ IF Holds(w) THEN pc' = [pc EXCEPT ![w] = "executing"] ELSE Caught(w, FALSE)
  /\ UNCHANGED <<redisVars, admission, msg, batch, hb, completed, faults>>

(* execute_run_job returns, or raises with a retryable or a fatal class. *)
ExecuteOk(w) ==
  /\ Goto(w, "executing", "executed")
  /\ completed' = completed \cup {JobOf(w).run}
  /\ UNCHANGED <<redisVars, admission, msg, batch, hb, faults>>

(* Mutation: the error of an execution is swallowed. *)
ErrorSwallowed(w) ==
  /\ Goto(w, "executing", "executed")
  /\ UNCHANGED <<redisVars, admission, msg, batch, hb, completed, faults>>

ExecuteFail(w) ==
  /\ pc[w] = "executing"
  /\ \E fatal \in BOOLEAN : Caught(w, fatal)
  /\ UNCHANGED <<redisVars, admission, msg, batch, hb, completed, faults>>

(* lease_lost fired first: the execution is cancelled and ExecutionLeaseLost *)
(* is raised, whose class is UNKNOWN and therefore retryable.                *)
CancelOnLeaseLost(w) ==
  /\ pc[w] = "executing"
  /\ hb[w] = "lost"
  /\ Caught(w, FALSE)
  /\ UNCHANGED <<redisVars, admission, msg, batch, hb, completed, faults>>

MarkSucceeded(w) ==
  /\ Goto(w, "executed", "acking")
  /\ SetStatus(JobOf(w), "succeeded")
  /\ UNCHANGED <<stream, delivered, pel, idle, lease, deadLetter, admission, msg,
                 batch, hb, completed, faults>>

AckSucceeded(w) ==
  /\ Goto(w, "acking", "release")
  /\ XAck(msg[w])
  /\ UNCHANGED <<stream, delivered, lease, jobStatus, deadLetter, admission, msg,
                 batch, hb, completed, faults>>

MarkDeadLetter(w) ==
  /\ Goto(w, "markDead", "bury")
  /\ SetStatus(JobOf(w), "dead_letter")
  /\ UNCHANGED <<stream, delivered, pel, idle, lease, deadLetter, admission, msg,
                 batch, hb, completed, faults>>

Bury(w) ==
  /\ Goto(w, "bury", "ackFailed")
  /\ deadLetter' = deadLetter \cup {JobOf(w)}
  /\ UNCHANGED <<stream, delivered, pel, idle, lease, jobStatus, admission, msg,
                 batch, hb, completed, faults>>

(* Mutation: the failed entry is acknowledged before the retry is queued. *)
AckThenRetry(w) ==
  /\ Goto(w, "markRetry", "requeue")
  /\ SetStatus(JobOf(w), "retrying")
  /\ XAck(msg[w])
  /\ UNCHANGED <<stream, delivered, lease, deadLetter, admission, msg, batch, hb,
                 completed, faults>>

MarkRetrying(w) ==
  /\ Goto(w, "markRetry", "requeue")
  /\ SetStatus(JobOf(w), "retrying")
  /\ UNCHANGED <<stream, delivered, pel, idle, lease, deadLetter, admission, msg,
                 batch, hb, completed, faults>>

Requeue(w) ==
  /\ Goto(w, "requeue", "requeued")
  /\ XAdd(RetryOf(JobOf(w)))
  /\ UNCHANGED <<delivered, pel, idle, lease, jobStatus, deadLetter, admission, msg,
                 batch, hb, completed, faults>>

MarkRequeued(w) ==
  /\ Goto(w, "requeued", "ackFailed")
  /\ SetStatus(RetryOf(JobOf(w)), "queued")
  /\ UNCHANGED <<stream, delivered, pel, idle, lease, deadLetter, admission, msg,
                 batch, hb, completed, faults>>

AckFailed(w) ==
  /\ Goto(w, "ackFailed", "release")
  /\ XAck(msg[w])
  /\ UNCHANGED <<stream, delivered, lease, jobStatus, deadLetter, admission, msg,
                 batch, hb, completed, faults>>

(* Mutation: DEL whatever token the key holds. *)
ReleaseAnyLease(j, w, heartbeatDied) ==
  lease' = [lease EXCEPT ![j] = IF heartbeatDied THEN @ ELSE Free]

(* The finally block.  release_lease deletes the key only under the       *)
(* worker's own token; awaiting a heartbeat task that died re-raises its  *)
(* error before release_lease is reached, and the process restarts.       *)
ReleaseLease(j, w, heartbeatDied) ==
  lease' = [lease EXCEPT ![j] =
              IF @ # w THEN @ ELSE IF heartbeatDied THEN Orphan ELSE Free]

Finally(w) ==
  /\ Goto(w, "release", "poll")
  /\ ReleaseLease(JobOf(w), w, hb[w] = "dead")
  /\ msg' = [msg EXCEPT ![w] = 0]
  /\ hb' = [hb EXCEPT ![w] = "off"]
  /\ UNCHANGED <<stream, delivered, pel, idle, jobStatus, deadLetter, admission,
                 batch, completed, faults>>

(* One beat of _heartbeat: a renewal under a token that is no longer in    *)
(* the key sets lease_lost and ends the task.  A renewal that succeeds     *)
(* only restarts the TTL, which LeaseExpires does not count.               *)
Heartbeat(w) ==
  /\ hb[w] = "on"
  /\ ~ Holds(w)
  /\ hb' = [hb EXCEPT ![w] = "lost"]
  /\ UNCHANGED <<redisVars, admission, pc, msg, batch, completed, faults>>

-----------------------------------------------------------------------------
(* Time. *)
BecomeIdle(m) ==
  /\ m \in pel \ idle
  /\ idle' = idle \cup {m}
  /\ UNCHANGED <<stream, delivered, pel, lease, jobStatus, deadLetter, admission,
                 workerVars, completed, faults>>

(* Mutation: SET without a TTL. *)
LeaseNeverExpires(j) == FALSE /\ UNCHANGED vars

(* The TTL of a key nobody renews runs out. *)
LeaseExpires(j) ==
  /\ \/ lease[j] = Orphan
     \/ \E w \in Workers : lease[j] = w /\ hb[w] = "dead"
  /\ lease' = [lease EXCEPT ![j] = Free]
  /\ UNCHANGED <<stream, delivered, pel, idle, jobStatus, deadLetter, admission,
                 workerVars, completed, faults>>

(* Faults, at most MaxFaults of them and only of the kinds in Faults. *)
Fault(kind) ==
  /\ kind \in Faults
  /\ faults < MaxFaults
  /\ faults' = faults + 1

(* The event loop is blocked, or cut off from Redis, for a whole TTL. *)
LeaseOverrun(w) ==
  /\ Fault("stall")
  /\ hb[w] = "on"
  /\ Holds(w)
  /\ lease' = [lease EXCEPT ![JobOf(w)] = Free]
  /\ UNCHANGED <<stream, delivered, pel, idle, jobStatus, deadLetter, admission,
                 workerVars, completed>>

(* A beat raises: the heartbeat task ends and lease_lost is never set. *)
HeartbeatDies(w) ==
  /\ Fault("heartbeat")
  /\ hb[w] = "on"
  /\ hb' = [hb EXCEPT ![w] = "dead"]
  /\ UNCHANGED <<redisVars, admission, pc, msg, batch, completed>>

(* A Redis call of the try block raises, its effect lost or not: a         *)
(* connection error, class TRANSIENT.  Only the XACK needs the second case *)
(* here, the other calls have it in the stage that follows them.           *)
CallFails(w) ==
  /\ Fault("call")
  /\ pc[w] \in TryStages
  /\ Caught(w, FALSE)
  /\ \/ UNCHANGED <<pel, idle>>
     \/ pc[w] = "acking" /\ XAck(msg[w])
  /\ UNCHANGED <<stream, delivered, lease, jobStatus, deadLetter, admission, msg,
                 batch, hb, completed>>

(* An error inside the autoclaim part of claim is logged and skipped; the *)
(* SET NX may have been applied, then nobody knows its token.             *)
ScanFails(w) ==
  /\ Fault("call")
  /\ pc[w] = "scan"
  /\ \E m \in batch[w] :
       /\ \A k \in batch[w] : m <= k
       /\ \/ UNCHANGED lease
          \/ /\ lease[stream[m]] = Free
             /\ lease' = [lease EXCEPT ![stream[m]] = Orphan]
  /\ batch' = [batch EXCEPT ![w] = {}]
  /\ UNCHANGED <<stream, delivered, pel, idle, jobStatus, deadLetter, admission, pc,
                 msg, hb, completed>>

(* A Redis call of the handler raises: the finally block still runs. *)
HandlerCallFails(w) ==
  /\ Fault("call")
  /\ pc[w] \in HandlerStages
  /\ pc' = [pc EXCEPT ![w] = "release"]
  /\ UNCHANGED <<redisVars, admission, msg, batch, hb, completed>>

(* The worker process dies and is restarted by the service manager. *)
WorkerCrash(w) ==
  /\ Fault("crash")
  /\ pc[w] # "poll"
  /\ pc' = [pc EXCEPT ![w] = "poll"]
  /\ msg' = [msg EXCEPT ![w] = 0]
  /\ batch' = [batch EXCEPT ![w] = {}]
  /\ hb' = [hb EXCEPT ![w] = "off"]
  /\ lease' = [j \in Job |-> IF lease[j] = w THEN Orphan ELSE lease[j]]
  /\ UNCHANGED <<stream, delivered, pel, idle, jobStatus, deadLetter, admission,
                 completed>>

(* The API process dies, or its call fails, in the middle of an admission. *)
ApiCrash(r) ==
  /\ Fault("crash")
  /\ admission[r] \in {"recorded", "published"}
  /\ admission' = [admission EXCEPT ![r] = "abandoned"]
  /\ UNCHANGED <<redisVars, workerVars, completed>>

-----------------------------------------------------------------------------
Admit(r) == Record(r) \/ Publish(r) \/ MarkQueued(r)

Claim(w) == AutoClaim(w) \/ TryLeaseScanned(w) \/ ReadGroup(w) \/ TryLeaseNew(w)

Handle(w) ==
  \/ MarkStarted(w) \/ RenewOnStart(w)
  \/ ExecuteOk(w) \/ ExecuteFail(w) \/ CancelOnLeaseLost(w)
  \/ MarkSucceeded(w) \/ AckSucceeded(w)
  \/ MarkDeadLetter(w) \/ Bury(w)
  \/ MarkRetrying(w) \/ Requeue(w) \/ MarkRequeued(w)
  \/ AckFailed(w) \/ Finally(w)

WorkerStep(w) == Claim(w) \/ Handle(w)

WorkerFault(w) ==
  \/ LeaseOverrun(w) \/ HeartbeatDies(w) \/ CallFails(w) \/ ScanFails(w)
  \/ HandlerCallFails(w) \/ WorkerCrash(w)

Next ==
  \/ \E r \in Runs : Admit(r) \/ ApiCrash(r)
  \/ \E w \in Workers : WorkerStep(w) \/ Heartbeat(w) \/ WorkerFault(w)
  \/ \E m \in pel : BecomeIdle(m)
  \/ \E j \in Job : LeaseExpires(j)

Spec == Init /\ [][Next]_vars

(* A worker loop keeps taking steps (and an execution ends: its steps are  *)
(* bounded by retries and time limits), its heartbeat keeps beating, and   *)
(* time passes for pending entries and for keys nobody renews.             *)
Fairness ==
  /\ \A w \in Workers : WF_vars(WorkerStep(w)) /\ WF_vars(Heartbeat(w))
  /\ WF_vars(\E m \in pel : BecomeIdle(m))
  /\ \A j \in Job : WF_vars(LeaseExpires(j))

FairSpec == Spec /\ Fairness

-----------------------------------------------------------------------------
(* Every variable keeps its type: an acknowledged, pending or idle message  *)
(* was delivered, and a delivered one is in the stream.                     *)
TypeOK ==
  /\ stream \in Seq(Job)
  /\ delivered \in 0..Len(stream)
  /\ pel \subseteq 1..delivered
  /\ idle \subseteq pel
  /\ lease \in [Job -> Workers \cup {Free, Orphan}]
  /\ jobStatus \in [Job -> {"none", "queued", "running", "succeeded", "retrying",
                            "dead_letter"}]
  /\ deadLetter \subseteq Job
  /\ admission \in [Runs -> {"new", "recorded", "published", "done", "abandoned"}]
  /\ pc \in [Workers -> Stages]
  /\ msg \in [Workers -> 0..delivered]
  /\ batch \in [Workers -> SUBSET (1..delivered)]
  /\ hb \in [Workers -> {"off", "on", "lost", "dead"}]
  /\ completed \subseteq Runs
  /\ faults \in 0..MaxFaults

(* A worker that is handling a job names a message of the stream, and only  *)
(* a job below the attempt limit is on the way to being retried.            *)
HandlingOK ==
  \A w \in Workers :
    /\ pc[w] \in HoldingStages \cup {"fetched"} => msg[w] # 0
    /\ pc[w] \in {"markRetry", "requeue", "requeued"}
         => JobOf(w).attempt + 1 < MaxAttempts

Enqueued(r) == \E m \in DOMAIN stream : stream[m].run = r

Buried(r) == \E j \in deadLetter : j.run = r

(* Some message still brings the run to a worker. *)
InBacklog(r) ==
  \E m \in DOMAIN stream : stream[m].run = r /\ (Undelivered(m) \/ Pending(m))

(* An enqueued run is never lost: whatever crashes, whichever call fails    *)
(* and whoever acknowledges for whom, it has been executed to its end, or   *)
(* is on the dead-letter stream, or is still going to be delivered (the     *)
(* order of the calls in run_forever, worker.py lines 62-90).               *)
NoLostRun ==
  \A r \in Runs : Enqueued(r) => r \in completed \/ Buried(r) \/ InBacklog(r)

(* A retry never outruns its budget or its origin: attempt n > 0 of a run   *)
(* is only ever queued behind attempt n - 1 of the same run, and no attempt *)
(* beyond the limit exists (worker.py lines 67-90).                         *)
RetryChain ==
  \A m \in DOMAIN stream :
    /\ stream[m].attempt < MaxAttempts
    /\ stream[m].attempt > 0 =>
         \E k \in 1..(m - 1) : RetryOf(stream[k]) = stream[m]

(* As long as renewal is reliable (no heartbeat task dies, no renewal comes *)
(* a whole TTL late) no two workers handle the same job at the same time,   *)
(* whatever crashes, redeliveries and failing calls do.                     *)
RenewalReliable == Faults \cap {"heartbeat", "stall"} = {}

OneWorkerPerJob ==
  \A v, w \in Workers :
    /\ v # w
    /\ pc[v] \in HoldingStages
    /\ pc[w] \in HoldingStages
    => JobOf(v) # JobOf(w)

LeaseExcludes == RenewalReliable => OneWorkerPerJob

(* A worker that outlived its lease cannot take the lease of its successor: *)
(* a lease in a worker's hand is given up only by a step of that worker, or *)
(* because it expired (the token comparison of release_lease).              *)
LeaseOnlyDroppedByHolder ==
  [][\A j \in Job, w \in Workers :
       lease[j] = w /\ lease'[j] # w =>
         pc'[w] # pc[w] \/ hb[w] = "dead" \/ faults' # faults]_vars

(* An entry leaves the pending list only when its job has an outcome that   *)
(* outlives the worker: a finished execution, a dead letter, or the queued  *)
(* next attempt.                                                            *)
OutcomeRecorded(m) ==
  \/ stream[m].run \in completed
  \/ stream[m] \in deadLetter
  \/ \E k \in DOMAIN stream : stream[k] = RetryOf(stream[m])

AckedHasOutcome ==
  \A m \in DOMAIN stream : Undelivered(m) \/ Pending(m) \/ OutcomeRecorded(m)

(* Between a finished or failed execution and the XACK the outcome is      *)
(* already recorded, so the XACK may be applied at any later moment.        *)
OutcomeBeforeAck ==
  \A w \in Workers :
    /\ pc[w] \in {"executed", "acking"} => JobOf(w).run \in completed
    /\ pc[w] = "requeued" => \E k \in DOMAIN stream : stream[k] = RetryOf(JobOf(w))
    /\ pc[w] = "ackFailed" => OutcomeRecorded(msg[w])

(* Among the messages of an enqueued run one has the highest attempt. *)
LastAttemptExists ==
  \A r \in Runs : Enqueued(r) =>
    \E m \in DOMAIN stream :
      /\ stream[m].run = r
      /\ \A k \in DOMAIN stream : stream[k].run = r => stream[k].attempt <= stream[m].attempt

(* The API enqueues a run once. *)
NotEnqueuedEarly ==
  \A r \in Runs : admission[r] \in {"new", "recorded"} => ~ Enqueued(r)

(* The inductive invariant behind NoLostRun: besides AckedHasOutcome, what  *)
(* a worker knows between two calls.                                        *)
DeliveryInv ==
  /\ HandlingOK
  /\ OutcomeBeforeAck
  /\ AckedHasOutcome
  /\ LastAttemptExists
  /\ NotEnqueuedEarly

(* The inductive invariant behind LeaseExcludes: every worker between claim *)
(* and release has its token in the key and a live heartbeat.               *)
HolderHasLease ==
  RenewalReliable =>
    \A w \in Workers :
      IF pc[w] \in HoldingStages THEN Holds(w) /\ hb[w] = "on" ELSE hb[w] = "off"

(* The queue implements at-least-once delivery: RunDelivery, where a run is *)
(* accepted by the XADD of its first job, is in the backlog while a message *)
(* brings it, and is settled by a finished execution or a dead letter.      *)
Accepted == {r \in Runs : Enqueued(r)}
Backlog == {r \in Runs : InBacklog(r)}
Settled == completed \cup {r \in Runs : Buried(r)}

Delivery == INSTANCE RunDelivery WITH
  accepted <- Accepted, backlog <- Backlog, settled <- Settled

DeliverySafe == Delivery!SafeSpec
AtLeastOnce == Delivery!Spec

=============================================================================
