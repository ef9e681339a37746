--------------------------- MODULE JobQueueProofs ---------------------------
(***************************************************************************)
(* Theorems about JobQueue, for any workers, runs, attempt limit, fault    *)
(* kinds and number of faults.                                             *)
(***************************************************************************)
EXTENDS JobQueue, TLAPS

(* What XADD does to the stream: it grows by one message and the messages  *)
(* already there keep their positions.                                     *)
LEMMA XAddLemma ==
  ASSUME NEW s \in Seq(Job), NEW j \in Job
  PROVE  /\ Append(s, j) \in Seq(Job)
         /\ Len(Append(s, j)) = Len(s) + 1
         /\ \A m \in 1..Len(s) : Append(s, j)[m] = s[m]
         /\ Append(s, j)[Len(s) + 1] = j
         /\ DOMAIN Append(s, j) = 1..(Len(s) + 1)
         /\ DOMAIN s = 1..Len(s)
OBVIOUS

(* The first job of a run, and the retry of a job below the limit, are jobs. *)
LEMMA JobLemma ==
  /\ \A r \in Runs : FirstJob(r) \in Job
  /\ \A j \in Job : j.attempt + 1 < MaxAttempts => RetryOf(j) \in Job
BY ConstantsAssumption DEF Job, FirstJob, RetryOf

(* A message of the stream is a job, and so is the one a worker handles. *)
LEMMA MessageLemma ==
  ASSUME TypeOK
  PROVE  /\ DOMAIN stream = 1..Len(stream) /\ Len(stream) \in Nat
         /\ \A m \in 1..Len(stream) : /\ stream[m] \in Job
                                      /\ stream[m].run \in Runs
                                      /\ stream[m].attempt \in 0..(MaxAttempts - 1)
         /\ \A w \in Workers : msg[w] # 0 => /\ msg[w] \in 1..Len(stream)
                                            /\ msg[w] \in 1..delivered
                                            /\ JobOf(w) \in Job
                                            /\ JobOf(w).run \in Runs
<1>1. DOMAIN stream = 1..Len(stream) /\ Len(stream) \in Nat
  BY DEF TypeOK
<1>2. \A m \in 1..Len(stream) : stream[m] \in Job
  BY DEF TypeOK
<1>3. \A j \in Job : j.run \in Runs /\ j.attempt \in 0..(MaxAttempts - 1)
  BY DEF Job
<1>4. \A w \in Workers : msg[w] # 0 => msg[w] \in 1..Len(stream) /\ msg[w] \in 1..delivered
  BY DEF TypeOK
<1> QED
  BY <1>1, <1>2, <1>3, <1>4 DEF JobOf

(* Every step keeps the types, given what HandlingOK says of the workers.   *)
LEMMA TypeStep == TypeOK /\ HandlingOK /\ [Next]_vars => TypeOK'
<1> SUFFICES ASSUME TypeOK, HandlingOK, [Next]_vars PROVE TypeOK'
  OBVIOUS
<1> USE ConstantsAssumption
<1>0. /\ \A m \in 1..Len(stream) : stream[m] \in Job
      /\ \A w \in Workers : msg[w] # 0 => /\ msg[w] \in 1..Len(stream)
                                         /\ JobOf(w) \in Job
                                         /\ JobOf(w).run \in Runs
  BY MessageLemma
<1>1. ASSUME NEW r \in Runs, Record(r) PROVE TypeOK'
  BY <1>1 DEF TypeOK, Record, redisVars, workerVars, JobOf
<1>2. ASSUME NEW r \in Runs, Publish(r) PROVE TypeOK'
  BY <1>2, JobLemma, XAddLemma DEF TypeOK, Publish, workerVars, JobOf
<1>3. ASSUME NEW r \in Runs, MarkQueued(r) PROVE TypeOK'
  BY <1>3 DEF TypeOK, MarkQueued, workerVars, JobOf
<1>4. ASSUME NEW w \in Workers, AutoClaim(w) PROVE TypeOK'
  BY <1>0, <1>4 DEF TypeOK, AutoClaim, ClaimableNow, JobOf, Stages, HoldingStages, TryStages, HandlerStages
<1>5. ASSUME NEW w \in Workers, TryLeaseScanned(w) PROVE TypeOK'
  <2> PICK m \in batch[w] : \/ Grant(w, m)
                            \/ /\ batch' = [batch EXCEPT ![w] = @ \ {m}]
                               /\ UNCHANGED <<lease, pc, msg, hb>>
    BY <1>5 DEF TryLeaseScanned
  <2>1. m \in 1..delivered /\ stream[m] \in Job
    BY <1>0 DEF TypeOK
  <2>2. CASE Grant(w, m)
    BY <1>5, <2>1, <2>2 DEF TypeOK, TryLeaseScanned, Grant, Stages
  <2>3. CASE UNCHANGED <<lease, pc, msg, hb>> /\ batch' = [batch EXCEPT ![w] = @ \ {m}]
    BY <1>5, <2>3 DEF TypeOK, TryLeaseScanned
  <2> QED
    BY <2>2, <2>3
<1>6. ASSUME NEW w \in Workers, ReadGroup(w) PROVE TypeOK'
  <2>1. CASE delivered < Len(stream)
    <3>1. /\ delivered' = delivered + 1
          /\ pel' = pel \cup {delivered + 1}
          /\ msg' = [msg EXCEPT ![w] = delivered + 1]
          /\ pc' = [pc EXCEPT ![w] = "fetched"]
          /\ UNCHANGED <<stream, idle, lease, jobStatus, deadLetter, admission, batch,
                         hb, completed, faults>>
      BY <1>6, <2>1 DEF ReadGroup
    <3>2. Len(stream) \in Nat /\ delivered \in Nat /\ delivered' \in 0..Len(stream')
      BY <2>1, <3>1 DEF TypeOK
    <3> QED
      BY <2>1, <3>1, <3>2 DEF TypeOK, Stages
  <2>2. CASE ~ (delivered < Len(stream))
    BY <1>6, <2>2 DEF TypeOK, ReadGroup, Stages
  <2> QED
    BY <2>1, <2>2
<1>7. ASSUME NEW w \in Workers, TryLeaseNew(w) PROVE TypeOK'
  <2>1. CASE Grant(w, msg[w])
    BY <1>0, <1>7, <2>1 DEF TypeOK, TryLeaseNew, Grant, JobOf, Stages, HandlingOK
  <2>2. CASE /\ pc' = [pc EXCEPT ![w] = "poll"]
             /\ msg' = [msg EXCEPT ![w] = 0]
             /\ UNCHANGED <<lease, batch, hb>>
    BY <1>7, <2>2 DEF TypeOK, TryLeaseNew, Stages
  <2> QED
    BY <1>7, <2>1, <2>2 DEF TryLeaseNew
<1>8. ASSUME NEW w \in Workers, MarkStarted(w) PROVE TypeOK'
  BY <1>8 DEF TypeOK, HandlingOK, MarkStarted, SetStatus, Goto, Stages, HoldingStages, TryStages, HandlerStages
<1>9. ASSUME NEW w \in Workers, RenewOnStart(w) PROVE TypeOK'
  BY <1>9 DEF TypeOK, HandlingOK, RenewOnStart, Caught, redisVars, Stages, HoldingStages, TryStages, HandlerStages
<1>10. ASSUME NEW w \in Workers, ExecuteOk(w) PROVE TypeOK'
  <2>1. JobOf(w).run \in Runs
    BY <1>0, <1>10 DEF HandlingOK, ExecuteOk, Goto, HoldingStages
  <2> QED
    BY <1>10, <2>1 DEF TypeOK, ExecuteOk, Goto, redisVars, Stages
<1>11. ASSUME NEW w \in Workers, ExecuteFail(w) PROVE TypeOK'
  BY <1>11 DEF TypeOK, HandlingOK, ExecuteFail, Caught, redisVars, Stages, HoldingStages, TryStages, HandlerStages
<1>12. ASSUME NEW w \in Workers, CancelOnLeaseLost(w) PROVE TypeOK'
  BY <1>12 DEF TypeOK, HandlingOK, CancelOnLeaseLost, Caught, redisVars, Stages, HoldingStages, TryStages, HandlerStages
<1>13. ASSUME NEW w \in Workers, MarkSucceeded(w) PROVE TypeOK'
  BY <1>13 DEF TypeOK, HandlingOK, MarkSucceeded, SetStatus, Goto, Stages, HoldingStages, TryStages, HandlerStages
<1>14. ASSUME NEW w \in Workers, AckSucceeded(w) PROVE TypeOK'
  BY <1>14 DEF TypeOK, HandlingOK, AckSucceeded, Goto, XAck, Stages, HoldingStages, TryStages, HandlerStages
<1>15. ASSUME NEW w \in Workers, MarkDeadLetter(w) PROVE TypeOK'
  BY <1>15 DEF TypeOK, HandlingOK, MarkDeadLetter, Goto, SetStatus, Stages, HoldingStages, TryStages, HandlerStages
<1>16. ASSUME NEW w \in Workers, Bury(w) PROVE TypeOK'
  BY <1>0, <1>16 DEF TypeOK, HandlingOK, Bury, Goto, Stages, HoldingStages, TryStages, HandlerStages
<1>17. ASSUME NEW w \in Workers, MarkRetrying(w) PROVE TypeOK'
  BY <1>17 DEF TypeOK, HandlingOK, MarkRetrying, Goto, SetStatus, Stages, HoldingStages, TryStages, HandlerStages
<1>18. ASSUME NEW w \in Workers, Requeue(w) PROVE TypeOK'
  BY <1>0, <1>18, JobLemma, XAddLemma DEF TypeOK, HandlingOK, Requeue, Goto, XAdd, Stages, HoldingStages, TryStages, HandlerStages
<1>19. ASSUME NEW w \in Workers, MarkRequeued(w) PROVE TypeOK'
  BY <1>19 DEF TypeOK, HandlingOK, MarkRequeued, Goto, SetStatus, Stages, HoldingStages, TryStages, HandlerStages
<1>20. ASSUME NEW w \in Workers, AckFailed(w) PROVE TypeOK'
  BY <1>20 DEF TypeOK, HandlingOK, AckFailed, Goto, XAck, Stages, HoldingStages, TryStages, HandlerStages
<1>21. ASSUME NEW w \in Workers, Finally(w) PROVE TypeOK'
  <2>1. lease' \in [Job -> Workers \cup {Free, Orphan}]
    BY <1>21 DEF TypeOK, Finally, ReleaseLease
  <2>2. msg' \in [Workers -> 0..delivered] /\ pc' \in [Workers -> Stages]
    BY <1>21 DEF TypeOK, Finally, Goto, Stages
  <2> QED
    BY <1>21, <2>1, <2>2 DEF TypeOK, Finally
<1>22. ASSUME NEW w \in Workers, Heartbeat(w) PROVE TypeOK'
  BY <1>22 DEF TypeOK, HandlingOK, Heartbeat, redisVars, Stages, HoldingStages, TryStages, HandlerStages
<1>23. ASSUME NEW w \in Workers, LeaseOverrun(w) PROVE TypeOK'
  <2>1. lease' \in [Job -> Workers \cup {Free, Orphan}]
    BY <1>23 DEF TypeOK, LeaseOverrun
  <2>2. faults' \in 0..MaxFaults
    BY <1>23 DEF TypeOK, LeaseOverrun, Fault
  <2> QED
    BY <1>23, <2>1, <2>2 DEF TypeOK, LeaseOverrun, workerVars
<1>24. ASSUME NEW w \in Workers, HeartbeatDies(w) PROVE TypeOK'
  BY <1>24 DEF TypeOK, HandlingOK, HeartbeatDies, Fault, redisVars, Stages, HoldingStages, TryStages, HandlerStages
<1>25. ASSUME NEW w \in Workers, CallFails(w) PROVE TypeOK'
  <2>1. faults' \in 0..MaxFaults
    BY <1>25 DEF TypeOK, CallFails, Fault
  <2>2. pc' \in [Workers -> Stages]
    BY <1>25 DEF TypeOK, CallFails, Caught, Stages
  <2>3. pel' \subseteq 1..delivered /\ idle' \subseteq pel'
    BY <1>25 DEF TypeOK, CallFails, XAck
  <2>4. UNCHANGED <<stream, delivered, lease, jobStatus, deadLetter, admission, msg,
                    batch, hb, completed>>
    BY <1>25 DEF CallFails
  <2> QED
    BY <2>1, <2>2, <2>3, <2>4 DEF TypeOK
<1>26. ASSUME NEW w \in Workers, ScanFails(w) PROVE TypeOK'
  <2>1. faults' \in 0..MaxFaults
    BY <1>26 DEF TypeOK, ScanFails, Fault
  <2>2. lease' \in [Job -> Workers \cup {Free, Orphan}]
    <3> PICK m \in batch[w] : lease' = lease \/ lease' = [lease EXCEPT ![stream[m]] = Orphan]
      BY <1>26 DEF ScanFails
    <3> QED
      BY DEF TypeOK
  <2> QED
    BY <1>26, <2>1, <2>2 DEF TypeOK, ScanFails
<1>27. ASSUME NEW w \in Workers, HandlerCallFails(w) PROVE TypeOK'
  BY <1>27 DEF TypeOK, HandlingOK, HandlerCallFails, Fault, redisVars, Stages, HoldingStages, TryStages, HandlerStages
<1>28. ASSUME NEW w \in Workers, WorkerCrash(w) PROVE TypeOK'
  BY <1>28 DEF TypeOK, HandlingOK, WorkerCrash, Fault, Stages, HoldingStages, TryStages, HandlerStages
<1>29. ASSUME NEW r \in Runs, ApiCrash(r) PROVE TypeOK'
  BY <1>29 DEF TypeOK, ApiCrash, Fault, redisVars, workerVars
<1>30. ASSUME NEW m \in pel, BecomeIdle(m) PROVE TypeOK'
  BY <1>30 DEF TypeOK, BecomeIdle, workerVars
<1>31. ASSUME NEW j \in Job, LeaseExpires(j) PROVE TypeOK'
  BY <1>31 DEF TypeOK, LeaseExpires, workerVars
<1>32. CASE UNCHANGED vars
  BY <1>32 DEF TypeOK, vars, redisVars, workerVars
<1> QED
  BY <1>1, <1>2, <1>3, <1>4, <1>5, <1>6, <1>7, <1>8, <1>9, <1>10, <1>11, <1>12, <1>13, <1>14, <1>15, <1>16, <1>17, <1>18, <1>19, <1>20, <1>21, <1>22, <1>23, <1>24, <1>25, <1>26, <1>27, <1>28, <1>29, <1>30, <1>31, <1>32 DEF Next, Admit, WorkerStep, Claim, Handle, WorkerFault

(* A worker between two calls still names its message, and retries only     *)
(* below the attempt limit.                                                 *)
LEMMA HandlingStep == TypeOK /\ HandlingOK /\ [Next]_vars => HandlingOK'
<1> SUFFICES ASSUME TypeOK, HandlingOK, [Next]_vars PROVE HandlingOK'
  OBVIOUS
<1> USE ConstantsAssumption
<1>0. /\ \A w \in Workers : msg[w] \in 0..Len(stream)
      /\ Len(stream) \in Nat
      /\ pc \in [Workers -> Stages] /\ msg \in [Workers -> 0..delivered]
  BY DEF TypeOK
(* A worker whose own stage and message stay is not disturbed by an XADD. *)
<1>1. ASSUME UNCHANGED <<pc, msg>>,
             \A m \in 1..Len(stream) : stream'[m] = stream[m]
      PROVE  HandlingOK'
  BY <1>0, <1>1 DEF HandlingOK, JobOf, HoldingStages, TryStages, HandlerStages
<1>2. ASSUME NEW r \in Runs, Admit(r) \/ ApiCrash(r) PROVE HandlingOK'
  <2>1. \A m \in 1..Len(stream) : stream'[m] = stream[m]
    <3>1. CASE stream' = Append(stream, FirstJob(r))
      BY <3>1, XAddLemma, JobLemma DEF TypeOK
    <3>2. CASE UNCHANGED stream
      BY <3>2
    <3> QED
      BY <1>2, <3>1, <3>2 DEF Admit, Record, Publish, MarkQueued, ApiCrash, redisVars
  <2> QED
    BY <1>1, <1>2, <2>1 DEF Admit, Record, Publish, MarkQueued, ApiCrash, workerVars
<1>3. ASSUME NEW w \in Workers, Requeue(w) PROVE HandlingOK'
  <2>1. \A m \in 1..Len(stream) : stream'[m] = stream[m]
    BY <1>3, XAddLemma, JobLemma, MessageLemma
       DEF TypeOK, Requeue, XAdd, Goto, HandlingOK, HoldingStages, HandlerStages
  <2>2. \A v \in Workers : msg[v] # 0 => JobOf(v)' = JobOf(v)
    BY <1>0, <1>3, <2>1 DEF Requeue, JobOf
  <2> QED
    BY <1>0, <1>3, <2>2 DEF Requeue, Goto, HandlingOK, HoldingStages, TryStages, HandlerStages
(* Every other action leaves the stream alone. *)
<1>4. ASSUME NEW w \in Workers, UNCHANGED stream,
             \/ AutoClaim(w) \/ TryLeaseScanned(w) \/ ReadGroup(w) \/ TryLeaseNew(w)
      PROVE  HandlingOK'
  <2>1. CASE AutoClaim(w)
    BY <1>0, <1>4, <2>1 DEF AutoClaim, HandlingOK, JobOf, HoldingStages, TryStages, HandlerStages
  <2>2. CASE TryLeaseScanned(w)
    BY <1>0, <1>4, <2>2 DEF TypeOK, TryLeaseScanned, Grant, HandlingOK, JobOf,
                            HoldingStages, TryStages, HandlerStages
  <2>3. CASE ReadGroup(w)
    BY <1>0, <1>4, <2>3 DEF TypeOK, ReadGroup, HandlingOK, JobOf,
                            HoldingStages, TryStages, HandlerStages
  <2>4. CASE TryLeaseNew(w)
    BY <1>0, <1>4, <2>4 DEF TryLeaseNew, Grant, HandlingOK, JobOf,
                            HoldingStages, TryStages, HandlerStages
  <2> QED
    BY <1>4, <2>1, <2>2, <2>3, <2>4
<1>5. ASSUME NEW w \in Workers, UNCHANGED <<stream, msg>>,
             \/ MarkStarted(w) \/ RenewOnStart(w) \/ ExecuteOk(w) \/ ExecuteFail(w)
             \/ CancelOnLeaseLost(w) \/ MarkSucceeded(w) \/ AckSucceeded(w)
             \/ MarkDeadLetter(w) \/ Bury(w) \/ MarkRetrying(w) \/ MarkRequeued(w)
             \/ AckFailed(w) \/ CallFails(w) \/ HandlerCallFails(w)
      PROVE  HandlingOK'
  <2>1. \A v \in Workers : JobOf(v)' = JobOf(v)
    BY <1>5 DEF JobOf
  <2>2. pc[w] \in HoldingStages /\ msg[w] # 0
    BY <1>5 DEF HandlingOK, MarkStarted, RenewOnStart, ExecuteOk, ExecuteFail,
                CancelOnLeaseLost, MarkSucceeded, AckSucceeded, MarkDeadLetter, Bury,
                MarkRetrying, MarkRequeued, AckFailed, CallFails, HandlerCallFails,
                Goto, HoldingStages, TryStages, HandlerStages
  <2>3. pc'[w] \in {"markRetry", "requeue", "requeued"} => JobOf(w).attempt + 1 < MaxAttempts
    <3>1. CASE RenewOnStart(w) \/ ExecuteFail(w) \/ CancelOnLeaseLost(w) \/ CallFails(w)
      <4>1. MaxAttempts \in Nat /\ JobOf(w).attempt \in Nat
        BY <2>2, MessageLemma DEF JobOf
      <4>2. pc' = [pc EXCEPT ![w] = "executing"] \/ \E fatal \in BOOLEAN : Caught(w, fatal)
        BY <3>1 DEF RenewOnStart, ExecuteFail, CancelOnLeaseLost, CallFails
      <4> QED
        BY <1>0, <4>1, <4>2 DEF Caught
    <3>2. CASE ~ (RenewOnStart(w) \/ ExecuteFail(w) \/ CancelOnLeaseLost(w) \/ CallFails(w))
      BY <1>0, <1>5, <3>2
         DEF HandlingOK, MarkStarted, ExecuteOk, MarkSucceeded, AckSucceeded, MarkDeadLetter,
             Bury, MarkRetrying, MarkRequeued, AckFailed, HandlerCallFails, Goto
    <3> QED
      BY <3>1, <3>2
  <2>4. \A v \in Workers \ {w} : pc'[v] = pc[v]
    BY <1>0, <1>5 DEF MarkStarted, RenewOnStart, ExecuteOk, ExecuteFail,
                CancelOnLeaseLost, MarkSucceeded, AckSucceeded, MarkDeadLetter, Bury,
                MarkRetrying, MarkRequeued, AckFailed, CallFails, HandlerCallFails,
                Goto, Caught
  <2> QED
    BY <1>5, <2>1, <2>2, <2>3, <2>4 DEF HandlingOK
<1>6. ASSUME NEW w \in Workers, UNCHANGED stream, Finally(w) \/ WorkerCrash(w)
      PROVE  HandlingOK'
  BY <1>0, <1>6 DEF Finally, WorkerCrash, Goto, HandlingOK, JobOf, HoldingStages, TryStages,
                    HandlerStages
<1>7. ASSUME UNCHANGED <<stream, pc, msg>> PROVE HandlingOK'
  BY <1>1, <1>7
<1>8. ASSUME NEW w \in Workers, ~ Requeue(w),
             WorkerStep(w) \/ Heartbeat(w) \/ WorkerFault(w)
      PROVE  HandlingOK'
  BY <1>4, <1>5, <1>6, <1>7, <1>8
     DEF WorkerStep, Claim, Handle, WorkerFault, Heartbeat, AutoClaim, TryLeaseScanned,
         ReadGroup, TryLeaseNew, MarkStarted, RenewOnStart, ExecuteOk, ExecuteFail,
         CancelOnLeaseLost, MarkSucceeded, AckSucceeded, MarkDeadLetter, Bury,
         MarkRetrying, MarkRequeued, AckFailed, Finally, LeaseOverrun, HeartbeatDies,
         CallFails, ScanFails, HandlerCallFails, WorkerCrash, redisVars, workerVars
<1>9. ASSUME NEW m \in pel, BecomeIdle(m) PROVE HandlingOK'
  BY <1>7, <1>9 DEF BecomeIdle, workerVars
<1>10. ASSUME NEW j \in Job, LeaseExpires(j) PROVE HandlingOK'
  BY <1>7, <1>10 DEF LeaseExpires, workerVars
<1>11. CASE UNCHANGED vars
  BY <1>7, <1>11 DEF vars, redisVars, workerVars
<1> QED
  BY <1>2, <1>3, <1>8, <1>9, <1>10, <1>11 DEF Next

(* What has happened stays: messages keep their positions, finished        *)
(* executions and dead letters are not taken back.                         *)
LEMMA GrowthLemma ==
  ASSUME TypeOK, HandlingOK, [Next]_vars
  PROVE  /\ Len(stream) <= Len(stream')
         /\ DOMAIN stream \subseteq DOMAIN stream'
         /\ \A m \in DOMAIN stream : stream'[m] = stream[m]
         /\ completed \subseteq completed'
         /\ deadLetter \subseteq deadLetter'
<1>1. \/ UNCHANGED stream
      \/ \E j \in Job : stream' = Append(stream, j)
  <2>1. ASSUME NEW r \in Runs, Admit(r) \/ ApiCrash(r)
        PROVE  UNCHANGED stream \/ stream' = Append(stream, FirstJob(r))
    BY <2>1 DEF Admit, Record, Publish, MarkQueued, ApiCrash, redisVars
  <2>2. ASSUME NEW w \in Workers, Requeue(w)
        PROVE  stream' = Append(stream, RetryOf(JobOf(w))) /\ RetryOf(JobOf(w)) \in Job
    BY <2>2, JobLemma, MessageLemma
       DEF Requeue, Goto, XAdd, HandlingOK, HoldingStages, HandlerStages
  <2>3. ASSUME NEW w \in Workers, ~ Requeue(w), WorkerStep(w) \/ Heartbeat(w) \/ WorkerFault(w)
        PROVE  UNCHANGED stream
    BY <2>3 DEF WorkerStep, Claim, Handle, WorkerFault, Heartbeat, AutoClaim, TryLeaseScanned,
         ReadGroup, TryLeaseNew, MarkStarted, RenewOnStart, ExecuteOk, ExecuteFail,
         CancelOnLeaseLost, MarkSucceeded, AckSucceeded, MarkDeadLetter, Bury,
         MarkRetrying, MarkRequeued, AckFailed, Finally, LeaseOverrun, HeartbeatDies,
         CallFails, ScanFails, HandlerCallFails, WorkerCrash, redisVars
  <2>4. ASSUME \/ \E m \in pel : BecomeIdle(m)
               \/ \E j \in Job : LeaseExpires(j)
               \/ UNCHANGED vars
        PROVE  UNCHANGED stream
    BY <2>4 DEF BecomeIdle, LeaseExpires, vars, redisVars
  <2> QED
    BY <2>1, <2>2, <2>3, <2>4, JobLemma DEF Next
<1>2. /\ Len(stream) <= Len(stream')
      /\ DOMAIN stream \subseteq DOMAIN stream'
      /\ \A m \in DOMAIN stream : stream'[m] = stream[m]
  <2>1. CASE UNCHANGED stream
    BY <2>1 DEF TypeOK
  <2>2. ASSUME NEW j \in Job, stream' = Append(stream, j)
        PROVE  /\ Len(stream) <= Len(stream')
               /\ DOMAIN stream \subseteq DOMAIN stream'
               /\ \A m \in DOMAIN stream : stream'[m] = stream[m]
    BY <2>2, XAddLemma DEF TypeOK
  <2> QED
    BY <1>1, <2>1, <2>2
<1>3. completed \subseteq completed' /\ deadLetter \subseteq deadLetter'
  <2>1. ASSUME NEW r \in Runs, Admit(r) \/ ApiCrash(r)
        PROVE  UNCHANGED <<completed, deadLetter>>
    BY <2>1 DEF Admit, Record, Publish, MarkQueued, ApiCrash, redisVars
  <2>2. ASSUME NEW w \in Workers, Claim(w) \/ Heartbeat(w) \/ WorkerFault(w)
        PROVE  UNCHANGED <<completed, deadLetter>>
    BY <2>2 DEF Claim, AutoClaim, TryLeaseScanned, ReadGroup, TryLeaseNew, Heartbeat,
                WorkerFault, LeaseOverrun, HeartbeatDies, CallFails, ScanFails,
                HandlerCallFails, WorkerCrash, redisVars
  <2>3. ASSUME NEW w \in Workers, Handle(w)
        PROVE  completed \subseteq completed' /\ deadLetter \subseteq deadLetter'
    BY <2>3 DEF Handle, MarkStarted, RenewOnStart, ExecuteOk, ExecuteFail,
                CancelOnLeaseLost, MarkSucceeded, AckSucceeded, MarkDeadLetter, Bury,
                MarkRetrying, Requeue, MarkRequeued, AckFailed, Finally, redisVars
  <2>4. ASSUME \/ \E m \in pel : BecomeIdle(m)
               \/ \E j \in Job : LeaseExpires(j)
               \/ UNCHANGED vars
        PROVE  UNCHANGED <<completed, deadLetter>>
    BY <2>4 DEF BecomeIdle, LeaseExpires, vars, redisVars
  <2> QED
    BY <2>1, <2>2, <2>3, <2>4 DEF Next, WorkerStep
<1> QED
  BY <1>2, <1>3

(* A recorded outcome is never taken back. *)
LEMMA OutcomeStays ==
  ASSUME TypeOK, HandlingOK, [Next]_vars, NEW m \in DOMAIN stream, OutcomeRecorded(m)
  PROVE  OutcomeRecorded(m)'
BY GrowthLemma DEF OutcomeRecorded

(* XREADGROUP alone moves the last-delivered id of the group. *)
LEMMA OnlyReadGroupDelivers ==
  ASSUME [Next]_vars, \A w \in Workers : ~ ReadGroup(w)
  PROVE  UNCHANGED delivered
<1>1. ASSUME NEW r \in Runs, Admit(r) \/ ApiCrash(r) PROVE UNCHANGED delivered
  BY <1>1 DEF Admit, Record, Publish, MarkQueued, ApiCrash, redisVars
<1>2. ASSUME NEW w \in Workers, Claim(w) \/ Heartbeat(w) \/ WorkerFault(w)
      PROVE  UNCHANGED delivered
  BY <1>2 DEF Claim, AutoClaim, TryLeaseScanned, TryLeaseNew, Heartbeat, WorkerFault,
              LeaseOverrun, HeartbeatDies, CallFails, ScanFails, HandlerCallFails,
              WorkerCrash, redisVars
<1>3. ASSUME NEW w \in Workers, Handle(w) PROVE UNCHANGED delivered
  BY <1>3 DEF Handle, MarkStarted, RenewOnStart, ExecuteOk, ExecuteFail,
              CancelOnLeaseLost, MarkSucceeded, AckSucceeded, MarkDeadLetter, Bury,
              MarkRetrying, Requeue, MarkRequeued, AckFailed, Finally, redisVars
<1>4. ASSUME \/ \E m \in pel : BecomeIdle(m)
             \/ \E j \in Job : LeaseExpires(j)
             \/ UNCHANGED vars
      PROVE  UNCHANGED delivered
  BY <1>4 DEF BecomeIdle, LeaseExpires, vars, redisVars
<1> QED
  BY <1>1, <1>2, <1>3, <1>4 DEF Next, WorkerStep

(* A message leaves the backlog only by an XACK behind a recorded outcome. *)
LEMMA AckedStep ==
  ASSUME TypeOK, HandlingOK, OutcomeBeforeAck, AckedHasOutcome, [Next]_vars
  PROVE  AckedHasOutcome'
<1> DEFINE Open(m) == Undelivered(m) \/ Pending(m)
<1>0. /\ DOMAIN stream = 1..Len(stream) /\ Len(stream) \in Nat
      /\ delivered \in 0..Len(stream)
      /\ \A w \in Workers : msg[w] # 0 => msg[w] \in DOMAIN stream
  BY MessageLemma DEF TypeOK
<1>1. ASSUME NEW m \in DOMAIN stream, Open(m) PROVE Open(m)' \/ OutcomeRecorded(m)'
  <2>1. ASSUME NEW w \in Workers, AckSucceeded(w) \/ AckFailed(w) \/ (CallFails(w) /\ ~ UNCHANGED pel)
        PROVE  Open(m)' \/ OutcomeRecorded(m)'
    <3>1. pel' = pel \ {msg[w]} /\ UNCHANGED <<stream, delivered>>
      BY <2>1 DEF AckSucceeded, AckFailed, CallFails, XAck
    <3>2. msg[w] \in DOMAIN stream /\ OutcomeRecorded(msg[w])
      <4>1. pc[w] \in {"acking", "ackFailed"}
        BY <2>1 DEF AckSucceeded, AckFailed, CallFails, Goto
      <4>2. msg[w] # 0
        BY <4>1 DEF HandlingOK, HoldingStages, TryStages, HandlerStages
      <4> QED
        BY <1>0, <4>1, <4>2 DEF OutcomeBeforeAck, OutcomeRecorded, JobOf
    <3>3. CASE m = msg[w]
      BY <3>2, <3>3, OutcomeStays
    <3>4. CASE m # msg[w]
      BY <1>1, <3>1, <3>4 DEF Undelivered, Pending
    <3> QED
      BY <3>3, <3>4
  <2>2. ASSUME NEW w \in Workers, ReadGroup(w) PROVE Open(m)'
    BY <1>0, <1>1, <2>2 DEF ReadGroup, Undelivered, Pending
  <2>3. CASE pel \subseteq pel' /\ UNCHANGED delivered
    <3>1. Len(stream) <= Len(stream') /\ Len(stream') \in Nat
      BY GrowthLemma, TypeStep DEF TypeOK
    <3> QED
      BY <1>0, <1>1, <2>3, <3>1 DEF Undelivered, Pending
  <2>4. ASSUME NEW r \in Runs, Admit(r) \/ ApiCrash(r) PROVE UNCHANGED <<pel, delivered>>
    BY <2>4 DEF Admit, Record, Publish, MarkQueued, ApiCrash, redisVars
  <2>5. ASSUME NEW w \in Workers, WorkerStep(w) \/ Heartbeat(w) \/ WorkerFault(w),
               ~ ReadGroup(w), ~ AckSucceeded(w), ~ AckFailed(w), ~ CallFails(w)
        PROVE  UNCHANGED <<pel, delivered>>
    BY <2>5 DEF WorkerStep, Claim, Handle, WorkerFault, Heartbeat, AutoClaim, TryLeaseScanned,
         TryLeaseNew, MarkStarted, RenewOnStart, ExecuteOk, ExecuteFail,
         CancelOnLeaseLost, MarkSucceeded, MarkDeadLetter, Bury,
         MarkRetrying, Requeue, MarkRequeued, Finally, LeaseOverrun, HeartbeatDies,
         ScanFails, HandlerCallFails, WorkerCrash, redisVars
  <2>6. ASSUME NEW w \in Workers, CallFails(w) PROVE UNCHANGED delivered
    BY <2>6 DEF CallFails
  <2>7. ASSUME \/ \E k \in pel : BecomeIdle(k)
               \/ \E j \in Job : LeaseExpires(j)
               \/ UNCHANGED vars
        PROVE  UNCHANGED <<pel, delivered>>
    BY <2>7 DEF BecomeIdle, LeaseExpires, vars, redisVars
  <2> QED
    BY <2>1, <2>2, <2>3, <2>4, <2>5, <2>6, <2>7 DEF Next
<1>2. ASSUME NEW m \in DOMAIN stream PROVE Open(m)' \/ OutcomeRecorded(m)'
  BY <1>1, OutcomeStays DEF AckedHasOutcome
<1>3. ASSUME NEW m \in DOMAIN stream', m \notin DOMAIN stream PROVE Open(m)'
  <2>1. delivered' <= Len(stream)
    <3>1. ASSUME NEW w \in Workers, ReadGroup(w) PROVE delivered' <= Len(stream)
      <4>1. \/ delivered < Len(stream) /\ delivered' = delivered + 1
            \/ delivered' = delivered
        BY <3>1 DEF ReadGroup
      <4> QED
        BY <1>0, <4>1
    <3>2. CASE \A w \in Workers : ~ ReadGroup(w)
      <4>1. UNCHANGED delivered
        BY <3>2, OnlyReadGroupDelivers
      <4> QED
        BY <1>0, <4>1
    <3> QED
      BY <1>0, <3>1, <3>2
  <2>2. TypeOK' /\ DOMAIN stream' = 1..Len(stream') /\ Len(stream') \in Nat
    BY TypeStep DEF TypeOK
  <2> QED
    BY <1>0, <1>3, <2>1, <2>2 DEF TypeOK, Undelivered
<1> QED
  BY <1>2, <1>3 DEF AckedHasOutcome

(* A worker's step touches no other worker's stage or message. *)
LEMMA OtherWorkers ==
  ASSUME TypeOK, NEW w \in Workers, WorkerStep(w) \/ Heartbeat(w) \/ WorkerFault(w),
         NEW v \in Workers, v # w
  PROVE  pc'[v] = pc[v] /\ msg'[v] = msg[v] /\ hb'[v] = hb[v]
<1>0. /\ pc \in [Workers -> Stages] /\ msg \in [Workers -> 0..delivered]
      /\ hb \in [Workers -> {"off", "on", "lost", "dead"}]
  BY DEF TypeOK
<1>1. CASE Claim(w)
  BY <1>0, <1>1 DEF Claim, AutoClaim, TryLeaseScanned, ReadGroup, TryLeaseNew, Grant
<1>2. CASE Heartbeat(w) \/ WorkerFault(w)
  BY <1>0, <1>2 DEF Heartbeat, WorkerFault, LeaseOverrun, HeartbeatDies, CallFails, Caught,
                    ScanFails, HandlerCallFails, WorkerCrash, workerVars
<1>3. CASE Handle(w)
  BY <1>0, <1>3 DEF Handle, MarkStarted, RenewOnStart, ExecuteOk, ExecuteFail, Caught, Goto,
              CancelOnLeaseLost, MarkSucceeded, AckSucceeded, MarkDeadLetter, Bury,
              MarkRetrying, Requeue, MarkRequeued, AckFailed, Finally
<1> QED
  BY <1>1, <1>2, <1>3 DEF WorkerStep

(* What a worker recorded before its XACK is still recorded when it sends it. *)
LEMMA OutcomeStep ==
  ASSUME TypeOK, HandlingOK, OutcomeBeforeAck, [Next]_vars
  PROVE  OutcomeBeforeAck'
<1> DEFINE Known(w) ==
      /\ pc[w] \in {"executed", "acking"} => JobOf(w).run \in completed
      /\ pc[w] = "requeued" => \E k \in DOMAIN stream : stream[k] = RetryOf(JobOf(w))
      /\ pc[w] = "ackFailed" => OutcomeRecorded(msg[w])
<1>0. /\ pc \in [Workers -> Stages] /\ msg \in [Workers -> 0..delivered]
      /\ DOMAIN stream = 1..Len(stream)
      /\ \A w \in Workers : pc[w] \in HoldingStages => msg[w] # 0 /\ msg[w] \in DOMAIN stream
  BY MessageLemma DEF TypeOK, HandlingOK
<1>1. ASSUME NEW w \in Workers, UNCHANGED <<pc[w], msg[w]>> PROVE Known(w)'
  <2>1. CASE pc[w] \in HoldingStages
    <3>1. JobOf(w)' = JobOf(w) /\ msg[w] \in DOMAIN stream
      BY <1>0, <1>1, <2>1, GrowthLemma DEF JobOf
    <3> QED
      BY <1>1, <3>1, GrowthLemma, OutcomeStays DEF OutcomeBeforeAck
  <2>2. CASE pc[w] \notin HoldingStages
    BY <1>1, <2>2 DEF HoldingStages, TryStages, HandlerStages
  <2> QED
    BY <2>1, <2>2
<1>2. ASSUME NEW w \in Workers, WorkerStep(w) \/ Heartbeat(w) \/ WorkerFault(w)
      PROVE  Known(w)'
  <2>1. CASE ExecuteOk(w)
    <3>1. JobOf(w)' = JobOf(w) /\ pc'[w] = "executed" /\ JobOf(w).run \in completed'
      BY <1>0, <2>1 DEF ExecuteOk, Goto, redisVars, JobOf
    <3> QED
      BY <3>1
  <2>2. CASE MarkSucceeded(w)
    <3>1. JobOf(w)' = JobOf(w) /\ pc'[w] = "acking" /\ JobOf(w).run \in completed'
      BY <1>0, <2>2 DEF MarkSucceeded, Goto, JobOf, OutcomeBeforeAck
    <3> QED
      BY <3>1
  <2>3. CASE Bury(w)
    <3>1. pc'[w] = "ackFailed" /\ stream'[msg'[w]] \in deadLetter'
      BY <1>0, <2>3 DEF Bury, Goto, JobOf
    <3> QED
      BY <3>1 DEF OutcomeRecorded
  <2>4. CASE Requeue(w)
    <3>1. /\ JobOf(w) \in Job /\ RetryOf(JobOf(w)) \in Job
          /\ msg[w] \in DOMAIN stream
          /\ stream' = Append(stream, RetryOf(JobOf(w)))
          /\ pc'[w] = "requeued" /\ msg' = msg
      BY <1>0, <2>4, JobLemma, MessageLemma
         DEF Requeue, Goto, XAdd, HandlingOK, HoldingStages, HandlerStages
    <3>2. /\ stream'[Len(stream) + 1] = RetryOf(JobOf(w))
          /\ Len(stream) + 1 \in DOMAIN stream'
          /\ JobOf(w)' = JobOf(w)
      <4>1. stream \in Seq(Job)
        BY DEF TypeOK
      <4> QED
        BY <3>1, <4>1, XAddLemma, MessageLemma DEF JobOf
    <3> QED
      BY <3>1, <3>2
  <2>5. CASE MarkRequeued(w)
    <3>1. /\ pc[w] = "requeued" /\ pc'[w] = "ackFailed"
          /\ UNCHANGED <<stream, msg>>
      BY <1>0, <2>5 DEF MarkRequeued, Goto
    <3> QED
      BY <3>1 DEF OutcomeRecorded, OutcomeBeforeAck, JobOf
  <2>6. CASE Claim(w) \/ Heartbeat(w) \/ WorkerFault(w)
    <3>1. \/ UNCHANGED <<pc[w], msg[w]>>
          \/ pc'[w] \notin {"executed", "acking", "requeued", "ackFailed"}
      BY <1>0, <2>6 DEF Claim, AutoClaim, TryLeaseScanned, ReadGroup, TryLeaseNew, Grant,
                    Heartbeat, WorkerFault, LeaseOverrun, HeartbeatDies, CallFails, Caught,
                    ScanFails, HandlerCallFails, WorkerCrash, workerVars
    <3> QED
      BY <1>1, <3>1
  <2>7. CASE \/ MarkStarted(w) \/ RenewOnStart(w) \/ ExecuteFail(w) \/ CancelOnLeaseLost(w)
             \/ AckSucceeded(w) \/ MarkDeadLetter(w) \/ MarkRetrying(w) \/ AckFailed(w)
             \/ Finally(w)
    <3>1. pc'[w] \notin {"executed", "acking", "requeued", "ackFailed"}
      BY <1>0, <2>7 DEF MarkStarted, RenewOnStart, ExecuteFail, CancelOnLeaseLost, AckSucceeded,
                        MarkDeadLetter, MarkRetrying, AckFailed, Finally, Goto, Caught
    <3> QED
      BY <3>1
  <2> QED
    BY <1>2, <2>1, <2>2, <2>3, <2>4, <2>5, <2>6, <2>7 DEF WorkerStep, Handle
<1>3. ASSUME NEW w \in Workers, WorkerStep(w) \/ Heartbeat(w) \/ WorkerFault(w)
      PROVE  \A v \in Workers : Known(v)'
  BY <1>1, <1>2, <1>3, OtherWorkers
<1>4. ASSUME \/ \E r \in Runs : Admit(r) \/ ApiCrash(r)
             \/ \E m \in pel : BecomeIdle(m)
             \/ \E j \in Job : LeaseExpires(j)
             \/ UNCHANGED vars
      PROVE  \A v \in Workers : Known(v)'
  <2>1. UNCHANGED <<pc, msg>>
    BY <1>4 DEF Admit, Record, Publish, MarkQueued, ApiCrash, BecomeIdle, LeaseExpires, vars,
                workerVars
  <2> QED
    BY <1>1, <2>1
<1> QED
  BY <1>3, <1>4 DEF Next, OutcomeBeforeAck

(* How the stream grows: by the publication of a run, or by a retry, which *)
(* appends the next attempt of a job of the stream.                        *)
LEMMA AppendLemma ==
  ASSUME TypeOK, HandlingOK, [Next]_vars
  PROVE  \/ UNCHANGED stream
         \/ \E r \in Runs : Publish(r)
         \/ \E k \in DOMAIN stream : /\ stream[k].attempt + 1 < MaxAttempts
                                     /\ stream' = Append(stream, RetryOf(stream[k]))
<1>1. ASSUME NEW r \in Runs, Admit(r) \/ ApiCrash(r)
      PROVE  UNCHANGED stream \/ Publish(r)
  BY <1>1 DEF Admit, Record, MarkQueued, ApiCrash, redisVars
<1>2. ASSUME NEW w \in Workers, Requeue(w)
      PROVE  /\ msg[w] \in DOMAIN stream
             /\ stream[msg[w]].attempt + 1 < MaxAttempts
             /\ stream' = Append(stream, RetryOf(stream[msg[w]]))
  BY <1>2, MessageLemma DEF Requeue, Goto, XAdd, HandlingOK, HoldingStages, HandlerStages, JobOf
<1>3. ASSUME NEW w \in Workers, ~ Requeue(w), WorkerStep(w) \/ Heartbeat(w) \/ WorkerFault(w)
      PROVE  UNCHANGED stream
  BY <1>3 DEF WorkerStep, Claim, Handle, WorkerFault, Heartbeat, AutoClaim, TryLeaseScanned,
         ReadGroup, TryLeaseNew, MarkStarted, RenewOnStart, ExecuteOk, ExecuteFail,
         CancelOnLeaseLost, MarkSucceeded, AckSucceeded, MarkDeadLetter, Bury,
         MarkRetrying, MarkRequeued, AckFailed, Finally, LeaseOverrun, HeartbeatDies,
         CallFails, ScanFails, HandlerCallFails, WorkerCrash, redisVars
<1>4. ASSUME \/ \E m \in pel : BecomeIdle(m)
             \/ \E j \in Job : LeaseExpires(j)
             \/ UNCHANGED vars
      PROVE  UNCHANGED stream
  BY <1>4 DEF BecomeIdle, LeaseExpires, vars, redisVars
<1> QED
  BY <1>1, <1>2, <1>3, <1>4 DEF Next

(* Every enqueued run keeps a message of highest attempt. *)
LEMMA LastAttemptStep ==
  ASSUME TypeOK, HandlingOK, NotEnqueuedEarly, LastAttemptExists, [Next]_vars
  PROVE  LastAttemptExists'
<1> SUFFICES ASSUME NEW r \in Runs, Enqueued(r)'
             PROVE  \E m \in DOMAIN stream' :
                      /\ stream'[m].run = r
                      /\ \A k \in DOMAIN stream' :
                           stream'[k].run = r => stream'[k].attempt <= stream'[m].attempt
  BY DEF LastAttemptExists
<1>0. /\ DOMAIN stream = 1..Len(stream) /\ Len(stream) \in Nat /\ stream \in Seq(Job)
      /\ \A m \in 1..Len(stream) : stream[m] \in Job /\ stream[m].attempt \in Nat
  BY MessageLemma DEF TypeOK
<1>1. CASE UNCHANGED stream
  BY <1>1 DEF LastAttemptExists, Enqueued
<1>2. ASSUME NEW j \in Job, stream' = Append(stream, j), j.run # r
      PROVE  \E m \in DOMAIN stream' :
               /\ stream'[m].run = r
               /\ \A k \in DOMAIN stream' :
                    stream'[k].run = r => stream'[k].attempt <= stream'[m].attempt
  <2>1. /\ DOMAIN stream' = 1..(Len(stream) + 1)
        /\ \A m \in 1..Len(stream) : stream'[m] = stream[m]
        /\ stream'[Len(stream) + 1] = j
    BY <1>0, <1>2, XAddLemma
  <2>2. Enqueued(r)
    BY <1>0, <1>2, <2>1 DEF Enqueued
  <2> QED
    BY <1>0, <1>2, <2>1, <2>2 DEF LastAttemptExists
<1>3. ASSUME NEW j \in Job, stream' = Append(stream, j), j.run = r, j.attempt \in Nat
      PROVE  \E m \in DOMAIN stream' :
               /\ stream'[m].run = r
               /\ \A k \in DOMAIN stream' :
                    stream'[k].run = r => stream'[k].attempt <= stream'[m].attempt
  <2>1. /\ DOMAIN stream' = 1..(Len(stream) + 1)
        /\ \A m \in 1..Len(stream) : stream'[m] = stream[m]
        /\ stream'[Len(stream) + 1] = j
    BY <1>0, <1>3, XAddLemma
  <2>2. CASE Enqueued(r)
    <3> PICK m \in 1..Len(stream) :
          /\ stream[m].run = r
          /\ \A k \in 1..Len(stream) : stream[k].run = r => stream[k].attempt <= stream[m].attempt
      BY <1>0, <2>2 DEF LastAttemptExists
    <3>1. CASE j.attempt <= stream[m].attempt
      <4>1. m \in DOMAIN stream' /\ stream'[m].run = r
        BY <1>0, <2>1
      <4>2. \A k \in DOMAIN stream' :
              stream'[k].run = r => stream'[k].attempt <= stream'[m].attempt
        BY <1>0, <2>1, <3>1
      <4> QED
        BY <4>1, <4>2
    <3>2. CASE ~ (j.attempt <= stream[m].attempt)
      <4>1. Len(stream) + 1 \in DOMAIN stream'
        BY <1>0, <2>1
      <4>2. \A k \in 1..Len(stream) : stream[k].run = r => stream[k].attempt <= j.attempt
        BY <1>0, <1>3, <3>2
      <4> QED
        BY <1>0, <1>3, <2>1, <4>1, <4>2
    <3> QED
      BY <3>1, <3>2
  <2>3. CASE ~ Enqueued(r)
    <3>1. Len(stream) + 1 \in DOMAIN stream'
      BY <1>0, <2>1
    <3>2. \A k \in 1..Len(stream) : stream[k].run # r
      BY <1>0, <2>3 DEF Enqueued
    <3> QED
      BY <1>0, <1>3, <2>1, <3>1, <3>2
  <2> QED
    BY <2>2, <2>3
<1>4. \/ UNCHANGED stream
      \/ \E j \in Job : stream' = Append(stream, j)
  BY <1>0, AppendLemma, JobLemma DEF Publish
<1>5. \A j \in Job : j.attempt \in Nat
  BY ConstantsAssumption DEF Job
<1> QED
  BY <1>1, <1>2, <1>3, <1>4, <1>5

(* A run is in the stream only after its own Publish. *)
LEMMA NotEarlyStep ==
  ASSUME TypeOK, HandlingOK, NotEnqueuedEarly, [Next]_vars
  PROVE  NotEnqueuedEarly'
<1> SUFFICES ASSUME NEW r \in Runs, admission'[r] \in {"new", "recorded"}
             PROVE  ~ Enqueued(r)'
  BY DEF NotEnqueuedEarly
<1>0. /\ DOMAIN stream = 1..Len(stream) /\ Len(stream) \in Nat /\ stream \in Seq(Job)
      /\ admission \in [Runs -> {"new", "recorded", "published", "done", "abandoned"}]
  BY MessageLemma DEF TypeOK
<1>1. admission[r] \in {"new", "recorded"} /\ ~ Publish(r)
  <2>1. ASSUME NEW q \in Runs, Admit(q) \/ ApiCrash(q)
        PROVE  admission[r] \in {"new", "recorded"} /\ ~ Publish(r)
    BY <1>0, <2>1 DEF Admit, Record, Publish, MarkQueued, ApiCrash
  <2>2. ASSUME UNCHANGED admission
        PROVE  admission[r] \in {"new", "recorded"} /\ ~ Publish(r)
    BY <1>0, <2>2 DEF Publish
  <2>3. ASSUME NEW w \in Workers, WorkerStep(w) \/ Heartbeat(w) \/ WorkerFault(w)
        PROVE  UNCHANGED admission
    BY <2>3 DEF WorkerStep, Claim, Handle, WorkerFault, Heartbeat, AutoClaim, TryLeaseScanned,
         ReadGroup, TryLeaseNew, MarkStarted, RenewOnStart, ExecuteOk, ExecuteFail,
         CancelOnLeaseLost, MarkSucceeded, AckSucceeded, MarkDeadLetter, Bury, Requeue,
         MarkRetrying, MarkRequeued, AckFailed, Finally, LeaseOverrun, HeartbeatDies,
         CallFails, ScanFails, HandlerCallFails, WorkerCrash, redisVars
  <2>4. ASSUME \/ \E m \in pel : BecomeIdle(m)
               \/ \E j \in Job : LeaseExpires(j)
               \/ UNCHANGED vars
        PROVE  UNCHANGED admission
    BY <2>4 DEF BecomeIdle, LeaseExpires, vars
  <2> QED
    BY <2>1, <2>2, <2>3, <2>4 DEF Next
<1>2. ~ Enqueued(r)
  BY <1>1 DEF NotEnqueuedEarly
<1>3. CASE UNCHANGED stream
  BY <1>2, <1>3 DEF Enqueued
<1>4. ASSUME NEW q \in Runs, stream' = Append(stream, FirstJob(q)), q # r
      PROVE  ~ Enqueued(r)'
  BY <1>0, <1>2, <1>4, XAddLemma, JobLemma DEF Enqueued, FirstJob
<1>5. ASSUME NEW k \in DOMAIN stream, stream[k].attempt + 1 < MaxAttempts,
             stream' = Append(stream, RetryOf(stream[k]))
      PROVE  ~ Enqueued(r)'
  <2>1. RetryOf(stream[k]) \in Job /\ RetryOf(stream[k]).run = stream[k].run
    BY <1>5, JobLemma, MessageLemma DEF RetryOf
  <2> QED
    BY <1>0, <1>2, <1>5, <2>1, XAddLemma DEF Enqueued
<1>6. ASSUME NEW q \in Runs, Publish(q) PROVE ~ Enqueued(r)'
  BY <1>1, <1>4, <1>6 DEF Publish
<1> QED
  BY <1>3, <1>5, <1>6, AppendLemma

(* The delivery invariant holds of an empty queue, ... *)
LEMMA DeliveryInvInit == Init => TypeOK /\ DeliveryInv
<1> SUFFICES ASSUME Init PROVE TypeOK /\ DeliveryInv
  OBVIOUS
<1>1. TypeOK
  BY ConstantsAssumption DEF Init, TypeOK, Stages
<1>2. DOMAIN stream = {} /\ \A w \in Workers : pc[w] = "poll"
  BY DEF Init
<1> QED
  BY <1>1, <1>2 DEF DeliveryInv, HandlingOK, OutcomeBeforeAck, AckedHasOutcome,
                    LastAttemptExists, NotEnqueuedEarly, Enqueued, HoldingStages, TryStages,
                    HandlerStages

(* ... and every step of every process keeps it. *)
LEMMA DeliveryInvStep == TypeOK /\ DeliveryInv /\ [Next]_vars => TypeOK' /\ DeliveryInv'
BY TypeStep, HandlingStep, OutcomeStep, AckedStep, LastAttemptStep, NotEarlyStep DEF DeliveryInv

(* Every variable keeps its type in every behaviour of the queue. *)
THEOREM TypeCorrect == Spec => []TypeOK
<1>1. Spec => [](TypeOK /\ DeliveryInv)
  BY DeliveryInvInit, DeliveryInvStep, PTL DEF Spec
<1> QED
  BY <1>1, PTL

(* The strengthening behind NoLostRun is inductive. *)
THEOREM DeliveryInvariant == Spec => []DeliveryInv
<1>1. Spec => [](TypeOK /\ DeliveryInv)
  BY DeliveryInvInit, DeliveryInvStep, PTL DEF Spec
<1> QED
  BY <1>1, PTL

(* Of an enqueued run, the message with the highest attempt has no retry in *)
(* the stream; if it is acknowledged, its outcome must be a final one.      *)
LEMMA DeliveryInvImpliesNoLostRun == TypeOK /\ DeliveryInv => NoLostRun
<1> SUFFICES ASSUME TypeOK, DeliveryInv, NEW r \in Runs, Enqueued(r)
             PROVE  r \in completed \/ Buried(r) \/ InBacklog(r)
  BY DEF NoLostRun
<1> PICK m \in DOMAIN stream :
      /\ stream[m].run = r
      /\ \A k \in DOMAIN stream : stream[k].run = r => stream[k].attempt <= stream[m].attempt
  BY DEF DeliveryInv, LastAttemptExists
<1>1. ASSUME NEW k \in DOMAIN stream, stream[k] = RetryOf(stream[m]) PROVE FALSE
  <2>1. stream[k].run = r /\ stream[k].attempt = stream[m].attempt + 1
    BY <1>1 DEF RetryOf
  <2>2. stream[m].attempt \in Nat
    BY MessageLemma
  <2> QED
    BY <2>1, <2>2
<1>2. Undelivered(m) \/ Pending(m) \/ stream[m].run \in completed \/ stream[m] \in deadLetter
  BY <1>1 DEF DeliveryInv, AckedHasOutcome, OutcomeRecorded
<1> QED
  BY <1>2 DEF InBacklog, Buried

(* An enqueued run is never lost, for any number of workers, runs and       *)
(* faults (worker.py: record the outcome, queue the retry, then XACK).      *)
THEOREM NoRunIsLost == Spec => []NoLostRun
<1>1. Spec => [](TypeOK /\ DeliveryInv)
  BY DeliveryInvInit, DeliveryInvStep, PTL DEF Spec
<1> QED
  BY <1>1, DeliveryInvImpliesNoLostRun, PTL

-----------------------------------------------------------------------------
(* Mutual exclusion by the lease.                                          *)

(* A worker whose own state and job's lease a step leaves alone keeps its   *)
(* token in the key.                                                        *)
LEMMA HolderKept ==
  ASSUME TypeOK, HandlingOK, RenewalReliable, HolderHasLease, [Next]_vars,
         NEW v \in Workers,
         UNCHANGED <<pc[v], msg[v], hb[v]>>,
         \A j \in Job : lease[j] = v => lease'[j] = v
  PROVE  IF pc'[v] \in HoldingStages THEN Holds(v)' /\ hb'[v] = "on" ELSE hb'[v] = "off"
<1>1. CASE pc[v] \in HoldingStages
  <2>1. msg[v] # 0 /\ Holds(v) /\ hb[v] = "on"
    BY <1>1 DEF HandlingOK, HolderHasLease
  <2>2. JobOf(v) \in Job /\ msg[v] \in DOMAIN stream
    BY <2>1, MessageLemma
  <2>3. JobOf(v)' = JobOf(v)
    BY <2>2, GrowthLemma DEF JobOf
  <2> QED
    BY <1>1, <2>1, <2>2, <2>3 DEF Holds
<1>2. CASE pc[v] \notin HoldingStages
  BY <1>2 DEF HolderHasLease
<1> QED
  BY <1>1, <1>2

(* A step of the queue takes a lease out of the hand of a worker only when  *)
(* that worker finishes or crashes, if renewal is reliable.                 *)
LEMMA LeaseKept ==
  ASSUME TypeOK, HandlingOK, RenewalReliable, HolderHasLease, NEW v \in Workers,
         \/ \E r \in Runs : Admit(r) \/ ApiCrash(r)
         \/ \E m \in pel : BecomeIdle(m)
         \/ \E j \in Job : LeaseExpires(j)
         \/ UNCHANGED vars
         \/ \E w \in Workers \ {v} : WorkerStep(w) \/ Heartbeat(w) \/ WorkerFault(w)
  PROVE  \A j \in Job : lease[j] = v => lease'[j] = v
<1> USE ConstantsAssumption
<1>0. /\ lease \in [Job -> Workers \cup {Free, Orphan}]
      /\ hb \in [Workers -> {"off", "on", "lost", "dead"}]
      /\ pc \in [Workers -> Stages]
      /\ \A w \in Workers : hb[w] # "dead"
  BY DEF TypeOK, HolderHasLease
<1>1. CASE \/ \E r \in Runs : Admit(r) \/ ApiCrash(r)
           \/ \E m \in pel : BecomeIdle(m)
           \/ UNCHANGED vars
  <2>1. UNCHANGED lease
    BY <1>1 DEF Admit, Record, Publish, MarkQueued, ApiCrash, BecomeIdle, vars, redisVars
  <2> QED
    BY <2>1
<1>2. ASSUME NEW i \in Job, LeaseExpires(i) PROVE \A j \in Job : lease[j] = v => lease'[j] = v
  BY <1>0, <1>2 DEF LeaseExpires
<1>3. ASSUME NEW w \in Workers \ {v}, WorkerStep(w) \/ Heartbeat(w) \/ WorkerFault(w)
      PROVE  \A j \in Job : lease[j] = v => lease'[j] = v
  <2>1. CASE TryLeaseScanned(w) \/ TryLeaseNew(w)
    <3>1. UNCHANGED lease \/ \E m : lease[stream[m]] = Free /\ lease' = [lease EXCEPT ![stream[m]] = w]
      BY <2>1 DEF TryLeaseScanned, TryLeaseNew, Grant
    <3> QED
      BY <1>0, <3>1
  <2>2. CASE Finally(w)
    BY <1>0, <2>2 DEF Finally, ReleaseLease
  <2>3. CASE WorkerCrash(w)
    BY <1>0, <2>3 DEF WorkerCrash
  <2>4. CASE ScanFails(w)
    <3>1. UNCHANGED lease \/ \E m : lease[stream[m]] = Free /\ lease' = [lease EXCEPT ![stream[m]] = Orphan]
      BY <2>4 DEF ScanFails
    <3> QED
      BY <1>0, <3>1
  <2>5. ~ LeaseOverrun(w) /\ ~ HeartbeatDies(w)
    BY DEF LeaseOverrun, HeartbeatDies, Fault, RenewalReliable
  <2>6. CASE AutoClaim(w) \/ ReadGroup(w) \/ Heartbeat(w) \/ CallFails(w) \/ HandlerCallFails(w)
    <3>1. UNCHANGED lease
      BY <2>6 DEF AutoClaim, ReadGroup, Heartbeat, CallFails, HandlerCallFails, redisVars
    <3> QED
      BY <3>1
  <2>7. CASE Handle(w) /\ ~ Finally(w)
    <3>1. UNCHANGED lease
      BY <2>7 DEF Handle, MarkStarted, RenewOnStart, ExecuteOk, ExecuteFail,
              CancelOnLeaseLost, MarkSucceeded, AckSucceeded, MarkDeadLetter, Bury,
              MarkRetrying, Requeue, MarkRequeued, AckFailed, redisVars
    <3> QED
      BY <3>1
  <2> QED
    BY <1>3, <2>1, <2>2, <2>3, <2>4, <2>5, <2>6, <2>7 DEF WorkerStep, Claim, WorkerFault
<1> QED
  BY <1>1, <1>2, <1>3

(* What the lease holder has survives every step of every process. *)
LEMMA HolderStep ==
  TypeOK /\ HandlingOK /\ HolderHasLease /\ [Next]_vars => HolderHasLease'
<1> SUFFICES ASSUME TypeOK, HandlingOK, HolderHasLease, [Next]_vars, RenewalReliable,
                    NEW v \in Workers
             PROVE  IF pc'[v] \in HoldingStages THEN Holds(v)' /\ hb'[v] = "on"
                                                ELSE hb'[v] = "off"
  BY DEF HolderHasLease, RenewalReliable
<1> USE ConstantsAssumption
<1>0. /\ pc \in [Workers -> Stages] /\ msg \in [Workers -> 0..delivered]
      /\ hb \in [Workers -> {"off", "on", "lost", "dead"}]
      /\ lease \in [Job -> Workers \cup {Free, Orphan}]
  BY DEF TypeOK
<1>1. ASSUME UNCHANGED <<pc[v], msg[v], hb[v]>>, \A j \in Job : lease[j] = v => lease'[j] = v
      PROVE  IF pc'[v] \in HoldingStages THEN Holds(v)' /\ hb'[v] = "on" ELSE hb'[v] = "off"
  BY <1>1, HolderKept
<1>2. CASE \/ \E r \in Runs : Admit(r) \/ ApiCrash(r)
           \/ \E m \in pel : BecomeIdle(m)
           \/ \E j \in Job : LeaseExpires(j)
           \/ UNCHANGED vars
  <2>1. UNCHANGED <<pc, msg, hb>>
    BY <1>2 DEF Admit, Record, Publish, MarkQueued, ApiCrash, BecomeIdle, LeaseExpires, vars,
                workerVars
  <2> QED
    BY <1>1, <1>2, <2>1, LeaseKept
<1>3. CASE \E w \in Workers \ {v} : WorkerStep(w) \/ Heartbeat(w) \/ WorkerFault(w)
  <2>1. UNCHANGED <<pc[v], msg[v], hb[v]>>
    BY <1>3, OtherWorkers
  <2> QED
    BY <1>1, <1>3, <2>1, LeaseKept
<1>4. CASE TryLeaseScanned(v) \/ TryLeaseNew(v)
  <2>1. ASSUME NEW m \in 1..Len(stream), Grant(v, m), UNCHANGED stream
        PROVE  pc'[v] = "claimed" /\ Holds(v)' /\ hb'[v] = "on"
    <3>1. stream[m] \in Job /\ m \in 0..delivered \cup DOMAIN stream
      BY MessageLemma
    <3>2. pc'[v] = "claimed" /\ msg'[v] = m /\ hb'[v] = "on" /\ lease'[stream[m]] = v
      BY <1>0, <2>1, <3>1 DEF Grant
    <3> QED
      BY <2>1, <3>2 DEF Holds, JobOf
  <2>2. CASE \E m \in 1..Len(stream) : Grant(v, m) /\ UNCHANGED stream
    BY <2>1, <2>2 DEF HoldingStages, TryStages
  <2>3. CASE TryLeaseScanned(v) /\ pc'[v] = pc[v] /\ hb'[v] = hb[v]
    BY <2>3 DEF TryLeaseScanned, HolderHasLease, HoldingStages, TryStages, HandlerStages
  <2>4. CASE TryLeaseNew(v) /\ pc'[v] = "poll" /\ hb'[v] = hb[v]
    BY <2>4 DEF TryLeaseNew, HolderHasLease, HoldingStages, TryStages, HandlerStages
  <2>5. TryLeaseScanned(v) => <2>2!1 \/ (TryLeaseScanned(v) /\ pc'[v] = pc[v] /\ hb'[v] = hb[v])
    <3>1. batch[v] \subseteq 1..Len(stream)
      BY DEF TypeOK
    <3> QED
      BY <3>1 DEF TryLeaseScanned
  <2>6. TryLeaseNew(v) => <2>2!1 \/ (TryLeaseNew(v) /\ pc'[v] = "poll" /\ hb'[v] = hb[v])
    <3>1. pc[v] = "fetched" => msg[v] \in 1..Len(stream)
      BY MessageLemma DEF HandlingOK
    <3> QED
      BY <1>0, <3>1 DEF TryLeaseNew
  <2> QED
    BY <1>4, <2>2, <2>3, <2>4, <2>5, <2>6
<1>5. CASE AutoClaim(v) \/ ReadGroup(v)
  BY <1>0, <1>5 DEF AutoClaim, ReadGroup, HolderHasLease, HoldingStages, TryStages, HandlerStages
<1>6. CASE Finally(v) \/ WorkerCrash(v)
  BY <1>0, <1>6 DEF Finally, Goto, WorkerCrash, HoldingStages, TryStages, HandlerStages
<1>7. ASSUME pc[v] \in HoldingStages, pc'[v] \in HoldingStages,
             UNCHANGED <<msg, hb, lease>>
      PROVE  Holds(v)' /\ hb'[v] = "on"
  <2>1. Holds(v) /\ hb[v] = "on" /\ msg[v] # 0
    BY <1>7 DEF HolderHasLease, HandlingOK
  <2>2. JobOf(v)' = JobOf(v)
    BY <1>7, <2>1, MessageLemma, GrowthLemma DEF JobOf
  <2> QED
    BY <1>7, <2>1, <2>2 DEF Holds
<1>8. CASE Handle(v) /\ ~ Finally(v)
  <2>1. /\ pc[v] \in HoldingStages /\ pc'[v] \in HoldingStages
        /\ UNCHANGED <<msg, hb, lease>>
    BY <1>0, <1>8 DEF Handle, MarkStarted, RenewOnStart, ExecuteOk, ExecuteFail,
              CancelOnLeaseLost, MarkSucceeded, AckSucceeded, MarkDeadLetter, Bury,
              MarkRetrying, Requeue, MarkRequeued, AckFailed, redisVars, Goto, Caught,
              HoldingStages, TryStages, HandlerStages
  <2> QED
    BY <1>7, <2>1
<1>9. CASE CallFails(v) \/ HandlerCallFails(v)
  <2>1. /\ pc[v] \in HoldingStages /\ pc'[v] \in HoldingStages
        /\ UNCHANGED <<msg, hb, lease>>
    BY <1>0, <1>9 DEF CallFails, HandlerCallFails, redisVars, Caught,
                      HoldingStages, TryStages, HandlerStages
  <2> QED
    BY <1>7, <2>1
<1>10. CASE ScanFails(v)
  BY <1>0, <1>10 DEF ScanFails, HolderHasLease, HoldingStages, TryStages, HandlerStages
<1>11. ~ Heartbeat(v)
  BY DEF Heartbeat, HolderHasLease
<1>12. ~ LeaseOverrun(v) /\ ~ HeartbeatDies(v)
  BY DEF LeaseOverrun, HeartbeatDies, Fault, RenewalReliable
<1> QED
  BY <1>2, <1>3, <1>4, <1>5, <1>6, <1>8, <1>9, <1>10, <1>11, <1>12
     DEF Next, WorkerStep, WorkerFault, Claim

(* A key holds one token. *)
LEMMA HolderExcludes == HolderHasLease => LeaseExcludes
BY DEF HolderHasLease, LeaseExcludes, OneWorkerPerJob, Holds

(* As long as renewal is reliable every worker between claim and            *)
(* release_lease has its own token in the key of its job.                   *)
THEOREM HoldersHaveLeases == Spec => []HolderHasLease
<1>1. Init => HolderHasLease
  BY DEF Init, HolderHasLease, HoldingStages, TryStages, HandlerStages
<1>2. TypeOK /\ DeliveryInv => HandlingOK
  BY DEF DeliveryInv
<1> QED
  BY <1>1, <1>2, DeliveryInvInit, DeliveryInvStep, HolderStep, PTL DEF Spec

(* No two workers handle one job at a time while renewal is reliable, for   *)
(* any number of workers, crashes and failing calls (the SET NX of          *)
(* job_queue.py line 104 and the token comparisons of lines 75-83).         *)
THEOREM MutualExclusion == Spec => []LeaseExcludes
BY HoldersHaveLeases, HolderExcludes, PTL

(* A lease leaves a worker's hand only by that worker's own step, by expiry *)
(* or by a fault.                                                           *)
LEMMA LeaseDropStep ==
  ASSUME TypeOK, HandlingOK, [Next]_vars, NEW j \in Job, NEW v \in Workers,
         lease[j] = v, lease'[j] # v
  PROVE  pc'[v] # pc[v] \/ hb[v] = "dead" \/ faults' # faults
<1> USE ConstantsAssumption
<1>0. /\ lease \in [Job -> Workers \cup {Free, Orphan}]
      /\ pc \in [Workers -> Stages] /\ faults \in Nat
  BY DEF TypeOK
<1>1. lease' # lease
  OBVIOUS
<1>2. CASE \/ \E r \in Runs : Admit(r) \/ ApiCrash(r)
           \/ \E m \in pel : BecomeIdle(m)
           \/ UNCHANGED vars
  BY <1>1, <1>2 DEF Admit, Record, Publish, MarkQueued, ApiCrash, BecomeIdle, vars, redisVars
<1>3. ASSUME NEW i \in Job, LeaseExpires(i) PROVE hb[v] = "dead"
  BY <1>0, <1>3 DEF LeaseExpires
<1>4. ASSUME NEW w \in Workers, WorkerFault(w) PROVE faults' # faults
  <2>1. faults' = faults + 1
    BY <1>4 DEF WorkerFault, LeaseOverrun, HeartbeatDies, CallFails, ScanFails,
                HandlerCallFails, WorkerCrash, Fault
  <2> QED
    BY <1>0, <2>1
<1>5. ASSUME NEW w \in Workers, Heartbeat(w) PROVE FALSE
  BY <1>1, <1>5 DEF Heartbeat, redisVars
<1>6. ASSUME NEW w \in Workers, WorkerStep(w) PROVE pc'[v] # pc[v]
  <2>1. CASE Finally(w)
    <3>1. w = v /\ pc[w] = "release" /\ pc'[w] = "poll"
      BY <1>0, <2>1 DEF Finally, ReleaseLease, Goto
    <3> QED
      BY <3>1
  <2>2. CASE Handle(w) /\ ~ Finally(w)
    BY <1>1, <2>2 DEF Handle, MarkStarted, RenewOnStart, ExecuteOk, ExecuteFail,
              CancelOnLeaseLost, MarkSucceeded, AckSucceeded, MarkDeadLetter, Bury,
              MarkRetrying, Requeue, MarkRequeued, AckFailed, redisVars
  <2>3. CASE AutoClaim(w) \/ ReadGroup(w)
    BY <1>1, <2>3 DEF AutoClaim, ReadGroup
  <2>4. CASE TryLeaseScanned(w) \/ TryLeaseNew(w)
    <3>1. \E m : lease[stream[m]] = Free /\ lease' = [lease EXCEPT ![stream[m]] = w]
      BY <1>1, <2>4 DEF TryLeaseScanned, TryLeaseNew, Grant
    <3> QED
      BY <1>0, <3>1
  <2> QED
    BY <1>6, <2>1, <2>2, <2>3, <2>4 DEF WorkerStep, Claim
<1> QED
  BY <1>2, <1>3, <1>4, <1>5, <1>6 DEF Next

(* No worker takes the lease of another one away, in any step of any        *)
(* behaviour (the token comparison of release_lease).                       *)
THEOREM LeaseRespected == Spec => LeaseOnlyDroppedByHolder
<1>1. TypeOK /\ DeliveryInv /\ [Next]_vars
        => [\A j \in Job, w \in Workers :
              lease[j] = w /\ lease'[j] # w =>
                pc'[w] # pc[w] \/ hb[w] = "dead" \/ faults' # faults]_vars
  BY LeaseDropStep DEF DeliveryInv
<1> QED
  BY <1>1, DeliveryInvInit, DeliveryInvStep, PTL DEF Spec, LeaseOnlyDroppedByHolder

(* The stream grows by first attempts and by retries of what it holds. *)
LEMMA RetryChainStep ==
  TypeOK /\ HandlingOK /\ RetryChain /\ [Next]_vars => RetryChain'
<1> SUFFICES ASSUME TypeOK, HandlingOK, RetryChain, [Next]_vars PROVE RetryChain'
  OBVIOUS
<1>0. /\ DOMAIN stream = 1..Len(stream) /\ Len(stream) \in Nat /\ stream \in Seq(Job)
      /\ \A m \in 1..Len(stream) : stream[m] \in Job /\ stream[m].attempt \in Nat
      /\ MaxAttempts \in Nat \ {0}
  BY MessageLemma, ConstantsAssumption DEF TypeOK
<1>1. CASE UNCHANGED stream
  BY <1>1 DEF RetryChain
<1>2. ASSUME NEW i \in Job, stream' = Append(stream, i), i.attempt < MaxAttempts,
             i.attempt > 0 => \E k \in 1..Len(stream) : RetryOf(stream[k]) = i
      PROVE  RetryChain'
  <2>1. /\ DOMAIN stream' = 1..(Len(stream) + 1)
        /\ \A m \in 1..Len(stream) : stream'[m] = stream[m]
        /\ stream'[Len(stream) + 1] = i
    BY <1>0, <1>2, XAddLemma
  <2>2. ASSUME NEW m \in 1..(Len(stream) + 1)
        PROVE  /\ stream'[m].attempt < MaxAttempts
               /\ stream'[m].attempt > 0 => \E k \in 1..(m - 1) : RetryOf(stream'[k]) = stream'[m]
    <3>1. CASE m = Len(stream) + 1
      <4>1. (m - 1) = Len(stream)
        BY <1>0, <3>1
      <4> QED
        BY <1>2, <2>1, <3>1, <4>1
    <3>2. CASE m # Len(stream) + 1
      <4>1. m \in 1..Len(stream) /\ \A k \in 1..(m - 1) : k \in 1..Len(stream)
        BY <1>0, <3>2
      <4> QED
        BY <1>0, <2>1, <4>1 DEF RetryChain
    <3> QED
      BY <3>1, <3>2
  <2> QED
    BY <2>1, <2>2 DEF RetryChain, RetryOf
<1>3. ASSUME NEW r \in Runs, Publish(r) PROVE RetryChain'
  <2>1. FirstJob(r) \in Job /\ FirstJob(r).attempt = 0 /\ stream' = Append(stream, FirstJob(r))
    BY <1>3, JobLemma DEF Publish, FirstJob
  <2> QED
    BY <1>0, <1>2, <2>1
<1>4. ASSUME NEW k \in DOMAIN stream, stream[k].attempt + 1 < MaxAttempts,
             stream' = Append(stream, RetryOf(stream[k]))
      PROVE  RetryChain'
  <2>1. RetryOf(stream[k]) \in Job /\ RetryOf(stream[k]).attempt < MaxAttempts
    BY <1>0, <1>4, JobLemma DEF RetryOf
  <2> QED
    BY <1>0, <1>2, <1>4, <2>1
<1> QED
  BY <1>1, <1>3, <1>4, AppendLemma

(* No attempt beyond the limit is ever queued, and every retry stands       *)
(* behind the attempt it retries (worker.py lines 67-90).                   *)
THEOREM RetriesAreChained == Spec => []RetryChain
<1>1. Init => RetryChain
  BY DEF Init, RetryChain
<1>2. TypeOK /\ DeliveryInv => HandlingOK
  BY DEF DeliveryInv
<1> QED
  BY <1>1, <1>2, DeliveryInvInit, DeliveryInvStep, RetryChainStep, PTL DEF Spec

-----------------------------------------------------------------------------
(* The queue implements RunDelivery.                                       *)

(* An XADD brings the run of the new job into the backlog and leaves every  *)
(* other run where it is.                                                   *)
LEMMA AppendedRun ==
  ASSUME TypeOK, NEW i \in Job, stream' = Append(stream, i), UNCHANGED <<delivered, pel>>,
         NEW q \in Runs
  PROVE  /\ Enqueued(q)' <=> Enqueued(q) \/ q = i.run
         /\ InBacklog(q)' <=> InBacklog(q) \/ q = i.run
<1>0. /\ DOMAIN stream = 1..Len(stream) /\ Len(stream) \in Nat /\ delivered \in 0..Len(stream)
      /\ DOMAIN stream' = 1..(Len(stream) + 1) /\ Len(stream') = Len(stream) + 1
      /\ \A m \in 1..Len(stream) : stream'[m] = stream[m]
      /\ stream'[Len(stream) + 1] = i
  BY XAddLemma DEF TypeOK
<1>1. Enqueued(q)' <=> Enqueued(q) \/ q = i.run
  BY <1>0 DEF Enqueued
<1>2. ASSUME NEW m \in 1..Len(stream)
      PROVE  (Undelivered(m) \/ Pending(m))' <=> Undelivered(m) \/ Pending(m)
  BY <1>0 DEF Undelivered, Pending
<1> PICK n \in Nat : n = Len(stream) + 1
  BY <1>0
<1>3. Undelivered(n)'
  BY <1>0 DEF Undelivered
<1>4. InBacklog(q)' => InBacklog(q) \/ q = i.run
  <2> SUFFICES ASSUME NEW m \in DOMAIN stream', stream'[m].run = q,
                      (Undelivered(m) \/ Pending(m))'
               PROVE  InBacklog(q) \/ q = i.run
    BY DEF InBacklog
  <2> QED
    BY <1>0, <1>2 DEF InBacklog
<1>5. InBacklog(q) => InBacklog(q)'
  BY <1>0, <1>2 DEF InBacklog
<1>6. q = i.run => InBacklog(q)'
  BY <1>0, <1>3 DEF InBacklog
<1> QED
  BY <1>1, <1>4, <1>5, <1>6

(* Where a step leaves the stream and the pending list alone, or moves the  *)
(* next entry to the pending list, no run enters or leaves the backlog.     *)
LEMMA SameBacklog ==
  ASSUME TypeOK, UNCHANGED stream,
         \/ UNCHANGED <<delivered, pel>>
         \/ delivered' = delivered + 1 /\ pel' = pel \cup {delivered + 1},
         NEW q \in Runs
  PROVE  (Enqueued(q)' <=> Enqueued(q)) /\ (InBacklog(q)' <=> InBacklog(q))
<1>0. /\ DOMAIN stream = 1..Len(stream) /\ Len(stream) \in Nat /\ delivered \in Nat
  BY DEF TypeOK
<1>1. \A m \in DOMAIN stream : (Undelivered(m) \/ Pending(m))' <=> Undelivered(m) \/ Pending(m)
  BY <1>0 DEF Undelivered, Pending
<1> QED
  BY <1>0, <1>1 DEF Enqueued, InBacklog

(* An XACK takes at most the run of its message out of the backlog. *)
LEMMA AckedRun ==
  ASSUME TypeOK, UNCHANGED <<stream, delivered>>, NEW m \in DOMAIN stream,
         pel' = pel \ {m}, NEW q \in Runs
  PROVE  /\ Enqueued(q)' <=> Enqueued(q)
         /\ InBacklog(q)' => InBacklog(q)
         /\ InBacklog(q) => InBacklog(q)' \/ q = stream[m].run
<1>2. stream' = stream
  OBVIOUS
<1>3. Enqueued(q)' <=> Enqueued(q)
  BY <1>2 DEF Enqueued
<1>4. ASSUME InBacklog(q)' PROVE InBacklog(q)
  <2>1. PICK k \in DOMAIN stream : stream[k].run = q /\ (Undelivered(k) \/ Pending(k))'
    BY <1>2, <1>4 DEF InBacklog
  <2> QED
    BY <2>1 DEF InBacklog, Undelivered, Pending
<1>5. ASSUME InBacklog(q), q # stream[m].run PROVE InBacklog(q)'
  <2>1. PICK k \in DOMAIN stream : stream[k].run = q /\ (Undelivered(k) \/ Pending(k))
    BY <1>5 DEF InBacklog
  <2>2. k # m /\ k \in DOMAIN stream' /\ stream'[k].run = q
    BY <1>2, <1>5, <2>1
  <2>3. (Undelivered(k) \/ Pending(k))'
    BY <1>2, <2>1, <2>2 DEF Undelivered, Pending
  <2> QED
    BY <2>2, <2>3 DEF InBacklog
<1> QED
  BY <1>3, <1>4, <1>5

(* The steps that can change what RunDelivery sees: an XADD, a finished    *)
(* execution, a burial, an XACK.                                           *)
LEMMA OtherStepsInvisible ==
  ASSUME TypeOK, HandlingOK, [Next]_vars,
         \A r \in Runs : ~ Publish(r),
         \A w \in Workers : /\ ~ Requeue(w) /\ ~ ExecuteOk(w) /\ ~ Bury(w)
                            /\ ~ AckSucceeded(w) /\ ~ AckFailed(w)
                            /\ CallFails(w) => UNCHANGED pel
  PROVE  /\ UNCHANGED <<stream, completed, deadLetter>>
         /\ \/ UNCHANGED <<delivered, pel>>
            \/ delivered' = delivered + 1 /\ pel' = pel \cup {delivered + 1}
<1>1. ASSUME NEW r \in Runs, Admit(r) \/ ApiCrash(r)
      PROVE  UNCHANGED <<stream, completed, deadLetter, delivered, pel>>
  BY <1>1 DEF Admit, Record, MarkQueued, ApiCrash, redisVars
<1>2. ASSUME NEW w \in Workers, Heartbeat(w) \/ WorkerFault(w)
      PROVE  UNCHANGED <<stream, completed, deadLetter, delivered, pel>>
  BY <1>2 DEF Heartbeat, WorkerFault, LeaseOverrun, HeartbeatDies, CallFails, ScanFails,
              HandlerCallFails, WorkerCrash, redisVars
<1>3. ASSUME NEW w \in Workers, Handle(w)
      PROVE  UNCHANGED <<stream, completed, deadLetter, delivered, pel>>
  BY <1>3 DEF Handle, MarkStarted, RenewOnStart, ExecuteFail, CancelOnLeaseLost, MarkSucceeded,
              MarkDeadLetter, MarkRetrying, MarkRequeued, Finally, redisVars
<1>4. ASSUME NEW w \in Workers, Claim(w)
      PROVE  /\ UNCHANGED <<stream, completed, deadLetter>>
             /\ \/ UNCHANGED <<delivered, pel>>
                \/ delivered' = delivered + 1 /\ pel' = pel \cup {delivered + 1}
  BY <1>4 DEF Claim, AutoClaim, TryLeaseScanned, ReadGroup, TryLeaseNew
<1>5. ASSUME \/ \E m \in pel : BecomeIdle(m)
             \/ \E j \in Job : LeaseExpires(j)
             \/ UNCHANGED vars
      PROVE  UNCHANGED <<stream, completed, deadLetter, delivered, pel>>
  BY <1>5 DEF BecomeIdle, LeaseExpires, vars, redisVars
<1> QED
  BY <1>1, <1>2, <1>3, <1>4, <1>5 DEF Next, WorkerStep

(* Every step of the queue is a step of RunDelivery or invisible to it. *)
LEMMA RefinementStep ==
  ASSUME TypeOK, DeliveryInv, NoLostRun', [Next]_vars
  PROVE  \/ UNCHANGED <<Accepted, Backlog, Settled>>
         \/ \E r \in Runs :
              \/ /\ r \notin Accepted
                 /\ Accepted' = Accepted \cup {r}
                 /\ Backlog' = Backlog \cup {r}
                 /\ UNCHANGED Settled
              \/ /\ r \in Accepted \ Settled
                 /\ Settled' = Settled \cup {r}
                 /\ UNCHANGED <<Accepted, Backlog>>
              \/ /\ r \in Backlog \cap Settled
                 /\ Backlog' = Backlog \ {r}
                 /\ UNCHANGED <<Accepted, Settled>>
              \/ /\ r \in Accepted \ Backlog
                 /\ Backlog' = Backlog \cup {r}
                 /\ UNCHANGED <<Accepted, Settled>>
<1> DEFINE Goal == \/ UNCHANGED <<Accepted, Backlog, Settled>>
                   \/ \E r \in Runs :
                        \/ /\ r \notin Accepted
                           /\ Accepted' = Accepted \cup {r}
                           /\ Backlog' = Backlog \cup {r}
                           /\ UNCHANGED Settled
                        \/ /\ r \in Accepted \ Settled
                           /\ Settled' = Settled \cup {r}
                           /\ UNCHANGED <<Accepted, Backlog>>
                        \/ /\ r \in Backlog \cap Settled
                           /\ Backlog' = Backlog \ {r}
                           /\ UNCHANGED <<Accepted, Settled>>
                        \/ /\ r \in Accepted \ Backlog
                           /\ Backlog' = Backlog \cup {r}
                           /\ UNCHANGED <<Accepted, Settled>>
<1>0. /\ HandlingOK /\ NotEnqueuedEarly /\ DOMAIN stream = 1..Len(stream)
      /\ \A m \in DOMAIN stream : stream[m] \in Job /\ stream[m].run \in Runs
      /\ \A w \in Workers : pc[w] \in HoldingStages =>
           msg[w] \in DOMAIN stream /\ JobOf(w) = stream[msg[w]]
  BY MessageLemma DEF DeliveryInv, HandlingOK, JobOf
<1>1. UNCHANGED <<completed, deadLetter>> => UNCHANGED Settled
  BY DEF Settled, Buried
<1>2. ASSUME UNCHANGED stream,
             \/ UNCHANGED <<delivered, pel>>
             \/ delivered' = delivered + 1 /\ pel' = pel \cup {delivered + 1}
      PROVE  UNCHANGED <<Accepted, Backlog>>
  BY <1>2, SameBacklog DEF Accepted, Backlog
<1>3. ASSUME NEW r \in Runs, Publish(r) PROVE Goal
  <2>1. FirstJob(r) \in Job /\ FirstJob(r).run = r
    BY JobLemma DEF FirstJob
  <2>2. stream' = Append(stream, FirstJob(r)) /\ UNCHANGED <<delivered, pel, completed, deadLetter>>
    BY <1>3 DEF Publish
  <2>3. r \notin Accepted
    BY <1>0, <1>3 DEF Publish, NotEnqueuedEarly, Accepted
  <2>4. \A q \in Runs : /\ Enqueued(q)' <=> Enqueued(q) \/ q = r
                        /\ InBacklog(q)' <=> InBacklog(q) \/ q = r
    BY <2>1, <2>2, AppendedRun
  <2>5. Accepted' = Accepted \cup {r} /\ Backlog' = Backlog \cup {r}
    BY <2>4 DEF Accepted, Backlog
  <2> QED
    BY <1>1, <2>2, <2>3, <2>5
<1>4. ASSUME NEW w \in Workers, Requeue(w) PROVE Goal
  <2>1. pc[w] \in HoldingStages /\ JobOf(w).attempt + 1 < MaxAttempts
    BY <1>0, <1>4 DEF Requeue, Goto, HoldingStages, HandlerStages, HandlingOK
  <2>2. JobOf(w) \in Job /\ JobOf(w).run \in Runs /\ msg[w] \in DOMAIN stream
    BY <1>0, <2>1
  <2>3. RetryOf(JobOf(w)) \in Job /\ RetryOf(JobOf(w)).run = JobOf(w).run
    BY <2>1, <2>2, JobLemma DEF RetryOf
  <2>4. stream' = Append(stream, RetryOf(JobOf(w))) /\ UNCHANGED <<delivered, pel, completed, deadLetter>>
    BY <1>4 DEF Requeue, XAdd
  <2>5. \A q \in Runs : /\ Enqueued(q)' <=> Enqueued(q) \/ q = JobOf(w).run
                        /\ InBacklog(q)' <=> InBacklog(q) \/ q = JobOf(w).run
    BY <2>3, <2>4, AppendedRun
  <2>6. Enqueued(JobOf(w).run)
    BY <1>0, <2>1, <2>2 DEF Enqueued
  <2>7. UNCHANGED Accepted /\ Backlog' = Backlog \cup {JobOf(w).run} /\ JobOf(w).run \in Accepted
    BY <2>2, <2>5, <2>6 DEF Accepted, Backlog
  <2>8. UNCHANGED Settled
    BY <1>1, <2>4
  <2>9. CASE JobOf(w).run \in Backlog
    BY <2>7, <2>8, <2>9
  <2>10. CASE JobOf(w).run \notin Backlog
    BY <2>2, <2>7, <2>8, <2>10
  <2> QED
    BY <2>9, <2>10
<1>5. ASSUME NEW w \in Workers, ExecuteOk(w) \/ Bury(w) PROVE Goal
  <2>1. pc[w] \in HoldingStages
    BY <1>5 DEF ExecuteOk, Bury, Goto, HoldingStages, HandlerStages
  <2>2. JobOf(w) \in Job /\ JobOf(w).run \in Runs /\ JobOf(w).run \in Accepted
    BY <1>0, <2>1 DEF Accepted, Enqueued
  <2>3. UNCHANGED <<stream, delivered, pel>>
    BY <1>5 DEF ExecuteOk, Bury, redisVars
  <2>4. Settled' = Settled \cup {JobOf(w).run}
    <3>1. CASE ExecuteOk(w)
      BY <3>1 DEF ExecuteOk, redisVars, Settled, Buried
    <3>2. CASE Bury(w)
      <4>1. completed' = completed /\ deadLetter' = deadLetter \cup {JobOf(w)}
        BY <3>2 DEF Bury
      <4>2. \A q \in Runs : Buried(q)' <=> Buried(q) \/ q = JobOf(w).run
        BY <4>1 DEF Buried
      <4> QED
        BY <2>2, <4>1, <4>2 DEF Settled
    <3> QED
      BY <1>5, <3>1, <3>2
  <2>5. UNCHANGED <<Accepted, Backlog>>
    BY <1>2, <2>3
  <2>6. CASE JobOf(w).run \in Settled
    BY <2>4, <2>5, <2>6
  <2>7. CASE JobOf(w).run \notin Settled
    BY <2>2, <2>4, <2>5, <2>7
  <2> QED
    BY <2>6, <2>7
<1>6. ASSUME NEW w \in Workers,
             AckSucceeded(w) \/ AckFailed(w) \/ (CallFails(w) /\ ~ UNCHANGED pel)
      PROVE  Goal
  <2>1. pc[w] \in HoldingStages
    BY <1>6 DEF AckSucceeded, AckFailed, CallFails, Goto, HoldingStages, HandlerStages, TryStages
  <2>2. PICK m \in DOMAIN stream : m = msg[w]
    BY <1>0, <2>1
  <2>3. /\ UNCHANGED <<stream, delivered, completed, deadLetter>>
        /\ pel' = pel \ {m}
    BY <1>6, <2>2 DEF AckSucceeded, AckFailed, CallFails, XAck
  <2>4. \A q \in Runs : /\ Enqueued(q)' <=> Enqueued(q)
                        /\ InBacklog(q)' => InBacklog(q)
                        /\ InBacklog(q) => InBacklog(q)' \/ q = stream[m].run
    BY <2>3, AckedRun
  <2>5. PICK r \in Runs : r = stream[m].run
    BY <1>0
  <2>6. UNCHANGED <<Accepted, Settled>>
    BY <1>1, <2>3, <2>4 DEF Accepted
  <2>7. CASE UNCHANGED Backlog
    BY <2>6, <2>7
  <2>8. CASE ~ UNCHANGED Backlog
    <3>1. InBacklog(r) /\ ~ InBacklog(r)' /\ Backlog' = Backlog \ {r}
      BY <2>4, <2>5, <2>8 DEF Backlog
    <3>2. Enqueued(r) /\ Enqueued(r)'
      BY <2>4, <3>1 DEF InBacklog, Enqueued
    <3>3. r \in Settled'
      BY <3>1, <3>2 DEF NoLostRun, Settled
    <3>4. r \in Backlog \cap Settled
      BY <2>6, <3>1, <3>3 DEF Backlog
    <3> QED
      BY <2>6, <3>1, <3>4
  <2> QED
    BY <2>7, <2>8
<1>7. CASE /\ \A r \in Runs : ~ Publish(r)
           /\ \A w \in Workers : /\ ~ Requeue(w) /\ ~ ExecuteOk(w) /\ ~ Bury(w)
                                 /\ ~ AckSucceeded(w) /\ ~ AckFailed(w)
                                 /\ CallFails(w) => UNCHANGED pel
  BY <1>0, <1>1, <1>2, <1>7, OtherStepsInvisible
<1> QED
  BY <1>3, <1>4, <1>5, <1>6, <1>7

(* The queue gives at-least-once delivery its safety part: whatever crashes *)
(* or fails, an accepted run leaves the backlog only when it is settled.    *)
THEOREM ImplementsDelivery == Spec => DeliverySafe
<1>1. Init => Delivery!Init
  BY DEF Init, Delivery!Init, Accepted, Backlog, Settled, Enqueued, InBacklog, Buried
<1>2. TypeOK /\ DeliveryInv /\ NoLostRun' /\ [Next]_vars => [Delivery!Next]_(Delivery!vars)
  BY RefinementStep DEF Accepted, Backlog, Settled, Delivery!Next, Delivery!vars,
     Delivery!Accept, Delivery!Settle, Delivery!Retire, Delivery!Return
<1>3. TypeOK /\ DeliveryInv => NoLostRun
  BY DeliveryInvImpliesNoLostRun
<1> QED
  BY <1>1, <1>2, <1>3, DeliveryInvInit, DeliveryInvStep, PTL
     DEF Spec, DeliverySafe, Delivery!SafeSpec
=============================================================================
