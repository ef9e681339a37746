--------------------------- MODULE UsageMetering ----------------------------
(***************************************************************************)
(* How runs of one organisation are admitted and charged: create_run with  *)
(* its idempotency key and quota check, the retries of a run's agent steps *)
(* (TaskGraph._execute_node_with_retry), and the UsageLedger they are      *)
(* charged to.  Every process holds a copy of the ledger that it loaded    *)
(* when it started; the file usage_ledger.jsonl is shared and only appended*)
(* to, with no lock between the reading and the append of record().        *)
(*                                                                         *)
(* Durable = FALSE is the API that executes runs in its own process,       *)
(* Durable = TRUE the production route, where worker processes do.  Inside *)
(* one process code without an await is not interleaved.                   *)
(***************************************************************************)
EXTENDS Naturals, Sequences, FiniteSets

CONSTANTS
    Apis, Workers,  \* processes
    Requests,       \* POST /api/v1/run, each sent once
    KeyOf,          \* the Idempotency-Key of a request, or NoKey
    Runs,           \* run ids that create_run can draw
    Contexts,       \* hashes of the input context of a completed step
    Steps,          \* agent steps of a run
    MaxRetries,     \* TaskGraph.max_retries
    RunsPerMonth,   \* Quota.runs_per_month
    BurstGrace,     \* burst_grace_pct under allow_with_overage_billing, else 0
    Durable,
    MaxCrashes, MaxFaults,   \* bounds
    NoKey, NoRun, NoProc, NoContext

ASSUME ProcsAssumption == NoProc \notin Apis \cup Workers
ASSUME RunsAssumption == NoRun \notin Runs
ASSUME ContextAssumption == NoContext \notin Contexts
ASSUME LimitsAssumption ==
    /\ Steps \in Nat \ {0} /\ RunsPerMonth \in Nat \ {0}
    /\ MaxRetries \in Nat /\ BurstGrace \in Nat
    /\ MaxCrashes \in Nat /\ MaxFaults \in Nat
    /\ Durable \in BOOLEAN

VARIABLES
    ledger,     \* the lines of usage_ledger.jsonl
    written,    \* _written_keys of each process
    entries,    \* _entries of each process
    request,    \* of each request: stage, serving process, run
    idem,       \* loom:idempotency:<org>:<key>
    recorded,   \* runs in the records store
    exec,       \* of each run: stage, process, step, attempt, ledger row
    done,       \* of each run: steps its checkpoint shows completed
    crashes, faults

ledgers == <<ledger, written, entries>>
admission == <<request, idem, recorded>>
execution == <<exec, done>>
vars == <<ledgers, admission, execution, crashes, faults>>

Procs == Apis \cup Workers
Keys == {KeyOf[q] : q \in Requests} \ {NoKey}
Rows == [run : Runs, step : 1 .. Steps, attempt : 1 .. MaxRetries + 1,
         ctx : Contexts \cup {NoContext}]

\* UsageEvent.dedup_key, with SHA-256 taken as injective.
DedupKey(row) == <<row.run, row.step, row.attempt, row.ctx>>
KeysOf(rows) == {DedupKey(rows[i]) : i \in 1 .. Len(rows)}
RunsOf(rows) == {rows[i].run : i \in 1 .. Len(rows)}

\* Mutant of LoadedEntries: only the deduplication state is restored.
LoadedNothing(rows) == <<>>

\* _load_existing_entries keeps the first line of every key.
LoadedEntries(rows) ==
    LET Kept[n \in 0 .. Len(rows)] ==
            IF n = 0 THEN <<>>
            ELSE IF DedupKey(rows[n]) \in KeysOf(Kept[n - 1]) THEN Kept[n - 1]
            ELSE Append(Kept[n - 1], rows[n])
    IN  Kept[Len(rows)]

\* evaluate_quota on build_snapshot, for the dimension of runs.
WithinQuota(consumed) == consumed * 100 < (100 + BurstGrace) * RunsPerMonth

Idle == [pc |-> "none", proc |-> NoProc, step |-> 1, attempt |-> 1, row |-> NoRun]

Init ==
    /\ ledger = <<>>
    /\ written = [p \in Procs |-> {}] /\ entries = [p \in Procs |-> <<>>]
    /\ request = [q \in Requests |-> [pc |-> "new", api |-> NoProc, run |-> NoRun]]
    /\ idem = [k \in Keys |-> NoRun] /\ recorded = {}
    /\ exec = [r \in Runs |-> Idle]
    /\ done = [r \in Runs |-> 0]
    /\ crashes = 0 /\ faults = 0

----------------------------------------------------------------------------
\* No run of the process is between the reading and the append of record().
Free(p) == \A r \in Runs : ~(exec[r].proc = p /\ exec[r].pc = "append")

At(q, stage) == request[q].pc = stage /\ Free(request[q].api)
Answer(q, stage, r) ==
    request' = [request EXCEPT ![q].pc = stage, ![q].run = r]

\* get_idempotent_run, awaited; the production route has no such step.
Arrive(q, a) ==
    /\ request[q].pc = "new" /\ Free(a)
    /\ LET known == ~Durable /\ KeyOf[q] # NoKey /\ idem[KeyOf[q]] # NoRun
       IN  request' = [request EXCEPT ![q] =
               [pc |-> IF known THEN "existing" ELSE "evaluate", api |-> a,
                run |-> IF known THEN idem[KeyOf[q]] ELSE NoRun]]
    /\ UNCHANGED <<ledgers, idem, recorded, execution, crashes, faults>>

Consumed(q) == Cardinality(RunsOf(entries[request[q].api]))
Fresh(r) == \A q \in Requests : request[q].run # r

\* 402: the snapshot of this process says the quota is exhausted.
Deny(q) ==
    /\ At(q, "evaluate") /\ ~WithinQuota(Consumed(q))
    /\ Answer(q, "denied", NoRun)
    /\ UNCHANGED <<ledgers, idem, recorded, execution, crashes, faults>>


\* The run gets its id; the production route also records it as queued.
Admit(q, r) ==
    /\ At(q, "evaluate") /\ WithinQuota(Consumed(q)) /\ Fresh(r)
    /\ Answer(q, IF ~Durable /\ KeyOf[q] # NoKey THEN "reserve" ELSE "register", r)
    /\ recorded' = IF Durable THEN recorded \cup {r} ELSE recorded
    /\ UNCHANGED <<ledgers, idem, execution, crashes, faults>>

\* Mutant of Reserve: the key is not stored.
ReserveNothing(q) ==
    /\ At(q, "reserve")
    /\ Answer(q, "register", request[q].run)
    /\ UNCHANGED <<ledgers, idem, recorded, execution, crashes, faults>>

\* reserve_idempotency_key: SET NX, whose answer create_run does not look at.
Reserve(q) ==
    /\ At(q, "reserve")
    /\ IF idem[KeyOf[q]] = NoRun
       THEN idem' = [idem EXCEPT ![KeyOf[q]] = request[q].run]
       ELSE UNCHANGED idem
    /\ Answer(q, "register", request[q].run)
    /\ UNCHANGED <<ledgers, recorded, execution, crashes, faults>>

\* Mutant of Create: the run starts, and the records store is not told.
CreateUnrecorded(q) ==
    LET r == request[q].run IN
    /\ At(q, "register")
    /\ Answer(q, "created", r)
    /\ exec' = [exec EXCEPT ![r] = [Idle EXCEPT !.pc = "agent", !.proc = request[q].api]]
    /\ UNCHANGED <<ledgers, idem, recorded, done, crashes, faults>>

\* register_run, record_run and the task of the graph; or JobQueue.enqueue.
Create(q) ==
    LET r == request[q].run IN
    /\ At(q, "register")
    /\ Answer(q, "created", r)
    /\ recorded' = recorded \cup {r}
    /\ exec' = [exec EXCEPT ![r] =
          IF Durable THEN [Idle EXCEPT !.pc = "queued"]
          ELSE [Idle EXCEPT !.pc = "agent", !.proc = request[q].api]]
    /\ UNCHANGED <<ledgers, idem, done, crashes, faults>>

\* The Redis call of Reserve or Create raises: 500.
RequestFails(q) ==
    /\ At(q, "reserve") \/ At(q, "register")
    /\ faults < MaxFaults /\ faults' = faults + 1
    /\ Answer(q, "failed", request[q].run)
    /\ UNCHANGED <<ledgers, idem, recorded, execution, crashes>>

----------------------------------------------------------------------------
\* A job is handled by one worker at a time (module JobQueue); the graph goes
\* on behind the last step its checkpoint shows completed.
Take(w, r) ==
    /\ exec[r].pc = "queued"
    /\ \A x \in Runs : exec[x].proc # w
    /\ exec' = [exec EXCEPT ![r] =
          [Idle EXCEPT !.pc = "agent", !.proc = w, !.step = done[r] + 1]]
    /\ UNCHANGED <<ledgers, admission, done, crashes, faults>>

Event(r, c) == [run |-> r, step |-> exec[r].step, attempt |-> exec[r].attempt,
                ctx |-> c]

\* Mutant of Known: only the keys this process has written or loaded.
KnownHere(p) == written[p]

Known(p) == written[p] \cup KeysOf(ledger)

\* agent.execute returns or raises (c = NoContext), and record() reads the
\* file: a known key is skipped.
Record(r, c) ==
    LET p == exec[r].proc  row == Event(r, c) IN
    /\ exec[r].pc = "agent" /\ Free(p)
    /\ written' = [written EXCEPT ![p] = Known(p)]
    /\ exec' = [exec EXCEPT ![r].row = row,
          ![r].pc = IF DedupKey(row) \in Known(p) THEN "recorded" ELSE "append"]
    /\ UNCHANGED <<ledger, entries, admission, done, crashes, faults>>

AppendRow(r) ==
    LET p == exec[r].proc  row == exec[r].row IN
    /\ exec[r].pc = "append"
    /\ ledger' = Append(ledger, row)
    /\ written' = [written EXCEPT ![p] = @ \cup {DedupKey(row)}]
    /\ entries' = [entries EXCEPT ![p] = Append(@, row)]
    /\ exec' = [exec EXCEPT ![r].pc = "recorded"]
    /\ UNCHANGED <<admission, done, crashes, faults>>

\* The file cannot be written: logged, and the step is not charged.
AppendFails(r) ==
    /\ exec[r].pc = "append"
    /\ faults < MaxFaults /\ faults' = faults + 1
    /\ exec' = [exec EXCEPT ![r].pc = "recorded"]
    /\ UNCHANGED <<ledgers, admission, done, crashes>>

Recorded(r) == exec[r].pc = "recorded" /\ Free(exec[r].proc)
Succeeded(r) == exec[r].row.ctx # NoContext

\* The step completed and is checkpointed.
Advance(r) ==
    /\ Recorded(r) /\ Succeeded(r)
    /\ done' = [done EXCEPT ![r] = exec[r].step]
    /\ exec' = [exec EXCEPT ![r] =
          IF exec[r].step = Steps THEN [Idle EXCEPT !.pc = "settled"]
          ELSE [exec[r] EXCEPT !.pc = "agent", !.step = exec[r].step + 1, !.attempt = 1]]
    /\ UNCHANGED <<ledgers, admission, crashes, faults>>

Retry(r) ==
    /\ Recorded(r) /\ ~Succeeded(r) /\ exec[r].attempt <= MaxRetries
    /\ exec' = [exec EXCEPT ![r].pc = "agent", ![r].attempt = @ + 1]
    /\ UNCHANGED <<ledgers, admission, done, crashes, faults>>

\* The retries are exhausted, or the same error came again.
GiveUp(r) ==
    /\ Recorded(r) /\ ~Succeeded(r)
    /\ exec[r].attempt > 1 \/ exec[r].attempt > MaxRetries
    /\ exec' = [exec EXCEPT ![r] = [Idle EXCEPT !.pc = "settled"]]
    /\ UNCHANGED <<ledgers, admission, done, crashes, faults>>

----------------------------------------------------------------------------
\* A process dies and is started again: its requests and the runs it executes
\* in memory are lost, a worker's job is delivered again, and the ledger is
\* loaded from the file.
Restart(p) ==
    /\ crashes < MaxCrashes /\ crashes' = crashes + 1
    /\ written' = [written EXCEPT ![p] = KeysOf(ledger)]
    /\ entries' = [entries EXCEPT ![p] = LoadedEntries(ledger)]
    /\ request' = [q \in Requests |->
          IF request[q].api = p /\ request[q].pc \in {"evaluate", "reserve", "register"}
          THEN [request[q] EXCEPT !.pc = "failed"] ELSE request[q]]
    /\ exec' = [r \in Runs |->
          IF exec[r].proc # p THEN exec[r]
          ELSE [Idle EXCEPT !.pc = IF Durable THEN "queued" ELSE "settled"]]
    /\ UNCHANGED <<ledger, idem, recorded, done, faults>>


Serve(q) ==
    \/ \E a \in Apis : Arrive(q, a)
    \/ Deny(q) \/ (\E r \in Runs : Admit(q, r)) \/ Reserve(q) \/ Create(q)

Next ==
    \/ \E q \in Requests : Serve(q) \/ RequestFails(q)
    \/ \E r \in Runs :
          \/ \E w \in Workers : Take(w, r)
          \/ \E c \in Contexts \cup {NoContext} : Record(r, c)
          \/ AppendRow(r) \/ AppendFails(r)
          \/ Advance(r) \/ Retry(r) \/ GiveUp(r)
    \/ \E p \in Procs : Restart(p)

Spec == Init /\ [][Next]_vars

\* A request that was received is served, and record() is plain sequential
\* code: neither waits for anything but its own turn in the event loop.
Fairness ==
    /\ \A q \in Requests : WF_vars(Serve(q) /\ request[q].pc # "new")
    /\ \A r \in Runs : WF_vars(AppendRow(r))

FairSpec == Spec /\ Fairness

----------------------------------------------------------------------------
TypeOK ==
    /\ ledger \in Seq(Rows)
    /\ \A p \in Procs : entries[p] \in Seq(Rows)
    /\ request \in [Requests -> [pc : {"new", "evaluate", "existing", "denied", "reserve",
                                       "register", "created", "failed"},
                                 api : Apis \cup {NoProc}, run : Runs \cup {NoRun}]]
    /\ idem \in [Keys -> Runs \cup {NoRun}] /\ recorded \subseteq Runs
    /\ \A r \in Runs :
          /\ exec[r].pc \in {"none", "queued", "agent", "append", "recorded", "settled"}
          /\ exec[r].proc \in Procs \cup {NoProc}
          /\ exec[r].step \in 1 .. Steps /\ exec[r].attempt \in 1 .. MaxRetries + 1
          /\ exec[r].pc \in {"append", "recorded"} => exec[r].row \in Rows
    /\ done \in [Runs -> 0 .. Steps]
    /\ crashes \in 0 .. MaxCrashes /\ faults \in 0 .. MaxFaults

\* The file has one line per (run, step, attempt, context), though record()
\* reads and appends without a lock and a run may move to another process.
OneRowPerKey ==
    \A i, j \in 1 .. Len(ledger) : DedupKey(ledger[i]) = DedupKey(ledger[j]) => i = j

\* No run is admitted when the ledger already shows the quota exhausted
\* (docs/business_logic.md "at 100% of quota: enforce org.hard_stop_policy").
QuotaEnforced ==
    [][\A q \in Requests :
        request[q].pc = "evaluate" /\ request'[q].run # NoRun
            => WithinQuota(Cardinality(RunsOf(ledger)))]_vars

\* Two requests with one key overlapped: s was given a run of its own although
\* the key is that of t, which came first to reserve it (create_run does not
\* look at what reserve_idempotency_key answers).
Overlapped(s, t) ==
    /\ s # t /\ KeyOf[t] = KeyOf[s]
    /\ request[s].pc = "created" /\ request[t].run # request[s].run
    /\ request[t].pc \in {"register", "created", "failed"}

\* A client that repeats a request after its answer is told the run it has been
\* told before, and no other comes into being; if its request overlapped
\* another with the same key it is told the run of that one, from then on.
RetryGetsExisting ==
    [][\A q, s \in Requests :
        /\ q # s /\ request[q].pc = "new" /\ request'[q].pc # "new" /\ KeyOf[q] # NoKey
        /\ request[s].pc \in {"created", "existing"} /\ KeyOf[s] = KeyOf[q]
      => /\ request'[q].pc = "existing"
         /\ \/ request'[q].run = request[s].run
            \/ \E t \in Requests : Overlapped(s, t) /\ request'[q].run = request[t].run]_vars

\* A run that an idempotent answer names comes into being, unless the request
\* that reserved the key for it failed on the way.
ExistingRunStarts ==
    \A r \in Runs :
        (\E q \in Requests : request[q].pc = "existing" /\ request[q].run = r) ~>
            \/ r \in recorded
            \/ \E s \in Requests : request[s].pc = "failed" /\ request[s].run = r
=============================================================================
