# Verification of Loom

Loom is an agentic coding harness: an API takes a request to fix an issue in a
repository, a durable queue hands it to a worker, the worker walks a fixed graph
of agents (onboarding, reproduction, planner, patcher, verifier, reviewer), a
merge decision is made, and the finished run is sealed in a hash chain and
charged to a ledger. Around that path stand the services of a control plane:
identities, billing, webhooks, records, memory. This directory holds TLA+ modules
for the parts where processes, crashes, retries and shared files meet, the TLC
configurations that check them, and TLAPS proofs. Paths below are relative to
`loom/` unless they begin with `docs/`, `scripts/`, `migrations/` or `README`.

## 1. The system

| Component | State it keeps | Operations | Talks to |
|---|---|---|---|
| Job queue and worker (`runtime/job_queue.py`, `worker.py`, `failure_policy.py`) | Redis stream `loom:jobs`, pending list, lease keys, status hashes, dead letters; the claimed job and its heartbeat | enqueue, claim, lease, ack, dead_letter, run_forever | API, executor |
| Executor and task graph (`runtime/executor.py`, `orchestrator/task_graph.py`) | OrchestratorState, flags paused/cancelled/step, run_status | run, retries of a node, approval gate, merge decision, control requests, resume | agents, checkpoint, evidence, ledger, events, records |
| Checkpoints (`orchestrator/state.py`) | `<run>.json` and its signature | save_checkpoint, load_checkpoint | graph, executor, reports |
| Agents (`orchestrator/agents/*`) | shared_data, files of the working tree | execute | router, sandbox, verification |
| Verification (`verification/runner.py`, `confidence.py`) | none | full pipeline, flip, evaluate_decision | sandbox, graph |
| Sandboxes (`sandbox/*`) | worktree snapshots, processes, virtual machines | run_command, snapshot, restore, prune, /execute, /recover | agents, verifier |
| Model router (`adapters/router.py`) | recorded calls, headroom, eligible models | resolve, score, consensus | agents |
| Context budget (`context/budget.py`) | none | assemble_context | nothing: the class is exported only |
| API runs (`api/server.py`, `runtime/production_queue.py`) | ACTIVE_RUNS, idempotency keys in Redis | create_run, control_run, approve_patch, stream | coordinator, graph or queue, ledger |
| Events and remote control (`infra/distributed.py`, `runtime/distributed_runtime.py`) | event lists, subscriber queues, Redis lists, pub/sub, run hash | broadcast_event, stream_run_events, publish_control, control loops | API, workers, clients |
| Usage ledger (`business/usage_ledger.py`, `entitlements.py`) | `usage_ledger.jsonl`; each process's copy of it | record, build_snapshot, evaluate_quota | graph, API, rollup |
| Rollup, billing, post-merge (`business/*`) | `rollup_state.json`, Organization, the run's checkpoint | run_once, apply_billing_event, invoice, report_ci_status | ledger, webhooks |
| Evidence (`verification/bundle.py`) | `evidence_chain.json`, `evidence_<run>.json` | export_bundle, verify_chain | graph |
| Identity (`auth/*`, `scim/provisioning.py`) | tokens, users, groups, memberships, deprovision tasks | issue, revoke, provision, sync group, deprovision | API |
| Webhooks (`api/webhooks.py`) | subscriptions, deliveries, dead letters | dispatch, retry, replay | graph, rollup |
| Rate limiter (`infra/distributed.py`) | sorted sets in Redis, local lists | allow | API |
| Records and schema (`db/*`, `scripts/postgres_migrate.py`) | run, step, patch and verification rows; schema_migrations | record_*, migrate, rollback | API, worker, graph |
| Memory (`memory/store.py`) | rows in tiers | add, invalidate_changed, clear_tier | agents |
| Integrations (`integrations/*`) | clone, branches, pull requests, counters | prepare_pr, create_pr | API, GitHub |
| Command line (`cli/main.py`, `cli/recovery.py`) | run record, checkpoint | run, resume-run | agents, checkpoint |

`PROJECT.json` lists these and the components without a module (section 6).

### What is hard here, and what makes each part correct

- *Queue and worker.* Any Redis call can fail and any process can die between two
  calls. An enqueued run is never lost; a lease excludes; retries stay within the
  limit and behind the attempt they retry; every run settles.
- *Task graph.* Control requests arrive between two awaits; the worker has only
  the checkpoint after a crash. MERGED only on a passing verdict about the patch
  the run carries; a required approval is waited for; cancellation is final; one
  coroutine per run.
- *Verdict.* The commands, the tree they run on and the files they need change
  between the steps. What a flip rests on must be said exactly.
- *Files that several processes rewrite* (chain, checkpoint, tokens, SCIM state,
  ledger, rollup state, working tree): lost updates, half-written content, deaths
  between two files that belong together.
- *Admission and metering.* Idempotency key, quota and ledger are read, awaited
  over and used later. One run per key, the quota holds, every execution is
  charged once, the invoice only grows.
- *Events and control.* Events reach Redis by tasks nobody awaits; a remote stream
  lists and then subscribes; a remote command needs a loop that listens. Streams
  show what they can and end; an accepted command is carried out in order.
- *Calls to others* (webhooks, GitHub, virtual machines): an answer is lost, a
  retry repeats what was done, a machine is left behind.
- *Schemas.* Stores, a script and a command line migrate one database at once.

## 2. Modules

| Module | Models | Checked in | Proofs |
|---|---|---|---|
| `JobQueue`, `RunDelivery` | queue, worker loop, lease; its abstract specification | `MCJobQueue` | `JobQueueProofs` |
| `TaskGraph` | one run: graph, outcomes, checkpoint, executor, control | `MCTaskGraph` | `TaskGraphProofs` |
| `EvidenceChain` | export_bundle at the grain of file operations | `MCWorkspace`, `MCEvidenceChain` | `EvidenceChainProofs`, `RunEffectsProofs` |
| `UsageMetering` | create_run, production route, ledger, quota | `MCApi`, `MCServices`, `MCUsageMetering` | `ApiProcessProofs` |
| `RunEvents` | events of a run, local and remote streams | `MCApi` | `ApiProcessProofs` |
| `RemoteControl` | commands for a run that executes elsewhere | `MCApi` | `ApiProcessProofs` |
| `Webhooks` | deliveries, retries, dead letters, replay | `MCApi` | `ApiProcessProofs` |
| `Identity` | tokens, SCIM users and groups, deprovisioning | `MCServices` | `ControlPlaneProofs` |
| `Billing` | plan changes and the invoice of a month | `MCServices` | `ControlPlaneProofs` |
| `Rollup` | threshold crossings and their announcements | `MCServices` | `ControlPlaneProofs` |
| `RateLimiter` | sliding window over replicas, local fallback | `MCServices` | `ControlPlaneProofs` |
| `MemoryTiers` | add, invalidate and clear by several processes | `MCServices` | `ControlPlaneProofs` |
| `RunRecords` | rows of a run, lost writes, redelivery | `MCServices` | `ControlPlaneProofs` |
| `Schema` | migrations of the SQLite stores | `MCServices` | `ControlPlaneProofs` |
| `Migrations` | migrations of the PostgreSQL schema | `MCServices` | `ControlPlaneProofs` |
| `PullRequests` | pull requests from a shared clone | `MCServices` | `ControlPlaneProofs` |
| `Workspace` | snapshots, patch file, git apply, rollback | `MCWorkspace` | `RunEffectsProofs` |
| `Checkpoints` | save and load at the grain of file operations | `MCWorkspace` | `RunEffectsProofs` |
| `CliRun` | the command line's walk, run record, resume | `MCWorkspace` | `CliRunProofs` |
| `Verification` | reproduction, verifier, flip, confidence, decision | `MCWorkspace`, `MCVerification` | `RunEffectsProofs` |
| `ModelRouter` | scores, fallback cascade, choice of a model | `MCWorkspace` | `RunEffectsProofs` |
| `PatchConsensus` | risk, consensus and the patcher's use of it | `MCPatchConsensus` | – |
| `ContextBudget` | what goes into a prompt and what is flagged | `MCWorkspace` | `RunEffectsProofs` |
| `PostMerge` | revert patch and rollback record of a CI report | `MCWorkspace` | `RunEffectsProofs` |
| `MicroVM` | the Firecracker worker and /recover | `MCWorkspace` | `RunEffectsProofs` |

Definitions named "Mutant of X" are wrong forms of X that nothing uses; replacing
X by one of them makes the property listed with it in `PROJECT.json` fail.

### Sums of modules

Components that share no state are put side by side. A *sum module*
(`ApiProcess`, `ControlPlane`, `RunEffects`) has one instance of each, a variable
`part` that an initial state fixes, one step definition per part, and keeps the
other parts in one initial state. Its state graph is the disjoint union of the
state graphs of its parts, so a property of a part means what it means alone.
Fairness of a part is guarded by `part`. `MCApi`, `MCServices` and `MCWorkspace`
give the sums their constants for TLC.

### JobQueue and RunDelivery

A message is its position in `stream`. One action is one Redis call: `pc` of a
worker says between which two calls of `run_forever` it stands. `batch` holds the
entries an XAUTOCLAIM returned and that are tried one by one. `hb` is the
heartbeat task ("on", "off", "dead": it ended with an exception nobody has seen
yet). The environment: `BecomeIdle` (visibility timeout), `LeaseExpires`,
`WorkerCrash`, `CallFails` and its kin (a Redis call raises), `HeartbeatDies`,
`LeaseOverrun` (a beat later than the TTL). `Faults` says which of these an
instance allows.

`RunDelivery` has three sets, accepted, backlog and settled, and promises that
every accepted run stays in the backlog until it settles, and does settle.
`JobQueue` instantiates it with a refinement mapping (`Delivery`), and
`DeliverySafe` (safety) and `AtLeastOnce` (with liveness) say that the queue
implements it.

### TaskGraph

`st` is the OrchestratorState with what control flow reads; `disk` is the
checkpoint. Every coroutine of `run()` has a stage (`pc`), a node (`pos`) and a
retry count. A stretch of code between two awaits is one action: start a node, an
agent returns (with each outcome the code tells apart), an agent raises, a backoff
ends, the final status. `Mode` picks the owner of the graph: "worker" resumes from
`disk` after a `Crash` and acknowledges the job; "async" and "sync" are the two
forms of create_run, which keep the graph in memory. `fresh` and `needed` in `st`
are history: the verdict is about the current patch; that patch needed approval.

### EvidenceChain and Checkpoints

Names denote inodes with a content, so truncating, writing and renaming by several
processes interleave as the file system lets them. In `EvidenceChain` a hash is
the value it hashes: injective, so a broken link is visible and a collision is not
considered; two writers on one open file leave either text or something
undecodable (`Torn`). In `Checkpoints` the content is the number of the save or
`Mangled`; `expected` collects what a load may give from the saves no other save
overlapped, and `quiet` in `load` says that none was under way.

### UsageMetering

`Durable = FALSE`: the API executes runs in its own process and honours the
idempotency key; `Durable = TRUE`: the production route, where workers execute
them and the key is ignored. `ledger` is the file, `written` and `entries` the two
collections of every UsageLedger object. `record()` is two actions (read the file;
append), which other processes interleave and the own process does not (`Free`).
`Restart` loses what a process had in memory and loads the file. A run is executed
by one process at a time, which is what `JobQueue` proves under reliable renewal.
The append of one line is atomic. Idempotency keys do not expire within a
behaviour (24 hours in the code).

### RunEvents, RemoteControl, Webhooks

`RunEvents`: `events` is `run_entry["events"]`, `recording` the record_event tasks
that have not run, `log` everything they pushed; what Redis keeps of it is
`Stored`. A stream is in its history (`replay`) or in its queue ("live"), which is
the asyncio queue of a local stream and the pubsub connection of a remote one. The
generator can be interrupted at every `yield`, so each event sent is an action, and
the registration of the queue and the copy of the list are one. `mode` tells
whether create_run waits ("sync"), starts a task ("async"), or a worker executes
the run ("queued").

`RemoteControl`: `hash` and `commands` are the two Redis keys of a run, `held` the
command a loop has popped. `mode` says who is at both ends. A boundary of the
graph, where flags are read, is one action (`Boundary`).

`Webhooks`: every delivery is a coroutine with a stage; its file is `saved`. A post
and what the receiver got are one action and the write behind it another, so a
crash between the two is a behaviour. `loops` counts iterations for `Attempts`.

### Identity, Billing, Rollup, RateLimiter

`Identity`: each process has `cache` (tokens), `scim` (users, groups, tasks) and
`members`; `stored` and `disk` are the files or rows. Calls of one process
interleave with the four steps of a deprovisioning (`op`). `revoked` and `deleted`
are history. `Billing`: a plan is four fields of the organisation; events come in
any order and more than once. Credits are computed from the ledger's rows as the
code does, with envelopes scaled to 4 tokens and 2 seconds. `Rollup`: a percentage
is one of four levels, `warned` and `exceeded` count announcements. `RateLimiter`:
`zset` holds members with the score of the replica's clock; `served` is history.

### MemoryTiers, RunRecords, Schema, Migrations, PullRequests

`MemoryTiers`: `add` is a look and an insert, `invalidate_changed` a read and one
delete after another, each with other processes in between. `RunRecords`: each
write is a transaction that may fail (`lost`), and a job whose worker died is
walked by a new execution. `Schema`: the statements of a migration commit by
themselves, its version is recorded later. `Migrations`: a transaction is begun
(lock, plan), applied and committed or aborted; `SameLock` says which processes
exclude each other; what is in the database is named by the migration that makes
it. `PullRequests`: git is atomic with respect to other requests since it blocks
the event loop; requests interleave where they await GitHub.

### Workspace, CliRun, Verification, MicroVM

`Workspace`: the tree is the set of patches in it, whether the user's uncommitted
work is there and whether left-out directories are; `patchFile` is the one
`.loom_patch.diff`. `CliRun`: `record`, `checkpoint` and `state` are the three
places that know what has run; a walk is serial or parallel, fast or not.
`Verification`: `world` fixes the model's answer, how tests behave on either tree
and what the other stages say; every command runs on the tree as it is. Two agents
read the answer, each in its own way: `script` says what the reproduction runs (a
command, a file of code, nothing) and whether the verifier takes the same answer for
its test command. The first strips an answer it does not know and runs "pytest" for
a blank one, the second asks how the answer begins and else runs the suite.
`MicroVM`: `directory` is what /recover can read, `unrecorded` the machines whose
pid is not written yet. A call of /recover (`sweep`) is handled by a thread beside
those of /execute: it lists, and for each directory reads the metadata, kills, empties
and removes, one action each. `overlooked` are the machines whose directory was
emptied by a call that had read no pid.

### ModelRouter, PatchConsensus, ContextBudget, PostMerge

These are algorithms with some state around them. `ModelRouter` computes `Score`,
`Selected` and `Cascade` as the code does, with latency and window constant.
`PatchConsensus` extends it with what the patcher does with its model's answer
(`pass`): the gateway, the risk, the answers of other models and their agreement.
`SharedRouter` says whether the patcher finds a router; in the program it does not,
and the module is checked as that. `ContextBudget` walks a ranked list; the
relevance of symbols is a float, so every list is tried. In `PostMerge` a line is a
mark and a text, `Behind` says where the loop of generate_revert_patch stands after
each line, and `Revert` what it makes of the line there. The reference definition is
`Apply`, what git makes of a patch and a file: reverting undoes the patch where
`Apply` gives the old file back.

## 3. Runs

| Run | Shows |
|---|---|
| `queue_delivery` | two workers, two attempts, two faults: no run lost, `RunDelivery`'s safety, the lease excludes under reliable renewal |
| `queue_live` | a crash, a dead heartbeat or a stalled loop, with fairness: every run settles (`RunDelivery` with liveness), retries stay chained, no worker drops its successor's lease |
| `graph_worker` | the worker with two crashes or exceptions, with fairness: MERGED only when verified, every job is acknowledged unless a pause holds it |
| `graph_api` | the asynchronous API under all controls: one pipeline, the approval gate, cancellation and rollback |
| `graph_gate` (violation) | the approval gate of a redelivered job |
| `api` | with fairness: admission (quota, repeated requests, a named run starts); `ApiFaithful`, what streams show, runs are told and webhooks deliver; `EndsAreHeard`, a final event ends the streams that can see it and a cancellation its run; `DeliveriesSettle` |
| `services` | ten parts: ledger of workers, identity, billing, rollup, rate limit, memory, records, SQLite and PostgreSQL schemas, pull requests |
| `workspace` | ten parts: evidence with two writers and with one, router, prompt budget, working tree, checkpoint files, command line, revert patches, verdicts, virtual machines beside a call of /recover |
| `evidence_lost` (violation) | two processes drop each other's chain entries |
| `metering_stale_quota` (violation) | the quota of the production route |
| `router_consensus` (violation) | a risky patch applied on one model's answer |
| `verification_flip` (violation) | a run merged whose test never failed on the base tree, or passes on neither |

Each property has a comment where it is defined that says which behaviour of the
code it is about. Several of them name a gap: `ApiFaithful`, `EndsAreHeard`,
`RevokedStaysRevoked`, `DeprovisionedIsOut`, `AppendOnlyKept`, `CheckpointReadable`,
`RecordsComplete`, `SchemaComplete`, `PrsAccounted`, `MachinesFound`,
`BudgetFlagged` and `RevertUndoes` say when the code keeps its promise and, exactly,
when it does not; section 5 has the second halves.

`RetryGetsExisting` compares runs, not only outcomes: a request that comes after an
answer with its key is told the run of that answer. The one exception is a client
whose first request lost the reservation to an overlapping one: it is told the run
of the winner from then on (`Overlapped`). `MachinesFound` excepts a machine between
the start of its process and the writing of its pid, and one whose directory was
emptied on a reading older than that writing. `FlipSources` is about deterministic
tests: behind every flip is a failing tool, code whose file is gone, or a command
that only the reproduction knows, and never the difference that the patch makes.

### Bounds

Bounds are chosen so that every action fires and two of everything that can
collide exist: two workers, two writers, three requests with one key, a retry, a
crash in every gap and, where it matters, a second one during the recovery from
the first. `MaxFaults`, `MaxCrashes`, `MaxDeaths` and the like limit the
environment; `MaxCalls`, `MaxEvents`, `MaxSaves`, `MaxSnapshots`, `MaxRequests`,
`MaxTime` and the like limit counters and are named where they are declared; the
values are in the cfg files and, for instances, in the INSTANCE of a sum module.
Parameters of the code keep their effect at small values: `Retained` is 2 (with
three snapshots, so one is pruned), `Keep` 2 (of three events), `Limit` 2 with
clocks one apart, `MaxOpenPrs` 1 with two runs of one issue, `Last` 5 migrations
(the code has five files), windows of 40, 100 and 200 tokens, one below the size
where the reserve no longer covers a body. Algorithms are checked over whole input
sets: all hunks of up to three lines with three kinds of text, all verdict worlds
(7168), all lists of up to three symbols and snippets.

The admission part of `api` has four requests, three of them with one key, since a
repetition after two overlapping requests takes three. To make room for that, the
environment of this part is one death without failing calls: a request whose call
fails is left as one that a death ended, and a row that cannot be appended is missing
in the file and in every copy of it. The failing calls fire in `services`, and the
theorems of section 4 allow any number of them.

Larger instances add more of the same: the properties are about one run, one
lease, one chain, one file or one key, and two actors are enough for each
interleaving they forbid. The theorems of section 4 remove the bounds for the
safety properties they state.

`CHECK_DEADLOCK FALSE` stands where the system comes to rest: all runs are
settled, all requests answered, all bounds reached. Symmetry is used over
processes the configuration treats alike, and never with a liveness property.

### Fairness

- Queue: weak fairness of each worker's loop and heartbeat (`run_forever` waits
  for nothing but Redis, whose calls time out), of pending entries becoming idle
  and of leases expiring (time passes). None on faults.
- Graph: weak fairness of each coroutine (asyncio runs what is ready, agents'
  calls have timeouts, sleeps end) and of the acknowledgement. None on control
  requests: a paused run may stay paused, which `RunsSettle` says.
- Admission: weak fairness of a received request and of the append.
- Events: the graph returns (`RunsSettle`), asyncio runs every task and every
  generator whose client reads. None on approvals, pruning, opening and leaving.
- Remote control: weak fairness of the loop that pops and handles, and of the run.
- Webhooks: weak fairness of each delivery's coroutine; posts time out.

## 4. Proofs

All theorems hold for every value of the constants that the named ASSUMEs allow:
marks such as `Free`, `NoRun` or `Torn` differ from real values, bounds are
natural numbers, sets whose members are counted are finite. The assumptions that
say more follow the code: `MigrationsAssumption` (at least four files, and a
script is neither a store nor a shell), `RepositoryAssumption` (one snapshot at
least is kept), `ContextAssumption` (sizes are numbers of tokens, and the note
about a cut body is not longer than a body may be), `PullsAssumption` (a
contributor may have one request open), `RoutingAssumption` (no model is called
"auto"), `KeepAssumption` and `HooksAssumption` (the
history of a run and the retries of a delivery are numbers), `RoutesAssumption` and
`StandingAssumption` (what a part at rest is given exists). `BillingAssumption`
takes the overage multiplier to be a fraction that is not negative; the code computes
the cap with a float and cuts it to a whole number (`business/billing.py:100-102`).
TLC evaluates all of them in the runs.

Each module keeps its own bounds in the guards (`MaxCalls`, `MaxFaults` and so on);
a theorem is about any value of them, so about behaviours of any length.

### One module at a time

- `JobQueueProofs`. The inductive invariant is `TypeOK /\ DeliveryInv`.
  `NoLostRun` alone is not inductive: a worker about to acknowledge must already
  have recorded the outcome (`OutcomeBeforeAck`), and a retry chain must end
  somewhere (`LastAttemptExists`). `NoRunIsLost` follows. `MutualExclusion` needs
  `HolderHasLease` (token in the key and heartbeat on, from claim to release),
  under reliable renewal. `LeaseRespected` and `RetriesAreChained` hold with all
  faults. `ImplementsDelivery` proves the safety part of the refinement.
- `TaskGraphProofs`. `TypeCorrect` for all three modes. `IInv` adds what a resume
  relies on: for each walking coroutine, the nodes before its position are
  completed, and a checkpoint with a completed verifier has a verdict about its
  patch. From it `MergedMeansVerified`, `OneCoroutine` and `WorkerInOrder`;
  `CancellationWins` and `RollbackIsKept` need no invariant but the types.
  `PatchIsApproved` is the approval gate of the asynchronous API. It needs `Gated`
  beside `IInv`: a coroutine that works behind the patcher has a patch that needs no
  approval or has one. The worker resumes behind the gate, which is the finding
  `graph_gate`, so the mode is a hypothesis of the theorem.
- `EvidenceChainProofs`. `GoodChains`: every chain in memory or in a file is
  well-linked without repeated runs, for any number of processes. `SoloInv` (one
  exporter) says what each stage has already put on disk and gives `SoloSealed`
  and `SoloAppendOnly`; with two exporters both fail.
- `DataInduction` has no theorem about the code. The induction theorems of the
  library take an operator as a parameter and cannot be instantiated, so what is to
  be proved of numbers is given here as a set of numbers, and the set is shown to
  have them all by its least missing member (`NatsByInduction`, `UpToByInduction`).
  A recursion whose step is given as a function has a solution (`RecursionExists`);
  sums over finite sets add up in any order and grow with their set (`SumsAt`,
  `SumsCommute`, `SumsGrow`). `ApiProcessProofs`, `ControlPlaneProofs` and
  `RunEffectsProofs` rest on it.

### Requests, streams, commands and deliveries

`ApiProcessProofs` is about `UsageMetering` first and then about the sum
`ApiProcess`, whose steps are those of one of its parts:

- `LedgerHasOneRowPerKey` (`LedgerInv`). The row a run is about to append belongs
  to that run and has a key the file does not have.
- `RepeatedRequestGetsItsRun` (`KeyReserved`), where the API executes runs itself:
  whoever asks again is told the run it was told, or that of the request it
  overlapped. A key names a run from its reservation on, an "existing" request was
  told the run its key names, and some request reserved the key for that run and has
  kept it: with these a repetition cannot be told a third run.
- `QuotaIsEnforced` (`SoleApi`), where the API executes runs itself and is alone on
  its ledger. Its copy of the ledger, a recursive function of the file, names the
  runs of the file, and nobody else executes a run; so the number that
  evaluate_quota compares is the number of runs charged. The mode and the one API
  are hypotheses: without them the quota fails, which is the finding
  `metering_stale_quota`.
- `ApiAdmits`: the sum admits runs as `UsageMetering` does. So `ApiRepeatsAnswers`
  and `ApiEnforcesQuota` are the last two theorems for the sum.
- `StreamsStayFaithful` (`StreamInv`). What a local stream has shown, what is left
  of the history it listed and what waits in its queue are, in this order, the events
  of the run; of a remote stream they are a window of the log and then what was
  published since it subscribed.
- `CommandsStayInOrder` (`ControlInv`). What a run has applied, what it holds and
  what waits in the list of commands are, in this order, what was accepted.
- `DeliveriesAreAccounted` (`HooksInv`). `Looping`: a delivery has made the posts
  that its place in the loop says. `Honest`: what is said to be delivered was
  received, and what is finished otherwise is a dead letter.
- `ApiStaysFaithful` joins the last three: `ApiFaithful`, which the run `api` checks.

### The control plane and the effects of a run

The theorems of the other three modules are about the sums `ControlPlane` and
`RunEffects`, and state the properties of the runs `services` and `workspace`. A
component has its invariant, proved of its own Init and Next as if it were alone.
A lemma that ends in "Beside" then says that in the sum the component moves as its
module says or not at all, so its specification is implied by that of the sum.

`ControlPlaneProofs`:

- `RecordsAreComplete` (`RecInv`). `RowFirst`: the run has its own row before the
  first execution could write one in its place. `Walked`: what the rows of an
  execution that lost no write look like at each place of its walk. `NothingAhead`
  and `OneRow` keep executions from each other's rows.
- `RateIsLimited` (`RateInv`). `Remembered`: whoever let a request through still
  holds its member, with the time of its clock, for as long as the request counts;
  `OnceServed`: no request is counted twice. The requests of a window then map
  one to one into the members that the limiter counted (`NoLarger`); the drift of
  the clocks is what a window may lose at its ends.
- `CrossingsAreReported` (`RollInv`). That nothing crossed stays unannounced
  (`Announced`) is easy. That announcements repeat only as often as a run died or
  overlapped needs `Once`, a count of what is still to come: announcements made,
  plus runs that may yet announce the threshold, plus one if a later run may, are
  never more than the repeats allow.
- `AppendOnlyRowsAreKept` (`MemoryInv`), an action property. `AddsInFlight`: an
  add that is about to insert found no row, or will replace the one it found.
- `SchemaIsComplete`, of both databases. `SchemaInv`: versions have no gaps, and a
  column without its version has a process, or one that died, between the two.
  `MigrationsInv`: processes of one lock exclude each other (`OneHolder`), and a
  transaction's plan still fits what is recorded when it commits, unless a
  rollback crossed a script (`PlansFit`).
- `PrsAreAccounted` (`PrInv`). `Chain`: the contents of the branches are ordered
  by inclusion, with all that was applied on top. `Within`: open requests, and
  those that were posted and not answered, stay within the limit but for the
  answers that were lost and the calls that overlap.

- `InvoiceOnlyGrows` (`BillInv`), an action property. The invariant is only that the
  plans of the organization exist and the ledger is a sequence of entries. An
  entry that is appended lets the sums of tokens and seconds grow (`SumsGrow`), so
  credits, runs and the amount before the cap do; the rest is arithmetic of the cap.
- `RevocationIsFinal` is inductive once the tokens have their types.
- `DeprovisioningIsComplete` has two independent invariants: `TaskInv` (from the
  membership step of a deprovisioning on, the process has cleared what its task
  will claim, and no call of the same process undoes it) and `GroupsInv` (every
  membership is explained by a group).

`RunEffectsProofs`:

- `SoloEvidenceIsSealed` instantiates `EvidenceChainProofs` for the directory of a
  single worker; nothing is proved twice.
- `LeftMachinesAreFound` (`VmInv`), with any number of calls of /recover beside the
  requests. `Steps`, of each request: before its process starts and after it is
  destroyed there is no machine, and no pid in the directory before it is written.
  `Swept`, of each call: one that read a pid is past the start of that machine, and
  has killed it before it empties its directory; so only a call that read none
  can hide a machine.
- `CheckpointIsReadable` (`CkInv`). `Undisturbed`: a save that no other save met
  has the temporary names to itself, so each of its stages has left what it
  should. `FileExpected` and `LoadQuiet` carry that to a load that no save crosses.
- `BudgetIsFlagged` (`CbInv`). The budgets that were spent, with the one body by
  which symbols may exceed theirs; the rest is arithmetic on shares of the window.
- `FlipRests` (`VerInv`). `BaseCommands`: the command kept for the run "before the
  patch" is the one the answer stands for. `Pipeline`: what is left of the three
  commands is one of four lists, and the results so far are explained by the tree, by
  a fault, or by a command that only the reproduction knows (`Misread`).
- `PatchIsOwn` and `PatchIsTakenBack` (`WsInv`). `OwnFile`: between its write and
  its unlink the patch file is that of a run nobody met there. `Unwritten`: a
  patch that was not written is in neither tree, file nor snapshot. `Room`:
  snapshots on disk, and agents about to take one, are few.
- `RoutedIsUsable` (`RoutingTypes`). Scores are fractions, compared
  by products; `Selected` and `Cascade` are the places of a strict total order, so
  the lemmas are about any such order on a finite set (`Places`), that a greatest
  score has no other ahead (`Greatest`), and that a price stands between the
  extremes that scale it (`PriceBounds`). Only a model
  that can answer has a positive score, and every listed eligible one that can has
  one (`Scores`).
- `RevertsUndo` (`PmInv`), for patches of any length. The invariant says only that a
  rollback was recorded where generate_revert_patch did not raise; the work is about
  patches of the agents' form (`Formed`: mode lines, the two file lines, a hunk).
  The place of the loop, before or behind the file lines, is found by induction over
  the lines (`BehindFormed`). Only lines up to the first that reads as a file line
  are turned (`Undone`), and a patch is plain if its body has none. The old side of
  the result is then compared with the new side of the patch line by line, and
  `TailsAlike` carries what holds of one pair of sides to the other: both are the
  same lines behind that place.

`CliRunProofs`:

- `ResumedIsSound` (`CliInv`). `Ordered`: the groups a walk has left keep the order
  of the graph and cover what the verifier needs. `OneEach`: each process that
  died lost the output of one node at most. `Current`: a state that passed is that
  of the last patch, unless the run was walked again.

### Only model-checked

- Liveness: the prover has neither fairness nor ENABLED. So `AtLeastOnce`,
  `RunsSettle`, `ExistingRunStarts`, `EndsAreHeard` and `DeliveriesSettle` stay with
  TLC. Of `AtLeastOnce` the safety part is proved (`ImplementsDelivery`).
- The violated properties of section 5, which have no proof.

`TypeOK` of a module documents its state; the theorems `TypeCorrect` and the
inductive invariants prove it, or what of it they need.

## 5. Disagreements between the code and what it says of itself

Five have a run in which TLC finds the violation; `PROJECT.json` has the quotations.

1. `graph_gate`: a job redelivered while a patch waits for approval resumes behind
   the approval gate (`docs/IMPLEMENTATION_PLAN.md:31`).
2. `evidence_lost`: two exporters lose each other's chain entries
   (`README.md:166`).
3. `metering_stale_quota`: in production the quota is compared with the API's
   stale copy of the ledger (`docs/business_logic.md:69`).
4. `router_consensus`: nothing sets the router the patcher asks for consensus, so
   a high-risk patch is applied on one answer (`docs/business_logic.md:129`).
5. `verification_flip`: the commands "before" and "after" the patch run on the
   patched tree; code whose file is deleted by then fails on "base" whatever the
   bug is, and so does an answer with a leading blank that the verifier does not know
   as a command; the suite passes, and the run is merged
   (`docs/business_logic.md:28`).

The models also show the following; the properties of section 3 are stated so as
to except exactly these, or no run is kept for them.

*Queue, graph and command line*

- A heartbeat call that raises ends the heartbeat task silently
  (`runtime/worker.py:118`), and an active job can be claimed by a second worker:
  the condition `RenewalReliable` of `LeaseExcludes`.
- A job redelivered after a security hold resumes at the verifier, whose verdict
  replaces the hold, and can end MERGED (docstring at
  `orchestrator/task_graph.py:73`). A rollback of a live run is overwritten by the
  status of the next node, though ROLLED_BACK is an end of a run
  (`docs/business_logic.md:176`); `RollbackStands` says from where on it is kept.
- A run whose checkpoint shows every node completed and whose acknowledgement was
  lost is executed from the first node again (docstring at
  `runtime/executor.py:32`). The flag of a cancellation does not survive a crash.
- A budget stop raises out of `run()` and leaves the last status. A synchronous
  create_run registers no task, so approve_patch during it starts a second walk.
- A parallel walk of the command line marks nodes completed before they run and
  ignores the resume point; its record is written before the checkpoint; nothing
  stops the resume of a run that is alive; `can_resume` tests for a status
  ("completed") that nothing writes.

*Verdict, patches and working tree*

- A command whose sandbox fails counts as failing on base; a failed reproduction
  does not stop the graph.
- Two runs in one repository share `.loom_patch.diff` and may apply each other's
  patch (`AppliedIsOwn` excepts `mixed`), though `README.md:237` has ephemeral
  worktrees. The snapshot of a git repository is its HEAD: a rollback loses
  uncommitted work (`sandbox/worktree.py:87`, "zero-risk rollback") and removes what
  git does not track. A copied snapshot has the age of the
  directory it copies and may look expired at once. control_run answers
  "rolled_back" even if the restore says it failed.
- A revert patch: a removed line that begins with "-- " makes it raise, an added
  line that begins with "++ " ends the flipping, and the "new file mode" line is
  kept, so that git rejects the revert of a created file. A CI report rolls back a
  run of any status, and again when it is repeated.
- A checkpoint whose writer dies between the two renames no longer matches its
  signature; overlapping saves share their temporary names, and one of them raises
  FileNotFoundError.
- A machine started and not yet recorded when the worker dies is never found. Nor is
  one whose directory /recover removes on a reading from before its pid was written:
  its request, which still runs, destroys it, unless the worker dies first. /recover
  kills machines of live requests; a directory without metadata is never removed; an
  error in writing the evidence answers 502 after the command ran.
- An unlisted model gets a negative score next to cheap ones and is never chosen.
  With a router, consensus would be reached when two secondary models agree with
  each other and not with the patch. record_event, set_quota_headroom and
  set_eligible_models have only tests as callers, and a switched model is forgotten
  on resume.
- The cut of a file at 8000 characters is not flagged, nor is a dropped memory
  snippet; symbols may exceed their share by one body, which windows of 4096
  tokens have no reserve for, and a headroom of 0 hides it.

*Admission, streams and control*

- Of two overlapping requests with one idempotency key both create a run: the answer
  of SET NX is not looked at (`api/server.py:648`), though the key is reserved
  "atomically" (`infra/distributed.py:98`). The client that lost is told the other
  run when it repeats its request (`Overlapped` in `RetryGetsExisting`).
- An API process that dies between record_run and enqueue leaves a run listed as
  queued that no worker will execute.
- The execution that repeats a step after a crash has the key of the lost one and
  is not charged (`docs/business_logic.md:277`). `build_snapshot` adds up all
  months (`business/usage_ledger.py:110`), so "runs per month" never renews; the
  model has no calendar.
- In production nobody writes the organisation of a queued run: streams and
  controls of it are answered 404 (`runtime/distributed_runtime.py:210`, `:255`),
  though `docs/production_hardening_roadmap.md:16` has streams and
  `infra/distributed.py:3` has controls cross replicas. A standalone replica
  accepts commands nobody reads; the loop of the wrapper outlives its graph, and
  its registration may write "queued" late.
- A remote stream misses what is stored between its list and its subscription, and
  waits for ever if the final event was among it. An asynchronous run sends no
  final event (`api/server.py:767`); a synchronous one sends "completed" even for
  a failure. A local stream that ends in its history leaves its queue behind
  (`api/server.py:860`).
- Webhooks: a subscription with `max_retries` 1 is posted to twice, as with 2;
  a crash loses pending deliveries; dead letters are never removed, so every
  replay sends them again; get_delivery is stale after a replay.
- The limiter's window holds its limit up to the difference of the replicas'
  clocks, and each replica lets its own limit through while Redis fails.

*Money, identity and data*

- A second export of a run keeps the chain entry and replaces the evidence file by
  one whose bundle is not the hashed one (`docs/business_logic.md:206`).
- The rollup repeats announcements when it dies before its state is written or
  overlaps another run, though it says "idempotent on replay"; a quota that passes
  100 and 999 percent between two runs is never announced as exceeded.
- An overage multiplier of 0 counts as the default; an immediate upgrade is undone
  by a pending change that was scheduled before; settle_pending_plan_change has
  only tests as callers.
- With the JSONL token store a token that another process revoked stays valid
  (`README.md:294`), and the next change of such a process writes it back as active. A
  PATCH that deactivates a user in production with token administration disabled
  is persisted and then raises. A group synchronisation adds inactive users again,
  removal from one group drops the membership another group lists, and members of
  a deleted group stay members.
- An item with the id of an append-only row replaces it if it is of another tier or
  its look-up came first (`docs/gap_analysis.md:102`); the retriever ranks older
  items higher.
- `list_runs()` without an organisation builds invalid SQL; a run that waits for
  approval has a row "queued", and a redelivery sets a final row to "queued".
- The memory store: a death between the new column of version 3 and its version
  leaves a database that cannot be opened. PostgreSQL: the script and the runner
  take different advisory locks (`docs/deployment.md:91`), so a rollback beside a
  script leaves a gap that the health check does not see; the store creates
  indexes on the columns of migration 3 before it runs migrations, so a database
  at version 1 or 2 cannot be opened until the script ran; no down files exist, so
  a rollback deletes rows of schema_migrations only.
- Pull requests: the clone stays on the last branch, so the next pull request
  contains the previous patches; `git add -A` takes other runs' changes; a second
  branch of one issue, or one after a failed push, cannot be created. The counter
  is never decremented and misses lost answers, and the API makes a new bot per
  request, so that `max_open_prs` never binds.

## 6. What is left

Not modelled, and why:

- *Run state store* (`runtime/run_state_store.py`): only its tests import it.
- *API application*: route wiring, request models and wrappers; the state they
  touch belongs to the modules above.
- *Repository intelligence*: parsing and indexing of text, sequential, with no
  shared state but a file cache.
- *Telemetry*: counters no decision reads, but the cost total, which is an input
  of `TaskGraph`.
- *Production hardening, health and backup*: start-up checks; its atomic save of
  checkpoints is installed by no entry point.
- *Web dashboard* and *deployment scripts*: clients and operations
  (`postgres_migrate.py` is in `Migrations`).

Partly modelled components and what they leave out are in `PROJECT.json`: prompts
and parsing of agents, parallel groups of the graph (no caller passes them),
permission tables and path patterns, retrieval scores, guest agents and container
flags, and the text of the command line.

Every hazard that `PROJECT.json` lists has a property of some run.

Composition left open: `JobQueue` proves that one worker handles a job at a time
under reliable renewal, and `TaskGraph`, `EvidenceChain`, `UsageMetering` and
`RunRecords` assume it (`RunRecords` with a death in between). `Checkpoints` gives
what `TaskGraph` assumes of its checkpoint, a whole state or none, outside the gap
of section 5; the refinement is not stated.

Next, in order:

1. `JobQueue` and `TaskGraph` composed for one run, with the lease lost while the
   graph runs.
2. The refinement of what `TaskGraph` assumes of its checkpoint by `Checkpoints`.
3. Reference definitions for the conversion of agents' answers into patches.
