--------------------------- MODULE RemoteControl ---------------------------
(***************************************************************************)
(* Control of one run from an API process that does not execute it: the    *)
(* hash loom:run:<id>, which names the run's organisation, and the list    *)
(* loom:run:<id>:control, on which control_run pushes a command and from   *)
(* which the loop of a graph pops it.  The mode says who is at both ends:  *)
(*   "queued"    a worker executes the run.  Its loop listens, but nobody  *)
(*               writes the organisation: every request is answered 404.   *)
(*   "replicas"  an API process executes it and has registered it.  No     *)
(*               loop listens there: what another one accepts stays in the *)
(*               list.                                                     *)
(*   "wrapped"   an API process executes it under install_production_      *)
(*               runtime, as its tests do: registered, with a loop that    *)
(*               outlives the graph.                                       *)
(***************************************************************************)
EXTENDS Naturals, Sequences, SequencesExt

CONSTANTS
    Modes,
    Actions,        \* actions of a ControlRequest
    MaxCommands     \* bound on the requests

VARIABLES
    mode,
    hash,           \* fields of the hash: whether org_id is there, status
    registering,    \* the task of wrapped_init that calls register_run
    graph,          \* stage of run(), and its flags
    loop,           \* the control loop: off, waiting, or with a popped command
    held,           \* that command, or <<>>
    commands,       \* the list
    accepted,       \* commands answered "accepted", in order
    applied,        \* commands the loop handled, in order
    direct          \* requests served where the run is

vars == <<mode, hash, registering, graph, loop, held, commands, accepted, applied, direct>>

Init ==
    /\ mode \in Modes
    /\ hash = [org |-> FALSE, status |-> "none"] /\ registering = FALSE
    /\ graph = [stage |-> "new", paused |-> FALSE, stepMode |-> FALSE, cancelled |-> FALSE]
    /\ loop = "off" /\ held = <<>>
    /\ commands = <<>> /\ accepted = <<>> /\ applied = <<>> /\ direct = 0

At(stage) == graph.stage = stage
Home == mode # "queued" /\ ~At("new") /\ ~At("dead")    \* the run is in ACTIVE_RUNS

----------------------------------------------------------------------------
\* create_run awaits register_run; the graph is built and starts to run, and
\* wrapped_init leaves two tasks behind.
Create ==
    /\ mode # "queued" /\ At("new")
    /\ hash' = [org |-> TRUE, status |-> "running"]
    /\ graph' = [graph EXCEPT !.stage = "running"]
    /\ IF mode = "wrapped"
       THEN registering' = TRUE /\ loop' = "waiting"
       ELSE UNCHANGED <<registering, loop>>
    /\ UNCHANGED <<mode, held, commands, accepted, applied, direct>>

\* execute_run_job: the loop is started, then the status is written.
Claim ==
    /\ mode = "queued" /\ At("new")
    /\ graph' = [graph EXCEPT !.stage = "running"] /\ loop' = "waiting"
    /\ hash' = [hash EXCEPT !.status = "running"]
    /\ UNCHANGED <<mode, registering, held, commands, accepted, applied, direct>>

\* The detached register() runs at last, whatever the run has come to.
Register ==
    /\ registering /\ registering' = FALSE
    /\ hash' = [org |-> TRUE, status |-> "queued"]
    /\ UNCHANGED <<mode, graph, loop, held, commands, accepted, applied, direct>>

\* Mutant of Heed: a cancel does not wake a graph that is paused.
HeedPaused(g, action) ==
    CASE action = "pause" -> [g EXCEPT !.paused = TRUE]
      [] action = "resume" -> [g EXCEPT !.paused = FALSE]
      [] action = "step" -> [g EXCEPT !.paused = FALSE, !.stepMode = TRUE]
      [] action = "cancel" -> [g EXCEPT !.cancelled = ~g.paused]
      [] OTHER -> g

\* pause, resume, step_over and cancel of the graph; a model_switch changes
\* its router, and rollback and approve_patch are not known to the loops.
Heed(g, action) ==
    CASE action = "pause" -> [g EXCEPT !.paused = TRUE]
      [] action = "resume" -> [g EXCEPT !.paused = FALSE]
      [] action = "step" -> [g EXCEPT !.paused = FALSE, !.stepMode = TRUE]
      [] action = "cancel" -> [g EXCEPT !.cancelled = TRUE, !.paused = FALSE]
      [] OTHER -> g

\* control_run in the process of the run.  A rollback and an approval do
\* more, see module TaskGraph.
ControlLocal(action) ==
    /\ Home /\ direct < MaxCommands /\ direct' = direct + 1
    /\ graph' = Heed(graph, action)
    /\ UNCHANGED <<mode, hash, registering, loop, held, commands, accepted, applied>>

\* Mutant of ControlRemote: a command is pushed on the end that is popped.
ControlRemoteFront(action) ==
    /\ hash.org /\ Len(accepted) < MaxCommands
    /\ commands' = <<action>> \o commands /\ accepted' = Append(accepted, action)
    /\ UNCHANGED <<mode, hash, registering, graph, loop, held, applied, direct>>

\* control_run, or wrapped_control, in another process: without the right
\* organisation in the hash the answer is 404; any action is accepted, and of
\* a run that is over too.
ControlRemote(action) ==
    /\ hash.org /\ Len(accepted) < MaxCommands
    /\ commands' = Append(commands, action) /\ accepted' = Append(accepted, action)
    /\ UNCHANGED <<mode, hash, registering, graph, loop, held, applied, direct>>

\* BLPOP answers: from here on the command is in this process alone.
Pop ==
    /\ loop = "waiting" /\ commands # <<>>
    /\ held' = <<commands[1]>> /\ commands' = Tail(commands) /\ loop' = "popped"
    /\ UNCHANGED <<mode, hash, registering, graph, accepted, applied, direct>>

\* The body of the control loop.
Handle ==
    /\ loop = "popped"
    /\ graph' = Heed(graph, held[1]) /\ applied' = Append(applied, held[1])
    /\ held' = <<>> /\ loop' = "waiting"
    /\ UNCHANGED <<mode, hash, registering, commands, accepted, direct>>

\* run() passes node boundaries until it ends, by itself or cancelled; a
\* paused one waits.  The worker stops its loop in the finally clause, with
\* what it holds; the loop of wrapped_init is never stopped.
Boundary ==
    /\ At("running") /\ graph.stepMode /\ ~graph.paused
    /\ graph' = [graph EXCEPT !.paused = TRUE, !.stepMode = FALSE]
    /\ UNCHANGED <<mode, hash, registering, loop, held, commands, accepted, applied, direct>>
Finish ==
    /\ At("running") /\ (graph.cancelled \/ ~graph.paused)
    /\ graph' = [graph EXCEPT !.stage = "over"]
    /\ hash' = IF mode = "replicas" THEN hash
               ELSE [hash EXCEPT !.status = IF graph.cancelled THEN "cancelled" ELSE "finished"]
    /\ IF mode = "queued" THEN loop' = "off" /\ held' = <<>> ELSE UNCHANGED <<loop, held>>
    /\ UNCHANGED <<mode, registering, commands, accepted, applied, direct>>

\* budgeted_execute_node or a callback raises out of run(): wrapped_run writes
\* no status, the worker writes "failed".
Raise ==
    /\ At("running") /\ mode # "replicas" /\ ~graph.paused
    /\ graph' = [graph EXCEPT !.stage = "over"]
    /\ hash' = IF mode = "queued" THEN [hash EXCEPT !.status = "failed"] ELSE hash
    /\ IF mode = "queued" THEN loop' = "off" /\ held' = <<>> ELSE UNCHANGED <<loop, held>>
    /\ UNCHANGED <<mode, registering, commands, accepted, applied, direct>>

\* The process of the run dies.
Die ==
    /\ ~At("new") /\ ~At("dead")
    /\ graph' = [graph EXCEPT !.stage = "dead"]
    /\ loop' = "off" /\ held' = <<>> /\ registering' = FALSE
    /\ UNCHANGED <<mode, hash, commands, accepted, applied, direct>>

Loop == Pop \/ Handle
Run == Boundary \/ Finish
Next ==
    \/ Create \/ Claim \/ Register \/ Pop \/ Handle \/ Boundary \/ Finish \/ Raise \/ Die
    \/ \E action \in Actions : ControlLocal(action) \/ ControlRemote(action)

Spec == Init /\ [][Next]_vars

\* asyncio runs the loop, and the nodes of a graph come to an end.
Fairness == WF_vars(Loop) /\ WF_vars(Run)

----------------------------------------------------------------------------
TypeOK ==
    /\ mode \in Modes /\ hash.org \in BOOLEAN /\ registering \in BOOLEAN
    /\ graph.stage \in {"new", "running", "over", "dead"}
    /\ loop \in {"off", "waiting", "popped"} /\ Len(held) = (IF loop = "popped" THEN 1 ELSE 0)
    /\ {commands, accepted, applied} \subseteq Seq(Actions)

\* A remote command is accepted of a registered run alone, and reaches the
\* graph only under the wrapper: there in the order of acceptance, none lost
\* or repeated while the process lives.  A worker's run cannot be controlled,
\* and what is accepted for a replica's run is never read (publish_control,
\* control_stream).
InOrder ==
    /\ (mode = "queued" => accepted = <<>>)
    /\ (mode = "replicas" => commands = accepted)
    /\ (mode = "wrapped" /\ ~At("dead")) => applied \o held \o commands = accepted

\* Under the wrapper, a run whose cancellation was accepted ends.
RemoteReaches ==
    (mode = "wrapped" /\ Contains(accepted, "cancel")) ~> (At("over") \/ At("dead"))
=============================================================================
