----------------------------- MODULE RunEvents -----------------------------
(***************************************************************************)
(* The events of one run and the streams that show them.  The process that *)
(* executes the run appends every event to run_entry["events"], puts it on *)
(* the queue of every local stream and starts a task of its own that       *)
(* stores it in a Redis list and publishes it.  A stream opened where the  *)
(* run is not in ACTIVE_RUNS (another replica, or the entry was pruned)    *)
(* lists what is stored and then subscribes.                               *)
(*                                                                         *)
(* Mode "async" and "sync" are the two forms of create_run; "queued" is    *)
(* the production route, where a worker executes the run, no API process   *)
(* has its entry and nobody calls register_run.                            *)
(***************************************************************************)
EXTENDS Integers, Sequences, SequencesExt

CONSTANTS
    Modes,      \* how the run may be executed
    Streams,    \* requests for the stream of the run
    MaxEvents,  \* bound on the events of the run
    Keep,       \* events that record_event keeps in the list (1000)
    MaxFaults   \* bound on failing Redis calls

VARIABLES
    mode,
    registered, \* the hash of the run names its organisation
    listed,     \* the run is in ACTIVE_RUNS
    running,    \* the graph is being executed
    events,     \* what the execution broadcast, in order
    recording,  \* events whose record_event task has not run
    log,        \* what was pushed and published, in order
    queues,     \* streams that have a queue in run_entry["queues"]
    queue,      \* of each stream: its queue, or its pubsub connection
    stream,     \* of each stream: stage, kind, replay left, events sent
    listedAt, subscribedAt,     \* of each stream: Len(log) at LRANGE, SUBSCRIBE
    faults

run == <<mode, registered, running>>
sent == <<queues, queue, stream, listedAt, subscribedAt>>
vars == <<run, listed, events, recording, log, sent, faults>>

Event(n, final) == [n |-> n, final |-> final]
Events == [n : 1 .. MaxEvents, final : BOOLEAN]

Init ==
    /\ mode \in Modes
    /\ registered = FALSE /\ listed = (mode # "queued") /\ running = TRUE
    /\ events = <<>> /\ recording = {} /\ log = <<>>
    /\ queues = {} /\ queue = [s \in Streams |-> <<>>]
    /\ stream = [s \in Streams |-> [pc |-> "new", local |-> FALSE, replay |-> <<>>, got |-> <<>>]]
    /\ listedAt = [s \in Streams |-> 0] /\ subscribedAt = [s \in Streams |-> 0]
    /\ faults = 0

----------------------------------------------------------------------------
\* coordinator.register_run, before the graph exists.
Register ==
    /\ mode # "queued" /\ ~registered /\ registered' = TRUE
    /\ UNCHANGED <<mode, running, listed, events, recording, log, sent, faults>>

Started == registered \/ mode = "queued"
Final(shown) == \E i \in 1 .. Len(shown) : shown[i].final

\* Mutant of Broadcast: a stream's queue gets events from its live stage on.
BroadcastLive(e) ==
    /\ events' = Append(events, e)
    /\ queue' = [s \in Streams |->
          IF s \in queues /\ stream[s].pc = "live" THEN Append(queue[s], e) ELSE queue[s]]
    /\ recording' = recording \cup {e}
    /\ UNCHANGED <<listed, log, queues, stream, listedAt, subscribedAt, faults>>

\* broadcast_event; a worker's events have no queues to go to.
Broadcast(e) ==
    /\ events' = Append(events, e)
    /\ queue' = [s \in Streams |-> IF s \in queues THEN Append(queue[s], e) ELSE queue[s]]
    /\ recording' = recording \cup {e}
    /\ UNCHANGED <<listed, log, queues, stream, listedAt, subscribedAt, faults>>

Step ==
    /\ Started /\ running
    /\ Len(events) < IF Final(events) THEN MaxEvents ELSE MaxEvents - 1
    /\ Broadcast(Event(Len(events) + 1, FALSE))
    /\ UNCHANGED run

\* The graph returns.  Only the synchronous form and the worker say so in an
\* event, and once; an asynchronous run ends without a status_change, and so
\* does what approve_patch started.
Finish ==
    /\ Started /\ running /\ running' = FALSE
    /\ IF mode = "async" \/ Final(events)
       THEN UNCHANGED <<listed, events, recording, log, sent, faults>>
       ELSE Broadcast(Event(Len(events) + 1, TRUE))
    /\ UNCHANGED <<mode, registered>>

\* approve_patch of control_run, when no task walks the graph: it walks again
\* from the verifier, behind the final event of a synchronous run too.
Approve ==
    /\ Started /\ listed /\ ~running /\ running' = TRUE
    /\ UNCHANGED <<mode, registered, listed, events, recording, log, sent, faults>>

\* The MULTI of record_event: push, trim and publish.
Record(e) ==
    /\ e \in recording /\ recording' = recording \ {e}
    /\ log' = Append(log, e)
    /\ queue' = [s \in Streams |->
          IF stream[s].pc = "live" /\ ~stream[s].local THEN Append(queue[s], e) ELSE queue[s]]
    /\ UNCHANGED <<run, listed, events, queues, stream, listedAt, subscribedAt, faults>>

\* The task fails, and nobody awaits it.
RecordFails(e) ==
    /\ e \in recording /\ recording' = recording \ {e}
    /\ faults < MaxFaults /\ faults' = faults + 1
    /\ UNCHANGED <<run, listed, events, log, sent>>

\* prune_active_runs, called when another run is created: by age or number,
\* whether the run is finished or not.
Prune ==
    /\ listed /\ listed' = FALSE
    /\ UNCHANGED <<run, events, recording, log, sent, faults>>

----------------------------------------------------------------------------
At(s, stage) == stream[s].pc = stage
Stored == SubSeq(log, IF Len(log) > Keep THEN Len(log) - Keep + 1 ELSE 1, Len(log))

\* event_generator: the queue is registered and the list copied in one step.
OpenLocal(s) ==
    /\ At(s, "new") /\ listed /\ Started
    /\ queues' = queues \cup {s}
    /\ stream' = [stream EXCEPT ![s].pc = "replay", ![s].local = TRUE, ![s].replay = events]
    /\ UNCHANGED <<run, listed, events, recording, log, queue, listedAt, subscribedAt, faults>>

\* get_run: without an organisation in the hash the answer is 404.  Another
\* replica does not have the run in its ACTIVE_RUNS.
OpenRemote(s) ==
    /\ At(s, "new") /\ Started
    /\ stream' = [stream EXCEPT ![s].pc = IF registered THEN "list" ELSE "refused"]
    /\ UNCHANGED <<run, listed, events, recording, log, queues, queue, listedAt, subscribedAt, faults>>

\* list_events.
List(s) ==
    /\ At(s, "list")
    /\ stream' = [stream EXCEPT ![s].pc = "replay", ![s].replay = Stored]
    /\ listedAt' = [listedAt EXCEPT ![s] = Len(log)]
    /\ UNCHANGED <<run, listed, events, recording, log, queues, queue, subscribedAt, faults>>

\* One event of the history is sent.  A local stream returns at the final
\* event, and its queue stays registered; a remote one sends the whole list.
Replay(s) ==
    LET e == Head(stream[s].replay) IN
    /\ At(s, "replay") /\ stream[s].replay # <<>>
    /\ stream' = [stream EXCEPT ![s].got = Append(@, e), ![s].replay = Tail(@),
          ![s].pc = IF e.final /\ stream[s].local THEN "done" ELSE "replay"]
    /\ UNCHANGED <<run, listed, events, recording, log, queues, queue, listedAt, subscribedAt, faults>>

\* The history is sent: a local stream turns to its queue.
Follow(s) ==
    /\ At(s, "replay") /\ stream[s].replay = <<>> /\ stream[s].local
    /\ stream' = [stream EXCEPT ![s].pc = "live"]
    /\ UNCHANGED <<run, listed, events, recording, log, queues, queue, listedAt, subscribedAt, faults>>

\* Mutant of Subscribe: the final event of the history is not looked at.
SubscribeAlways(s) ==
    /\ At(s, "replay") /\ stream[s].replay = <<>> /\ ~stream[s].local
    /\ stream' = [stream EXCEPT ![s].pc = "live"]
    /\ subscribedAt' = [subscribedAt EXCEPT ![s] = Len(log)]
    /\ UNCHANGED <<run, listed, events, recording, log, queues, queue, listedAt, faults>>

\* A remote stream is over if its history had the final event (terminal_seen),
\* or subscribes to what is published from now on.
Subscribe(s) ==
    /\ At(s, "replay") /\ stream[s].replay = <<>> /\ ~stream[s].local
    /\ IF Final(stream[s].got)
       THEN stream' = [stream EXCEPT ![s].pc = "done"] /\ UNCHANGED subscribedAt
       ELSE /\ stream' = [stream EXCEPT ![s].pc = "live"]
            /\ subscribedAt' = [subscribedAt EXCEPT ![s] = Len(log)]
    /\ UNCHANGED <<run, listed, events, recording, log, queues, queue, listedAt, faults>>

\* An event is taken from the queue or the connection and sent; the final one
\* ends the stream and its registration.
Deliver(s) ==
    LET e == Head(queue[s]) IN
    /\ At(s, "live") /\ queue[s] # <<>>
    /\ queue' = [queue EXCEPT ![s] = Tail(@)]
    /\ stream' = [stream EXCEPT ![s].got = Append(@, e), ![s].pc = IF e.final THEN "done" ELSE "live"]
    /\ queues' = IF e.final THEN queues \ {s} ELSE queues
    /\ UNCHANGED <<run, listed, events, recording, log, listedAt, subscribedAt, faults>>

\* The client goes away; the finally clause covers the live stage only.
Disconnect(s) ==
    /\ stream[s].pc \in {"list", "replay", "live"}
    /\ stream' = [stream EXCEPT ![s].pc = "closed"]
    /\ queues' = IF At(s, "live") THEN queues \ {s} ELSE queues
    /\ UNCHANGED <<run, listed, events, recording, log, queue, listedAt, subscribedAt, faults>>

Serve(s) == List(s) \/ Replay(s) \/ Follow(s) \/ Subscribe(s) \/ Deliver(s)

Next ==
    \/ Register \/ Step \/ Finish \/ Approve \/ Prune
    \/ \E e \in recording : Record(e) \/ RecordFails(e)
    \/ \E s \in Streams : OpenLocal(s) \/ OpenRemote(s) \/ Serve(s) \/ Disconnect(s)

Spec == Init /\ [][Next]_vars

\* The graph returns (module TaskGraph), asyncio runs every task, and a client
\* that stays reads its stream.
Fairness ==
    /\ WF_vars(Register) /\ WF_vars(Finish)
    /\ \A e \in Events : WF_vars(Record(e))
    /\ \A s \in Streams : WF_vars(Serve(s))

----------------------------------------------------------------------------
TypeOK ==
    /\ mode \in Modes /\ {registered, listed, running} \subseteq BOOLEAN
    /\ events \in Seq(Events) /\ Len(events) <= MaxEvents
    /\ recording \subseteq Events /\ log \in Seq(Events)
    /\ queues \subseteq Streams
    /\ \A s \in Streams :
          /\ stream[s].pc \in {"new", "list", "replay", "live", "done", "closed", "refused"}
          /\ {stream[s].replay, stream[s].got, queue[s]} \subseteq Seq(Events)
          /\ s \in queues => stream[s].local
          /\ subscribedAt[s] # 0 => listedAt[s] <= subscribedAt[s]
    /\ faults \in 0 .. MaxFaults

\* A stream of the process that executes the run shows every event once and
\* in order, whenever it was opened, and ends with the first final one:
\* history and queue meet without a gap, though events are broadcast between
\* any two events of the history (event_generator of stream_run_events).
LocalExact ==
    \A s \in Streams : stream[s].local =>
        /\ stream[s].pc \in {"replay", "live"} =>
              stream[s].got \o stream[s].replay \o queue[s] = events
        /\ stream[s].pc = "done" =>
              /\ stream[s].got = SubSeq(events, 1, Len(stream[s].got))
              /\ Final(stream[s].got) /\ ~Final(Front(stream[s].got))

\* What a remote stream misses of the stored events was stored between its
\* LRANGE and its SUBSCRIBE, or had been trimmed; nothing is shown twice and
\* nothing in another order than it was stored (remote_event_generator).
RemoteGap ==
    \A s \in Streams : stream[s].pc = "live" /\ ~stream[s].local =>
        stream[s].got \o queue[s] =
            SubSeq(log, IF listedAt[s] > Keep THEN listedAt[s] - Keep + 1 ELSE 1, listedAt[s])
              \o SubSeq(log, subscribedAt[s] + 1, Len(log))

\* Local streams are exact, and remote ones lack what their gap explains.
StreamsFaithful == LocalExact /\ RemoteGap

\* A stream ends when the run says it is finished: a local one always, a
\* remote one if its history shows the final event or it subscribed before
\* that was stored, and the event was not lost on the way to Redis.  True of
\* the runs that emit a final event.
FinalLost == Final(events) /\ ~Final(log) /\ \A e \in recording : ~e.final
Ended(s) == stream[s].pc \in {"done", "closed"}
WillSeeFinal(s) ==
    \/ stream[s].local /\ stream[s].pc \in {"replay", "live"}
    \/ ~stream[s].local /\ Final(stream[s].got \o stream[s].replay)
    \/ ~stream[s].local /\ stream[s].pc = "live" /\ ~Final(log)
StreamsEnd ==
    \A s \in Streams : mode = "sync" /\ WillSeeFinal(s) ~> Ended(s) \/ FinalLost

=============================================================================
