---------------------------- MODULE ApiProcess ------------------------------
(***************************************************************************)
(* What an API process answers for, with fairness: requests to create a    *)
(* run (UsageMetering), and an instance of each of the modules RunEvents   *)
(* (what streams show of it), RemoteControl (commands that reach it) and   *)
(* Webhooks (what receivers are told of it).  They share no state and are  *)
(* put one beside the other instead of in all combinations: `part' names   *)
(* the one that moves, and the others stay in one of their initial states. *)
(***************************************************************************)
EXTENDS UsageMetering, Integers

VARIABLE part

CONSTANTS EventModes, Streams, MaxEvents, Keep, MaxEventFaults
ASSUME KeepAssumption == Keep \in Nat
VARIABLES mode, registered, listed, running, events, recording, log, queues, queue, stream,
          listedAt, subscribedAt, eventFaults
streaming == <<mode, registered, listed, running, events, recording, log, queues, queue, stream,
               listedAt, subscribedAt, eventFaults>>
E == INSTANCE RunEvents WITH
        Modes <- EventModes, MaxFaults <- MaxEventFaults, faults <- eventFaults

CONSTANTS Places, Actions, MaxCommands
VARIABLES place, hash, registering, graph, loop, held, commands, accepted, applied, direct
control == <<place, hash, registering, graph, loop, held, commands, accepted, applied, direct>>
C == INSTANCE RemoteControl WITH Modes <- Places, mode <- place

CONSTANTS Subs, Retries, MaxFailures, MaxWriteFaults, MaxReplays
ASSUME HooksAssumption == Retries \subseteq Nat
VARIABLES maxRetries, subscribed, delivery, saved, loops, letters, replaying, received,
          failures, writeFaults, replays
hooks == <<maxRetries, subscribed, delivery, saved, loops, letters, replaying, received,
           failures, writeFaults, replays>>
W == INSTANCE Webhooks WITH registered <- subscribed

Admitting == part = "admitting"
Streaming == part = "streaming"
Controlling == part = "control"
Hooks == part = "hooks"

ApiInit ==
    /\ part \in {"admitting", "streaming", "control", "hooks"}
    /\ Init /\ E!Init /\ C!Init /\ W!Init
    /\ ~Streaming => mode = CHOOSE m \in EventModes : TRUE
    /\ ~Controlling => place = CHOOSE p \in Places : TRUE
    /\ ~Hooks => subscribed = {} /\ \A s \in Subs : maxRetries[s] = CHOOSE n \in Retries : TRUE

AdmittingStep == Admitting /\ Next /\ UNCHANGED <<part, streaming, control, hooks>>
StreamingStep == Streaming /\ E!Next /\ UNCHANGED <<part, vars, control, hooks>>
ControlStep == Controlling /\ C!Next /\ UNCHANGED <<part, vars, streaming, hooks>>
HooksStep == Hooks /\ W!Next /\ UNCHANGED <<part, vars, streaming, control>>
ApiNext == AdmittingStep \/ StreamingStep \/ ControlStep \/ HooksStep

\* The Fairness of each module, for the part that moves.
ApiFairness ==
    /\ \A q \in Requests : WF_vars(Admitting /\ Serve(q) /\ request[q].pc # "new")
    /\ \A r \in Runs : WF_vars(Admitting /\ AppendRow(r))
    /\ WF_streaming(Streaming /\ E!Register) /\ WF_streaming(Streaming /\ E!Finish)
    /\ \A e \in E!Events : WF_streaming(Streaming /\ E!Record(e))
    /\ \A s \in Streams : WF_streaming(Streaming /\ E!Serve(s))
    /\ WF_control(Controlling /\ C!Loop) /\ WF_control(Controlling /\ C!Run)
    /\ \A s \in Subs : WF_hooks(Hooks /\ W!Work(s))

ApiSpec == ApiInit /\ [][ApiNext]_<<part, vars, streaming, control, hooks>> /\ ApiFairness

----------------------------------------------------------------------------
\* The properties of the instances, stated with their modules.

\* A local stream shows every event once and in order, and what a remote one
\* lacks was trimmed or fell into its gap (RunEvents).
StreamsFaithful == E!StreamsFaithful
\* Streams end with the run that says it is finished (RunEvents).
StreamsEnd == E!StreamsEnd
\* Remote commands are applied in the order of their acceptance, where they
\* are applied at all (RemoteControl).
CommandsInOrder == C!InOrder
\* An accepted cancellation ends the run (RemoteControl).
RemoteReaches == C!RemoteReaches
\* A run that ends is seen to end, and a cancellation ends it (RunEvents,
\* RemoteControl).
EndsAreHeard == StreamsEnd /\ RemoteReaches
\* A finished delivery was received or is a dead letter, and its file is not
\* wrong (Webhooks).
DeliveriesAccounted == W!Settled
\* What viewers, runs and receivers are given is what was said: no event,
\* command or delivery is lost, repeated or put in another order but where the
\* gaps of each module say so (RunEvents, RemoteControl, Webhooks).
ApiFaithful == StreamsFaithful /\ CommandsInOrder /\ DeliveriesAccounted
\* Every dispatched delivery ends (Webhooks).
DeliveriesSettle == W!DeliveriesSettle
=============================================================================
