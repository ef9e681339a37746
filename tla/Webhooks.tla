------------------------------ MODULE Webhooks ------------------------------
(***************************************************************************)
(* WebhookEngine: one event dispatched to the subscriptions that match it, *)
(* every delivery a coroutine of its own, retried with a growing delay and *)
(* put into the dead-letter file in the end; replay_dead_letters; the      *)
(* process that dies.  Deliveries are files that nobody reads back when    *)
(* the process starts.  Signing, secrets and payloads are left out.        *)
(***************************************************************************)
EXTENDS Integers

CONSTANTS
    Subs,           \* subscriptions, active and for the event
    Retries,        \* values of max_retries
    MaxFailures,    \* bound on posts that fail
    MaxWriteFaults, \* bound on delivery files that cannot be written
    MaxReplays

VARIABLES
    maxRetries, \* of each subscription
    registered, \* the engine's _subscriptions
    delivery,   \* of each subscription: the delivery of the event in memory
    saved,      \* its file: status and attempt_number
    loops,      \* iterations of the retry loop begun
    letters,    \* the dead-letter file: copies of deliveries
    replaying,  \* letters the replay has still to send
    received,   \* posts the receiver accepted
    failures, writeFaults, replays

webhookVars == <<maxRetries, registered, delivery, saved, loops, letters,
                 replaying, received, failures, writeFaults, replays>>

Stages == {"none", "post", "posted", "sleep", "dead", "done", "raised", "lost"}
Statuses == {"none", "pending", "retrying", "delivered", "failed"}
Record(status, attempts) == [status |-> status, attempts |-> attempts]
Delivery(stage, status, attempts) ==
    [stage |-> stage, status |-> status, attempts |-> attempts]

Init ==
    /\ maxRetries \in [Subs -> Retries] /\ registered \in SUBSET Subs
    /\ delivery = [s \in Subs |-> Delivery("none", "none", 0)]
    /\ saved = [s \in Subs |-> Record("none", 0)]
    /\ loops = [s \in Subs |-> 0]
    /\ letters = {} /\ replaying = {}
    /\ received = [s \in Subs |-> 0]
    /\ failures = 0 /\ writeFaults = 0 /\ replays = 0

----------------------------------------------------------------------------
\* dispatch, up to its gather: a delivery for every matching subscription.
Dispatch ==
    /\ registered # {} /\ \A s \in Subs : delivery[s].stage = "none"
    /\ delivery' = [s \in Subs |-> IF s \in registered THEN Delivery("post", "pending", 0) ELSE delivery[s]]
    /\ saved' = [s \in Subs |-> IF s \in registered THEN Record("pending", 0) ELSE saved[s]]
    /\ UNCHANGED <<maxRetries, registered, loops, letters, replaying, received,
                   failures, writeFaults, replays>>

\* An answer to a post: the receiver accepts it and says so, refuses it, or
\* accepts it and the answer is lost (a timeout).
Answer(s, status) ==
    \/ status = "delivered" /\ received' = [received EXCEPT ![s] = @ + 1] /\ UNCHANGED failures
    \/ /\ status = "failed" /\ failures < MaxFailures /\ failures' = failures + 1
       /\ received' \in {received, [received EXCEPT ![s] = @ + 1]}

\* _deliver_one, up to its save.
Post(s) ==
    /\ delivery[s].stage = "post"
    /\ \E status \in {"delivered", "failed"} :
          /\ Answer(s, status)
          /\ delivery' = [delivery EXCEPT ![s] = Delivery("posted", status, @.attempts + 1)]
    /\ UNCHANGED <<maxRetries, registered, saved, loops, letters, replaying, writeFaults, replays>>

\* Mutant of MoreRetries: the first iteration counts attempts too.
MoreRetriesCounted(s) == loops[s] < maxRetries[s] /\ delivery[s].attempts < maxRetries[s]

\* The loop of _retry_delivery goes on: range(max_retries), left early when
\* attempt_number has reached max_retries.  The first iteration is free.
MoreRetries(s) ==
    /\ loops[s] < maxRetries[s]
    /\ loops[s] = 0 \/ delivery[s].attempts < maxRetries[s]

\* The delivery's file is written; then the loop decides.
Saved(s) ==
    /\ delivery[s].stage = "posted"
    /\ saved' = [saved EXCEPT ![s] = Record(delivery[s].status, delivery[s].attempts)]
    /\ delivery' = [delivery EXCEPT ![s].stage =
          IF delivery[s].status = "delivered" THEN "done"
          ELSE IF MoreRetries(s) THEN "sleep" ELSE "dead"]
    /\ UNCHANGED <<maxRetries, registered, loops, letters, replaying, received, failures,
                   writeFaults, replays>>

\* The file cannot be written: the coroutine raises, gather returns the
\* exception, and dispatch marks the delivery as failed, in memory only.
SaveRaises(s) ==
    /\ delivery[s].stage = "posted"
    /\ writeFaults < MaxWriteFaults /\ writeFaults' = writeFaults + 1
    /\ delivery' = [delivery EXCEPT ![s].stage = "raised", ![s].status = "failed"]
    /\ UNCHANGED <<maxRetries, registered, saved, loops, letters, replaying, received, failures, replays>>

\* Mutant of Backoff: the retries of a removed subscription wait.
BackoffRegistered(s) ==
    /\ delivery[s].stage = "sleep" /\ s \in registered
    /\ delivery' = [delivery EXCEPT ![s].stage = "post"]
    /\ loops' = [loops EXCEPT ![s] = @ + 1]
    /\ UNCHANGED <<maxRetries, registered, saved, letters, replaying, received, failures,
                   writeFaults, replays>>

\* The delay is over; the subscription is the one dispatch saw.
Backoff(s) ==
    /\ delivery[s].stage = "sleep"
    /\ delivery' = [delivery EXCEPT ![s].stage = "post"]
    /\ loops' = [loops EXCEPT ![s] = @ + 1]
    /\ UNCHANGED <<maxRetries, registered, saved, letters, replaying, received, failures,
                   writeFaults, replays>>

AppendDeadLetter(s) ==
    /\ delivery[s].stage = "dead"
    /\ letters' = letters \cup {[sub |-> s, attempts |-> delivery[s].attempts]}
    /\ delivery' = [delivery EXCEPT ![s].stage = "done"]
    /\ UNCHANGED <<maxRetries, registered, saved, loops, replaying, received, failures,
                   writeFaults, replays>>

\* replay_dead_letters reads the file; every letter stays in it.
ReplayDeadLetters ==
    /\ letters # {} /\ replaying = {} /\ replays < MaxReplays /\ replays' = replays + 1
    /\ replaying' = letters
    /\ UNCHANGED <<maxRetries, registered, delivery, saved, loops, letters, received,
                   failures, writeFaults>>

\* One letter: skipped where its subscription is gone, else posted once more
\* with the attempts of the copy, and the file of the delivery rewritten.
ReplayOne(letter) ==
    /\ letter \in replaying /\ replaying' = replaying \ {letter}
    /\ IF letter.sub \notin registered
       THEN UNCHANGED <<saved, received, failures>>
       ELSE \E status \in {"delivered", "failed"} :
              /\ Answer(letter.sub, status)
              /\ saved' = [saved EXCEPT ![letter.sub] = Record(status, letter.attempts + 1)]
    /\ UNCHANGED <<maxRetries, registered, delivery, loops, letters, writeFaults, replays>>

Unregister(s) ==
    /\ s \in registered /\ registered' = registered \ {s}
    /\ UNCHANGED <<maxRetries, delivery, saved, loops, letters, replaying, received,
                   failures, writeFaults, replays>>

\* The process dies: what was under way is never taken up again.
Die ==
    /\ \E s \in Subs : delivery[s].stage \notin {"none", "done", "raised", "lost"}
    /\ delivery' = [s \in Subs |-> IF delivery[s].stage \in {"none", "done", "raised", "lost"}
                                   THEN delivery[s] ELSE [delivery[s] EXCEPT !.stage = "lost"]]
    /\ replaying' = {}
    /\ UNCHANGED <<maxRetries, registered, saved, loops, letters, received, failures,
                   writeFaults, replays>>

Work(s) == Post(s) \/ Saved(s) \/ Backoff(s) \/ AppendDeadLetter(s)

Next ==
    \/ Dispatch \/ ReplayDeadLetters \/ Die
    \/ \E s \in Subs : Work(s) \/ SaveRaises(s) \/ Unregister(s)
    \/ \E letter \in replaying : ReplayOne(letter)

\* asyncio wakes every coroutine, and a post ends by its timeout.
Fairness == \A s \in Subs : WF_webhookVars(Work(s))
Spec == Init /\ [][Next]_webhookVars /\ Fairness

----------------------------------------------------------------------------
TypeOK ==
    /\ maxRetries \in [Subs -> Retries] /\ registered \subseteq Subs
    /\ \A s \in Subs :
          /\ delivery[s].stage \in Stages /\ delivery[s].status \in Statuses
          /\ saved[s].status \in Statuses /\ received[s] \in Nat
          /\ loops[s] \in 0 .. maxRetries[s]
    /\ replaying \subseteq letters

\* Posts of a delivery before it is given up: max_retries, but never less
\* than two where there is a retry at all.
Attempts(s) == CASE maxRetries[s] = 0 -> 1 [] maxRetries[s] = 1 -> 2 [] OTHER -> maxRetries[s]

\* A delivery that is finished in the process that dispatched it reached its
\* receiver or is a dead letter after the full number of posts, whatever was
\* unregistered or replayed meanwhile, and a file that says "delivered" is
\* never wrong (dispatch, _retry_delivery).
Settled ==
    \A s \in Subs :
        /\ delivery[s].stage = "done" =>
              \/ delivery[s].status = "delivered" /\ received[s] > 0
              \/ [sub |-> s, attempts |-> Attempts(s)] \in letters
        /\ saved[s].status = "delivered" => received[s] > 0
        /\ \A letter \in letters : letter.attempts = Attempts(letter.sub)

\* Every delivery that was dispatched is settled, unless the process dies or
\* its file cannot be written.
DeliveriesSettle ==
    \A s \in Subs : delivery[s].stage = "post" ~> delivery[s].stage \in {"done", "raised", "lost"}
=============================================================================
