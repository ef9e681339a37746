---------------------------- MODULE ModelRouter ----------------------------
(***************************************************************************)
(* Which model an agent is given (ModelRouter).  Models are scored by      *)
(* price, by what was recorded of their calls and by remaining quota;      *)
(* every call is taken to last a second and every context window to        *)
(* suffice.                                                                *)
(*                                                                         *)
(* Nothing but a test calls record_event, set_quota_headroom and           *)
(* set_eligible_models; a model_switch calls set_model at any time.        *)
(***************************************************************************)
EXTENDS Integers, Sequences, FiniteSets, SequencesExt

CONSTANTS
    Models,         \* model names but "auto"
    Price,          \* MODEL_PRICING in micro-dollars a token, or Unlisted
    Eligible,       \* the lists set_eligible_models is given, the first one too
    Defaults,       \* what default_model may be at first
    EventsWindow,   \* EVENTS_WINDOW_SIZE (200)
    ErrorWindow,    \* ERROR_RATE_WINDOW_SECONDS (300)
    MaxTime,        \* bound on the clock
    MaxChanges      \* bound on the operations of the router

Unlisted == -1
Unlimited == -1     \* no headroom was set

VARIABLES
    default, auto,  \* default_model, auto_route
    eligible,       \* _eligible_models
    calls,          \* _events: model, whether it succeeded, when
    clock,
    headroom,       \* _model_quota_headroom
    changes         \* operations of the router so far

router == <<default, auto, eligible, calls, clock, headroom, changes>>

InitOf(model, list) ==
    /\ default = model /\ auto = (model = "auto")
    /\ eligible = IF auto \/ model \in ToSet(list) THEN list ELSE Append(list, model)
    /\ calls = <<>> /\ clock = 0 /\ headroom = [m \in Models |-> Unlimited]
    /\ changes = 0
Init == \E model \in Defaults, list \in Eligible : InitOf(model, list)

----------------------------------------------------------------------------
\* Scores.

CallsOf(m) == {i \in DOMAIN calls : calls[i].model = m}
Recent(m) == {i \in CallsOf(m) : clock - calls[i].at <= ErrorWindow}
Succeeded(events) == {i \in events : calls[i].ok}

\* _is_provider_unhealthy: more than a tenth of the recent calls failed.
Unhealthy(m) == 10 * Cardinality(Recent(m) \ Succeeded(Recent(m))) > Cardinality(Recent(m))

Listed(m) == m # "auto" /\ Price[m] # Unlisted
OutOfQuota(m) == m # "auto" /\ headroom[m] # Unlimited /\ headroom[m] <= 0
Usable(m) == ~Unhealthy(m) /\ ~OutOfQuota(m)

\* The dearest price of the table among the eligible models, an unlisted one
\* counting nothing; or a dollar if that leaves nothing.
MaxPrice ==
    LET Counted == {IF Listed(m) THEN Price[m] ELSE 0 : m \in ToSet(eligible) \cup {default}}
        dearest == CHOOSE p \in Counted : \A q \in Counted : q <= p
    IN  IF dearest = 0 THEN 1000000 ELSE dearest

\* Mutant of Score: neither failures nor the quota count.
ScoreAnyway(m) ==
    LET price == IF Listed(m) THEN Price[m] ELSE 18
    IN  [num |-> 23 * MaxPrice - 10 * price, den |-> MaxPrice]

\* Numerator and denominator of 40 * score_model: 23 for latency, context and
\* what a free model gets for its price, 10 off for the dearest, 14 for a
\* model that never failed.  An unlisted one is taken to cost 18.
Score(m) ==
    LET price == IF Listed(m) THEN Price[m] ELSE 18
        seen == Cardinality(CallsOf(m))
        n == IF seen = 0 THEN 20 ELSE seen
        s == IF seen = 0 THEN 17 ELSE Cardinality(Succeeded(CallsOf(m)))
    IN  IF ~Usable(m) THEN [num |-> 0, den |-> 1]
        ELSE [num |-> 23 * MaxPrice * n - 10 * price * n + 14 * s * MaxPrice, den |-> MaxPrice * n]

Candidates == IF eligible = <<>> THEN <<default>> ELSE eligible

\* rank_models: the first models with a positive score, best score first, in
\* the order of the list among equals: each with as many ahead as its place says.
Ranked(most) ==
    LET points == [i \in DOMAIN Candidates |-> Score(Candidates[i])]
        positive == {i \in DOMAIN points : points[i].num > 0}
        Before(i, j) ==
            LET mine == points[i].num * points[j].den
                other == points[j].num * points[i].den
            IN  mine > other \/ (mine = other /\ i < j)
        Place(i) == Cardinality({j \in positive : Before(j, i)}) + 1
    IN  [k \in {l \in 1 .. most : l <= Cardinality(positive)} |->
            Candidates[CHOOSE i \in positive : Place(i) = k]]

\* select_model, build_fallback_cascade.
Selected == IF Ranked(1) = <<>> THEN default ELSE Ranked(1)[1]
Cascade == IF Ranked(3) = <<>> THEN <<default>> ELSE Ranked(3)

\* resolve_model: node_model_map gives every node the model that was set last.
Resolved == IF auto \/ default = "auto" THEN Selected ELSE default

----------------------------------------------------------------------------
\* Operations of the router.

\* The bound: some operations.
Change == changes < MaxChanges /\ changes' = changes + 1

RecordEvent(m, ok) ==
    /\ Change
    /\ calls' = LET all == Append(calls, [model |-> m, ok |-> ok, at |-> clock])
                IN  IF Len(all) > EventsWindow THEN Tail(all) ELSE all
    /\ UNCHANGED <<default, auto, eligible, clock, headroom>>

Tick ==
    /\ clock < MaxTime /\ clock' = clock + 1
    /\ UNCHANGED <<default, auto, eligible, calls, headroom, changes>>

SetQuotaHeadroom(m, left) ==
    /\ Change
    /\ headroom' = [headroom EXCEPT ![m] = left]
    /\ UNCHANGED <<default, auto, eligible, calls, clock>>

\* set_model, by a model_switch while the run goes on.
SetModel(m) ==
    /\ Change
    /\ default' = m /\ auto' = (m = "auto")
    /\ eligible' = IF m = "auto" \/ m \in ToSet(eligible) THEN eligible ELSE Append(eligible, m)
    /\ UNCHANGED <<calls, clock, headroom>>

SetEligible(list) ==
    /\ Change /\ eligible' = list
    /\ UNCHANGED <<default, auto, calls, clock, headroom>>

RouterNext ==
    \/ \E m \in Models : RecordEvent(m, TRUE) \/ RecordEvent(m, FALSE)
    \/ \E m \in Models : SetQuotaHeadroom(m, 0)
    \/ \E m \in Models \cup {"auto"} : SetModel(m)
    \/ \E list \in Eligible : SetEligible(list)
    \/ Tick

Spec == Init /\ [][RouterNext]_router

----------------------------------------------------------------------------
TypeOK ==
    /\ default \in Models \cup {"auto"} /\ auto \in BOOLEAN /\ eligible \in Seq(Models)
    /\ Len(calls) <= EventsWindow /\ clock \in 0 .. MaxTime
    /\ headroom \in [Models -> {Unlimited, 0, 1}]

\* Under automatic routing a model that fails or has no quota left is chosen
\* only when no listed eligible model is better off: a score is positive for
\* all that are usable, except for an unlisted one beside cheap ones
\* (select_model, build_fallback_cascade).
RoutedToUsable ==
    auto =>
        \/ Usable(Resolved) /\ Cascade[1] = Resolved
        \/ \A m \in ToSet(eligible) : Usable(m) => ~Listed(m)
=============================================================================
