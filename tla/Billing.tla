------------------------------- MODULE Billing -------------------------------
(***************************************************************************)
(* The plan of one organisation as the provider's events change it, and    *)
(* the invoice of the month computed from its ledger entries.  Stripe may  *)
(* deliver an event late, twice or in another order; the handler applies   *)
(* what it is given and remembers no event.                                *)
(*                                                                         *)
(* Quantities are scaled: a run credit covers TokensPerCredit tokens and   *)
(* SecondsPerCredit seconds, and money is counted in run prices.           *)
(***************************************************************************)
EXTENDS Integers, Sequences, FiniteSets, FiniteSetsExt

CONSTANTS
    Runs, Steps,
    Included,           \* of each tier: TIER_QUOTA_MAP[tier].runs_per_month
    TokensPerCredit,    \* RUN_CREDIT_MAX_TOKENS
    SecondsPerCredit,   \* RUN_CREDIT_MAX_SANDBOX_SECONDS
    MaxRetries,         \* RUN_CREDIT_MAX_RETRIES_PER_STEP
    CapMultiplier,      \* overage_run_cap_multiplier of the organisation
    DefaultMultiplier,  \* DEFAULT_OVERAGE_RUN_CAP_MULTIPLIER
    MultiplierParts,    \* multipliers are counted in parts of one
    Usage,              \* what one ledger entry may say
    MaxEntries, MaxEvents, MaxDay

Tiers == DOMAIN Included
NoTier == "none"
Never == -1

VARIABLES
    org,        \* tier, billing status, last failure, pending change
    entries,    \* ledger entries of the organisation
    day,
    events      \* deliveries so far

billingVars == <<org, entries, day, events>>

Init ==
    /\ org \in [tier : Tiers, status : {"unconfigured"}, failedAt : {Never},
                pending : {NoTier}, effective : {Never}]
    /\ entries = <<>> /\ day = 0 /\ events = 0

----------------------------------------------------------------------------
\* What parse_event makes of a notification.  A scheduled change is one with
\* cancel_at_period_end; a change may name no tier.
BillingEvents ==
    [type : {"paid", "failed"}, at : 0 .. MaxDay] \cup [type : {"deleted"}]
      \cup [type : {"updated"}, tier : Tiers \cup {NoTier}, effective : {Never} \cup 0 .. MaxDay]

\* apply_billing_event; the customer's ids are left out.
Apply(e) ==
    CASE e.type = "paid" -> [org EXCEPT !.status = "active", !.failedAt = Never]
      [] e.type = "failed" -> [org EXCEPT !.status = "grace", !.failedAt = e.at]
      [] e.type = "deleted" -> [org EXCEPT !.status = "canceled"]
      [] e.type = "updated" /\ e.tier = NoTier -> org
      [] e.type = "updated" /\ e.tier # NoTier /\ e.effective # Never ->
            [org EXCEPT !.pending = e.tier, !.effective = e.effective]
      [] OTHER -> [org EXCEPT !.tier = e.tier]

\* stripe_webhook: events that happened up to now, in any order, any number
\* of times.
StripeWebhook(e) ==
    /\ events < MaxEvents /\ events' = events + 1
    /\ e.type \in {"paid", "failed"} => e.at <= day
    /\ org' = Apply(e)
    /\ UNCHANGED <<entries, day>>

\* settle_pending_plan_change, for a change that is due; the repository has the
\* function, its test, and as yet no caller.
SettlePendingPlanChange ==
    /\ org.pending # NoTier /\ day >= org.effective
    /\ org' = [org EXCEPT !.tier = org.pending, !.pending = NoTier, !.effective = Never]
    /\ UNCHANGED <<entries, day, events>>

\* The usage ledger gets an entry (module UsageMetering).
Record(run, step, use) ==
    /\ Len(entries) < MaxEntries
    /\ entries' = Append(entries, [run |-> run, step |-> step, attempt |-> use.attempt,
                                   tokens |-> use.tokens, seconds |-> use.seconds])
    /\ UNCHANGED <<org, day, events>>

Tick == day < MaxDay /\ day' = day + 1 /\ UNCHANGED <<org, entries, events>>

Next ==
    \/ \E e \in BillingEvents : StripeWebhook(e)
    \/ \E run \in Runs, step \in Steps, use \in Usage : Record(run, step, use)
    \/ SettlePendingPlanChange \/ Tick

Spec == Init /\ [][Next]_billingVars

----------------------------------------------------------------------------
(* billing.py: credits and the invoice.                                    *)
Total(field(_), of) == MapThenSumSet(LAMBDA i : field(entries[i]), of)
RunTokens(e) == e.tokens
Seconds(e) == e.seconds
EntriesOf(run) == {i \in DOMAIN entries : entries[i].run = run}

\* The highest attempt of a step counts.
RetriesExceeded(run) == \E i \in EntriesOf(run) : entries[i].attempt > 1 + MaxRetries

\* Mutant of Blocks: nothing is charged up to the next whole block.
BlocksReset(used, size) == IF used > size THEN used % size ELSE 0

\* Above the envelope every whole block is charged, the included one again.
Blocks(used, size) == IF used > size THEN used \div size ELSE 0

CreditsForRun(run) ==
    1 + (IF RetriesExceeded(run) THEN 1 ELSE 0)
      + Blocks(Total(RunTokens, EntriesOf(run)), TokensPerCredit)
      + Blocks(Total(Seconds, EntriesOf(run)), SecondsPerCredit)

ConsumedCredits == MapThenSumSet(CreditsForRun, {entries[i].run : i \in DOMAIN entries})

\* A multiplier of zero counts as not set; a part of a run is cut off.
OverageRunCap(tier) ==
    (Included[tier] * (IF CapMultiplier = 0 THEN DefaultMultiplier ELSE CapMultiplier)) \div MultiplierParts

\* build_invoice, without the margin on tokens.
Invoice(tier) ==
    LET overage == Max({0, ConsumedCredits - Included[tier]})
        room == Max({0, OverageRunCap(tier) - Included[tier]})
    IN  [consumed |-> ConsumedCredits, overage |-> overage,
         billable |-> Min({overage, room}), hardStop |-> overage > room]

----------------------------------------------------------------------------
TypeOK ==
    /\ org \in [tier : Tiers, status : {"unconfigured", "active", "grace", "canceled"},
                failedAt : {Never} \cup 0 .. MaxDay, pending : Tiers \cup {NoTier},
                effective : {Never} \cup 0 .. MaxDay]
    /\ org.pending = NoTier <=> org.effective = Never
    /\ Len(entries) <= MaxEntries /\ day \in 0 .. MaxDay /\ events \in 0 .. MaxEvents

\* The invoice never shrinks while the month's entries come in and the plan
\* stays, in whatever order entries of several runs are written; it never
\* bills past the cap, bills all of the overage below it, and reports a hard
\* stop exactly where something is left unbilled (build_invoice).
InvoiceGrows ==
    [][entries' # entries =>
          LET before == Invoice(org.tier)
              after == Invoice(org.tier)'
          IN  /\ after.consumed >= before.consumed /\ after.billable >= before.billable
              /\ Included[org.tier] + after.billable
                    <= Max({Included[org.tier], OverageRunCap(org.tier)})
              /\ after.hardStop <=> after.billable < after.overage]_billingVars
=============================================================================
