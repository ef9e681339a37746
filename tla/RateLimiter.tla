---------------------------- MODULE RateLimiter ----------------------------
(***************************************************************************)
(* The rate limit of one client over several API replicas: a sorted set in *)
(* Redis that one transaction purges, counts and extends, a second call    *)
(* that takes the member of a refused request out again, and each          *)
(* replica's own list of timestamps when Redis fails or is not configured. *)
(* Scores are the clocks of the replicas, which differ by up to MaxSkew.   *)
(* The key's time to live is longer than the window and is left out.       *)
(***************************************************************************)
EXTENDS Integers, FiniteSets

CONSTANTS
    Replicas,
    Limit,       \* limit
    Window,      \* window_seconds
    MaxSkew,     \* bound on the clocks' differences
    MaxTime,     \* bound on time
    MaxRequests  \* bound on requests

VARIABLES
    now,       \* the time
    skew,      \* of each replica: how far its clock is ahead
    zset,      \* loom:ratelimit:<key>: its members
    answering, \* members of refused requests that are about to be removed
    local,     \* of each replica: its timestamps in _rate_store
    served,    \* requests let through: when, and by Redis or by a replica
    requests

rateVars == <<now, skew, zset, answering, local, served, requests>>

Member(id, score, replica) == [id |-> id, score |-> score, replica |-> replica]
Served(id, at, by) == [id |-> id, at |-> at, by |-> by]

Init ==
    /\ now = 1 /\ skew \in [Replicas -> 0 .. MaxSkew]
    /\ zset = {} /\ answering = {}
    /\ local = [r \in Replicas |-> {}]
    /\ served = {} /\ requests = 0

Clock(r) == now + skew[r]

----------------------------------------------------------------------------
\* Mutant of Live: the window is a second short.
LiveShort(r) == {m \in zset : m.score > Clock(r) - Window + 1}

\* What zremrangebyscore leaves of the set.
Live(r) == {m \in zset : m.score > Clock(r) - Window}

\* allow: one MULTI/EXEC purges, counts, adds and renews the expiry.
Allow(r) ==
    LET member == Member(requests + 1, Clock(r), r) IN
    /\ requests < MaxRequests /\ requests' = requests + 1
    /\ zset' = Live(r) \cup {member}
    /\ IF Cardinality(Live(r)) >= Limit
       THEN answering' = answering \cup {member} /\ UNCHANGED served
       ELSE served' = served \cup {Served(requests + 1, now, "redis")} /\ UNCHANGED answering
    /\ UNCHANGED <<now, skew, local>>

\* A refused request: its member is removed, and the client gets a 429.
Refuse(m) ==
    /\ m \in answering /\ answering' = answering \ {m}
    /\ zset' = zset \ {m}
    /\ UNCHANGED <<now, skew, local, served, requests>>

\* The replica dies first: the member stays.
DieAnswering(m) ==
    /\ m \in answering /\ answering' = answering \ {m}
    /\ UNCHANGED <<now, skew, zset, local, served, requests>>

\* The replica's own list: timestamps that are in the window and, when there
\* are fewer than the limit, the new one.
LocalLive(r) == {s \in local[r] : Clock(r) - s.score < Window}

Fallback(r, id) ==
    IF Cardinality(LocalLive(r)) >= Limit
    THEN UNCHANGED <<local, served>>
    ELSE /\ local' = [local EXCEPT ![r] = LocalLive(r) \cup {Member(id, Clock(r), r)}]
         /\ served' = served \cup {Served(id, now, r)}

\* No Redis, or an error before or after the transaction ran.
AllowLocally(r) ==
    /\ requests < MaxRequests /\ requests' = requests + 1
    /\ zset' \in {zset, Live(r) \cup {Member(requests + 1, Clock(r), r)}}
    /\ Fallback(r, requests + 1)
    /\ UNCHANGED <<now, skew, answering>>

\* The removal fails: the request that Redis refused is asked of the list.
RefuseFails(m) ==
    /\ m \in answering /\ answering' = answering \ {m}
    /\ zset' \in {zset, zset \ {m}}
    /\ Fallback(m.replica, m.id)
    /\ UNCHANGED <<now, skew, requests>>

Tick ==
    /\ now < MaxTime /\ now' = now + 1
    /\ UNCHANGED <<skew, zset, answering, local, served, requests>>

Next ==
    \/ Tick
    \/ \E r \in Replicas : Allow(r) \/ AllowLocally(r)
    \/ \E m \in answering : Refuse(m) \/ DieAnswering(m) \/ RefuseFails(m)

Spec == Init /\ [][Next]_rateVars

----------------------------------------------------------------------------
\* How far apart the clocks of two replicas are.
Drift == CHOOSE d \in 0 .. MaxSkew :
            /\ \E r, s \in Replicas : skew[r] - skew[s] = d
            /\ \A r, s \in Replicas : skew[r] - skew[s] <= d

TypeOK ==
    /\ now \in 1 .. MaxTime /\ requests \in 0 .. MaxRequests
    /\ \A m \in answering \cup zset : m.id \in 1 .. requests /\ m.replica \in Replicas
    /\ \A s \in served : s.id \in 1 .. requests /\ s.by \in Replicas \cup {"redis"}

Recent(by, length) == {s \in served : s.by = by /\ s.at > now - length}

\* Redis lets at most Limit requests through in a window that is shorter by the
\* difference of the clocks, and each replica on its own Limit more in a whole
\* window, whatever fails, dies or is refused in between (RedisRateLimiter,
\* rate_limit_middleware).
RateLimitKept ==
    /\ Cardinality(Recent("redis", Window - Drift)) <= Limit
    /\ \A r \in Replicas : Cardinality(Recent(r, Window)) <= Limit
=============================================================================
