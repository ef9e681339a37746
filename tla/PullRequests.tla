---------------------------- MODULE PullRequests ----------------------------
(***************************************************************************)
(* CIBot and GitHubAPIClient: pull requests for the fixes of runs that     *)
(* share one clone of a repository.  A request commits what is in the      *)
(* working tree to a new branch, pushes it and asks GitHub for the pull    *)
(* request.  git runs in subprocesses that block the event loop, so        *)
(* requests interleave only where they wait for GitHub.  The API makes a   *)
(* bot for every request; a bot that lives longer counts what it opened.   *)
(***************************************************************************)
EXTENDS Naturals, FiniteSets

CONSTANTS
    Runs,
    BranchOf,       \* of each run: the branch named for its issue's number and title
    Bots,
    MaxOpenPrs,     \* max_open_prs (5)
    MaxCalls,       \* bound on the requests
    MaxFaults       \* bound on pushes and answers that fail

VARIABLES
    applied,        \* runs whose patch was applied to the clone
    tree,           \* those not committed yet
    head,           \* the branch the clone is on
    local, remote,  \* of each branch: the patches in it, or Absent
    prs,            \* pull requests open on GitHub, with their patches
    call,           \* of each run: the request in flight
    counted,        \* of each bot: _event_counter["pr.opened"]
    opened, unheard,    \* of each bot: pull requests it caused, answers it lost
    calls, faults

clone == <<applied, tree, head, local>>
github == <<remote, prs>>
vars == <<clone, github, call, counted, opened, unheard, calls, faults>>

Branches == {BranchOf[r] : r \in Runs}
Absent == {"absent"}
NoCall == [stage |-> "none", bot |-> "none"]

Init ==
    /\ applied = {} /\ tree = {} /\ head = "main"
    /\ local = [b \in Branches \cup {"main"} |-> IF b = "main" THEN {} ELSE Absent]
    /\ remote = [b \in Branches |-> Absent] /\ prs = {}
    /\ call = [r \in Runs |-> NoCall]
    /\ counted = [b \in Bots |-> 0]
    /\ opened = [b \in Bots |-> 0] /\ unheard = [b \in Bots |-> 0]
    /\ calls = 0 /\ faults = 0

----------------------------------------------------------------------------
\* The patcher of a run applies its patch (module Workspace).
ApplyPatch(r) ==
    /\ r \notin applied
    /\ applied' = applied \cup {r} /\ tree' = tree \cup {r}
    /\ UNCHANGED <<head, local, github, call, counted, opened, unheard, calls, faults>>

Below(bot) == counted[bot] < MaxOpenPrs
Called == calls < MaxCalls /\ calls' = calls + 1

\* prepare_pr, preview_pr: a preview counts as opened.
PreparePr(bot) ==
    /\ Called /\ Below(bot)
    /\ counted' = [counted EXCEPT ![bot] = @ + 1]
    /\ UNCHANGED <<clone, github, call, opened, unheard, faults>>

\* create_pr without a repo_path: the branch is expected to be there.
Ask(r, bot) ==
    /\ call[r] = NoCall /\ Called /\ Below(bot)
    /\ call' = [call EXCEPT ![r] = [stage |-> "post", bot |-> bot]]
    /\ UNCHANGED <<clone, github, counted, opened, unheard, faults>>

\* create_pr, first part with commit_and_push_patch.  The branch is cut from
\* wherever the clone is; with nothing to commit the clone is left on it, and
\* so it is when the push fails.  A branch that exists ends the request.
CommitAndPush(r, bot) ==
    LET b == BranchOf[r]
        content == local[head] \cup tree
    IN  /\ call[r] = NoCall /\ Called /\ Below(bot)
        /\ local[b] = Absent
        /\ local' = [local EXCEPT ![b] = content] /\ head' = b /\ tree' = {}
        /\ \/ /\ tree # {}
              /\ remote' = [remote EXCEPT ![b] = content]
              /\ call' = [call EXCEPT ![r] = [stage |-> "post", bot |-> bot]]
              /\ UNCHANGED faults
           \/ /\ \/ tree = {} /\ UNCHANGED faults
                 \/ tree # {} /\ faults < MaxFaults /\ faults' = faults + 1
              /\ UNCHANGED <<remote, call>>
        /\ UNCHANGED <<applied, prs, counted, opened, unheard>>

\* GitHub opens the pull request (its labels are posted next); or it refuses,
\* since the branch is not there or has a pull request already.
Open(r) ==
    LET b == BranchOf[r]
        bot == call[r].bot
    IN  /\ call[r].stage = "post"
        /\ IF remote[b] = Absent \/ \E p \in prs : p.branch = b
           THEN call' = [call EXCEPT ![r] = NoCall] /\ UNCHANGED <<prs, opened>>
           ELSE /\ prs' = prs \cup {[branch |-> b, runs |-> remote[b]]}
                /\ opened' = [opened EXCEPT ![bot] = @ + 1]
                /\ call' = [call EXCEPT ![r].stage = "opened"]
        /\ UNCHANGED <<clone, remote, counted, unheard, calls, faults>>

\* Mutant of Answered: the event is not tracked.
AnsweredUntracked(r) ==
    /\ call[r].stage = "opened" /\ call' = [call EXCEPT ![r] = NoCall]
    /\ UNCHANGED <<clone, github, counted, opened, unheard, calls, faults>>

\* The answer is back, whatever became of the labels: _track_event.
Answered(r) ==
    /\ call[r].stage = "opened" /\ call' = [call EXCEPT ![r] = NoCall]
    /\ counted' = [counted EXCEPT ![call[r].bot] = @ + 1]
    /\ UNCHANGED <<clone, github, opened, unheard, calls, faults>>

\* The post, or the answer to it, is lost: NETWORK_ERROR.
Lost(r) ==
    /\ call[r].stage \in {"post", "opened"} /\ faults < MaxFaults /\ faults' = faults + 1
    /\ call' = [call EXCEPT ![r] = NoCall]
    /\ unheard' = [unheard EXCEPT ![call[r].bot] = @ + (IF call[r].stage = "opened" THEN 1 ELSE 0)]
    /\ UNCHANGED <<clone, github, counted, opened, calls>>

\* A pull request is merged or closed on GitHub; no bot is told.
Close(p) ==
    /\ prs' = prs \ {p}
    /\ UNCHANGED <<clone, remote, call, counted, opened, unheard, calls, faults>>

Next ==
    \/ \E r \in Runs : ApplyPatch(r) \/ Open(r) \/ Answered(r) \/ Lost(r)
    \/ \E r \in Runs, bot \in Bots : Ask(r, bot) \/ CommitAndPush(r, bot)
    \/ \E bot \in Bots : PreparePr(bot)
    \/ \E p \in prs : Close(p)

Spec == Init /\ [][Next]_vars

----------------------------------------------------------------------------
TypeOK ==
    /\ tree \subseteq applied /\ applied \subseteq Runs /\ head \in Branches \cup {"main"}
    /\ \A r \in Runs : call[r].stage \in {"none", "post", "opened"}
    /\ calls \in 0 .. MaxCalls /\ faults \in 0 .. MaxFaults

\* A bot causes no more pull requests than its limit, but for answers it never
\* heard and for requests that were under way beside the last one; it counts
\* them before it knows, or when it knows, but never forgets one (create_pr).
LimitKept ==
    \A bot \in Bots :
        /\ opened[bot] <= MaxOpenPrs + unheard[bot] + Cardinality(Runs) - 1
        /\ opened[bot] <= counted[bot] + unheard[bot]
              + Cardinality({r \in Runs : call[r].bot = bot /\ call[r].stage = "opened"})

\* Pull requests are stacked: the clone never leaves the last branch, so that
\* it holds every patch ever applied, and of two pull requests one contains
\* the other's patches.  None is lost: a branch, once pushed, is never changed,
\* and what a failed push left behind is in the next one (commit_and_push_patch).
Stacked ==
    /\ tree \cup local[head] = applied
    /\ \A b \in Branches : remote[b] \in {Absent, local[b]}
    /\ \A p, q \in prs : p.runs \subseteq q.runs \/ q.runs \subseteq p.runs

\* Pull requests are counted and stacked, as the two say.
PrsAccounted == LimitKept /\ Stacked
=============================================================================
