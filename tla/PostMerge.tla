----------------------------- MODULE PostMerge -----------------------------
(***************************************************************************)
(* What is done when CI fails after a merge: report_ci_status computes     *)
(* generate_revert_patch of the run's patch_diff and records a rollback    *)
(* (PostMergeMonitor does the same for its caller).  The patch is of one   *)
(* file and has one hunk.  Of the text of a changed line it matters        *)
(* whether, behind its mark, it reads as a file header: "-- " after a      *)
(* minus ("dashes", a comment of SQL or Lua), "++ " after a plus           *)
(* ("pluses").  That the patch is applied to undo the merge is up to the   *)
(* user and git: Apply.                                                    *)
(***************************************************************************)
EXTENDS Naturals, Sequences, FiniteSets

CONSTANTS
    Texts,          \* texts of lines, "dashes" and "pluses" among them
    Heads,          \* file headers: [from, to, mode], mode a "new file mode" line
    MaxLines,       \* bound on the lines of the hunk
    MaxReports

DevNull == "/dev/null"
Marks == {"same", "minus", "plus"}     \* of lines of both sides, and of one
Line(mark, text) == [mark |-> mark, text |-> text, old |-> 0, new |-> 0]
Hunk(old, new) == [mark |-> "range", text |-> "", old |-> old, new |-> new]

VARIABLES
    patch,          \* patch_diff of the checkpoint
    status,         \* its run_status
    decision,       \* auto_rolled_back of its merge_decision
    audits,         \* entries RUN_ROLLED_BACK
    answer,         \* revert_patch of the last report
    reports

vars == <<patch, status, decision, audits, answer, reports>>

Raised == <<Line("error", "")>>      \* RevertPatchError, a 500

\* The lines of one side of a sequence of lines, as texts: what is marked so,
\* or not at all, in its order.
Nth(of, k) == CHOOSE i \in of : Cardinality({j \in of : j <= i}) = k
Side(lines, mark) ==
    LET kept == {i \in DOMAIN lines : lines[i].mark \in {"same", mark}}
        texts == [i \in DOMAIN lines |-> lines[i].text]
    IN  [k \in 1 .. Cardinality(kept) |-> texts[Nth(kept, k)]]
OldOf(lines) == Side(lines, "minus")
NewOf(lines) == Side(lines, "plus")

\* A unified diff whose hunk has these lines.
Diff(head, lines) ==
    (IF head.mode THEN <<Line("mode", "new")>> ELSE <<>>)
    \o <<Line("from", head.from), Line("to", head.to), Hunk(Len(OldOf(lines)), Len(NewOf(lines)))>>
    \o lines

Hunks == UNION {[1 .. n -> {Line(m, t) : m \in Marks, t \in Texts}] : n \in 1 .. MaxLines}

\* Patches with a change; that of a created file has no old side.
Patches ==
    {Diff(head, lines) : head \in {h \in Heads : h.from # DevNull},
                         lines \in {l \in Hunks : \E i \in DOMAIN l : l[i].mark # "same"}}
      \cup {Diff(head, lines) : head \in {h \in Heads : h.from = DevNull},
                               lines \in {l \in Hunks : OldOf(l) = <<>>}}

\* The run of this patch has been merged.
InitOf(p) ==
    /\ patch = p
    /\ status = "merged" /\ decision = FALSE
    /\ audits = 0 /\ answer = <<>> /\ reports = 0
Init == \E p \in Patches : InitOf(p)

----------------------------------------------------------------------------
\* generate_revert_patch.

\* How a line reads, whatever it was meant to be.
FromHeader(x) == x.mark = "from" \/ (x.mark = "minus" /\ x.text = "dashes")
ToHeader(x) == x.mark = "to" \/ (x.mark = "plus" /\ x.text = "pluses")

\* Where the loop stands behind each line: after the first of a pair of
\* headers, inside a hunk up to a line that reads as a header, or outside.
Behind(p) ==
    LET at[i \in 0 .. Len(p)] ==
            IF i = 0 THEN "out"
            ELSE IF at[i - 1] = "pair" THEN "out"
            ELSE IF FromHeader(p[i]) THEN "pair"
            ELSE IF p[i].mark = "range" \/ (at[i - 1] = "hunk" /\ ~ToHeader(p[i])) THEN "hunk"
            ELSE "out"
    IN  at

\* The ranges of a hunk are swapped, the marks inside it, and the headers; a
\* pair of changed lines that reads as headers keeps its marks.
\* Mutant of Turned: the ranges are left as they were.
TurnedNot(x) == x
Turned(x) == Hunk(x.new, x.old)
Flip(x) == [x EXCEPT !.mark = IF @ = "plus" THEN "minus" ELSE IF @ = "minus" THEN "plus" ELSE @]
Header(x, other) == IF x.mark \in {"from", "to"} THEN [x EXCEPT !.text = other.text] ELSE x

\* The loop over the lines; outside of a hunk they are copied.
Revert(p) ==
    LET at == Behind(p)
    IN  IF \E i \in DOMAIN p : at[i] = "pair" /\ ~(i < Len(p) /\ ToHeader(p[i + 1])) THEN Raised
        ELSE [i \in DOMAIN p |->
                IF at[i] = "pair" THEN Header(p[i], p[i + 1])
                ELSE IF at[i - 1] = "pair" THEN Header(p[i], p[i - 1])
                ELSE IF p[i].mark = "range" THEN Turned(p[i])
                ELSE IF at[i] = "hunk" THEN Flip(p[i]) ELSE p[i]]

\* changed: a mark was flipped, or the answer is the empty string.
RevertPatch(p) ==
    LET r == Revert(p)
    IN  IF r = Raised THEN Raised
        ELSE IF \E i \in DOMAIN p : r[i].mark # p[i].mark THEN r ELSE <<>>

----------------------------------------------------------------------------
\* auto_rollback_triggered: CI failed, and within the monitor's window.
Needed(ciFailed, inWindow) == ciFailed /\ inWindow

\* record_rollback: every rollback has its entry in the audit log.
RecordRollback == audits' = audits + 1

\* report_ci_status; merge_time is the caller's, and nothing asks whether the
\* run was merged or was rolled back before.
Report(ciFailed, inWindow) ==
    LET revert == RevertPatch(patch)
    IN  /\ reports < MaxReports /\ reports' = reports + 1
        /\ IF Needed(ciFailed, inWindow)
           THEN /\ answer' = revert
                /\ IF revert = Raised THEN UNCHANGED <<status, decision, audits>>
                   ELSE status' = "rolled_back" /\ decision' = TRUE /\ RecordRollback
           ELSE answer' = <<>> /\ UNCHANGED <<status, decision, audits>>
        /\ UNCHANGED patch

Next == \E ciFailed, inWindow \in BOOLEAN : Report(ciFailed, inWindow)

Spec == Init /\ [][Next]_vars

----------------------------------------------------------------------------
TypeOK ==
    /\ status \in {"merged", "rolled_back"} /\ decision = (status = "rolled_back")
    /\ audits <= reports /\ reports <= MaxReports

\* The hunk of a patch.
First(p) == IF p[1].mark = "mode" THEN 2 ELSE 1
Body(p) == SubSeq(p, First(p) + 3, Len(p))

\* git apply of a patch to the lines of the file: it goes by the ranges of the
\* hunk, so the marks alone tell its lines, and wants the old side to be there.
Rejected == <<"rejected">>
Apply(p, file) ==
    LET range == p[First(p) + 2]
    IN  IF /\ First(p) = 2 => p[2].text = DevNull
           /\ Len(OldOf(Body(p))) = range.old /\ Len(NewOf(Body(p))) = range.new
           /\ OldOf(Body(p)) = file
           /\ p[First(p) + 1].text = DevNull => NewOf(Body(p)) = <<>>
        THEN NewOf(Body(p)) ELSE Rejected

\* No mode line, and no changed line that reads as a header.
Plain(p) ==
    /\ First(p) = 1
    /\ \A i \in DOMAIN Body(p) : ~FromHeader(Body(p)[i]) /\ ~ToHeader(Body(p)[i])

\* The answer to a report that rolls a run back undoes its patch if that is
\* plain; reverted in its turn it is the patch, if it is plain too.  Of other
\* patches the report fails and records nothing, or says that there is nothing
\* to undo, or gives a patch that git rejects: never one that leaves the file
\* in a third state (generate_revert_patch, report_ci_status).
RevertUndoes ==
    audits > 0 =>
        LET old == OldOf(Body(patch))
            new == NewOf(Body(patch))
            revert == RevertPatch(patch)
        IN  /\ revert # Raised
            /\ Plain(patch) => revert # <<>> /\ Apply(revert, new) = old
            /\ (Plain(patch) /\ Plain(revert)) => RevertPatch(revert) = patch
            /\ revert # <<>> => Apply(revert, new) \in {old, Rejected}
=============================================================================
