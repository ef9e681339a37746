---------------------------- MODULE MCWorkspace ----------------------------
(***************************************************************************)
(* Instance of RunEffects for TLC: two workers that share an evidence      *)
(* directory, and enough of everything else for it to collide.             *)
(***************************************************************************)
EXTENDS RunEffects, TLC

CONSTANTS p1, p2, a, b, c, f1, f2, f3

TwoExporters == {p1, p2}
TwoRuns == {a, b}
Files == {f1, f2, f3}

\* A dear and a cheap model and one that is not in the price table.
Prices == [dear |-> 18, cheap |-> 1, new |-> -1]
TwoLists == {<<"dear", "cheap", "new">>, <<"cheap", "new">>}

\* A short symbol, one of a long file, and one with a long signature.
ThreeSymbols == {[sig |-> 2, file |-> 1], [sig |-> 2, file |-> 20], [sig |-> 15, file |-> 3]}

\* A file that is edited, or created with or without its mode.
ThreeHeads == {[from |-> "a/f", to |-> "b/f", mode |-> FALSE]}
                \cup {[from |-> "/dev/null", to |-> "b/f", mode |-> m] : m \in BOOLEAN}

PlainWorld ==
    [mock |-> FALSE, script |-> [runs |-> "command", tests |-> "yes"], flaky |-> FALSE,
     repro |-> [t \in V!Trees |-> TRUE],
     suite |-> [t \in V!Trees |-> TRUE], conflict |-> FALSE, severity |-> "clean", lines |-> 10,
     threshold |-> 85]
PlainPatch == P!Diff([from |-> "a/f", to |-> "b/f", mode |-> FALSE], <<P!Line("plus", "x")>>)
=============================================================================
