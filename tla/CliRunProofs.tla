---------------------------- MODULE CliRunProofs ----------------------------
(***************************************************************************)
(* What a run of the command line promises when it is resumed, for every   *)
(* number of retries, resumes and dying processes.  Behind it: the groups  *)
(* that a walk has left cover whatever nodes are not done, in their order, *)
(* each process that dies loses the output of one node at most, and a      *)
(* state that passed is that of the last patch.                            *)
(***************************************************************************)
EXTENDS RunEffects, FiniteSetTheorems, SequenceTheorems, TLAPS

----------------------------------------------------------------------------
\* Walks of the graph, the record in the database and checkpoints.
WalkStages == {"none", "group", "run", "retry", "save", "end", "summary"}
Walks == [stage : WalkStages, parallel : BOOLEAN, left : Seq(SUBSET C!Nodes),
          running : SUBSET C!Nodes, failed : SUBSET C!Nodes, skipped : SUBSET C!Nodes]
Records == [status : {"running", "failed", "verified"}, completed : SUBSET C!Nodes, retries : Nat]
States == [out : SUBSET C!Nodes, passed : BOOLEAN]

\* What the proof needs to know of the types.
CliTypes ==
    /\ fallback \in BOOLEAN /\ verified \in BOOLEAN /\ rewalked \in BOOLEAN
    /\ record \in Records
    /\ state \in States /\ checkpoint \in States
    /\ walk \in Walks
    /\ early \subseteq C!Nodes /\ cliCrashes \in Nat

Walking == walk.stage # "none"
\* The walk may still start groups.
Unfinished == walk.stage \in {"group", "run", "retry", "save"}

\* Completed nodes whose output a state has not, but for those a parallel walk
\* marked early.
Missing(s) == record.completed \ (s.out \cup early)

\* Each process that died lost one node at most; so may the one that walks,
\* until it saves.
OneEach ==
    /\ Walking => checkpoint.out \subseteq state.out
    /\ walk.stage \notin {"save", "group"} => Cardinality(Missing(checkpoint)) <= cliCrashes
    /\ walk.stage \in {"save", "group"} =>
         Cardinality(Missing(state)) <= cliCrashes /\ Cardinality(Missing(checkpoint)) <= cliCrashes + 1
    /\ C!SkipsWhatRan

\* Retries that are left.
Tries ==
    /\ record.retries <= MaxRetries + 1
    /\ Unfinished => record.retries <= MaxRetries

\* Nodes that come before the verifier, and those that did or will before group i.
Earlier == {"onboarding", "reproduction", "patcher"}
Ahead(node, i) == node \in record.completed \cup walk.running \/ \E j \in 1 .. i - 1 : node \in walk.left[j]

\* The verifier comes after the nodes before it, once, and the patcher never after it.
VerifierLast(remaining) ==
    \A i, j \in DOMAIN remaining :
        (i <= j /\ "verifier" \in remaining[i]) => "patcher" \notin remaining[j] /\ (i < j => "verifier" \notin remaining[j])
OneByOne(remaining) == \A i \in DOMAIN remaining : \A x, y \in remaining[i] : x = y

\* The groups left keep the order of the nodes, and the verifier has all before it.
Ordered ==
    /\ "verifier" \in record.completed => Earlier \subseteq record.completed
    /\ Unfinished =>
        /\ VerifierLast(walk.left)
        /\ "verifier" \in walk.running =>
              /\ "patcher" \notin walk.running /\ Earlier \subseteq record.completed
              /\ \A i \in DOMAIN walk.left : walk.left[i] \cap {"patcher", "verifier"} = {}
        /\ walk.parallel => walk.running \subseteq record.completed
        /\ walk.stage \in {"group", "save"} => walk.running = {}
        /\ ~walk.parallel => OneByOne(walk.left) /\ \A x, y \in walk.running : x = y
        /\ \A i \in DOMAIN walk.left : "verifier" \in walk.left[i] => \A node \in Earlier : Ahead(node, i)

\* No patcher and no verifier is still to run.
Judged == Unfinished =>
    /\ walk.running \cap {"patcher", "verifier"} = {}
    /\ \A i \in DOMAIN walk.left : walk.left[i] \cap {"patcher", "verifier"} = {}

\* Some state says the run passed.
Passing == checkpoint.passed \/ (Walking /\ state.passed) \/ record.status = "verified"

\* Only a walk whose verifier accepted the last patch passes, unless it was walked again.
Current ==
    /\ (Passing /\ ~rewalked) => verified /\ "verifier" \in record.completed /\ Judged
    /\ (record.status = "verified" /\ ~rewalked) => checkpoint.passed
    /\ (checkpoint.passed /\ Walking /\ ~rewalked) => state.passed
    /\ walk.stage = "summary" => checkpoint = state

CliInv == CliTypes /\ OneEach /\ Tries /\ Ordered /\ Current

----------------------------------------------------------------------------
Rank(node) ==
    CASE node = "onboarding" -> 1 [] node = "reproduction" -> 2 [] node = "planner" -> 3
      [] node = "patcher" -> 4 [] node = "verifier" -> 5 [] OTHER -> 6

\* The size of a set is the same seen from CliRun.
LEMMA CliSize == \A Z : C!Cardinality(Z) = Cardinality(Z)
  BY DEF C!Cardinality, Cardinality

\* The nodes, as sets and in their two orders.
LEMMA NodesAre ==
    /\ C!Nodes = {"onboarding", "reproduction", "planner", "patcher", "verifier", "reviewer"}
    /\ C!Sequence \in Seq(C!Nodes) /\ Len(C!Sequence) = 6 /\ DOMAIN C!Sequence = 1 .. 6
    /\ C!Resumable \in Seq(C!Nodes) /\ Len(C!Resumable) = 5 /\ DOMAIN C!Resumable = 1 .. 5
  <1>1. Len(C!Sequence) = 6 /\ DOMAIN C!Sequence = 1 .. 6 /\ Len(C!Resumable) = 5 /\ DOMAIN C!Resumable = 1 .. 5
    BY DEF C!Sequence, C!Resumable
  <1>2. C!Nodes = {"onboarding", "reproduction", "planner", "patcher", "verifier", "reviewer"}
    <2>1. \A i \in 1 .. 6 : i = 1 \/ i = 2 \/ i = 3 \/ i = 4 \/ i = 5 \/ i = 6
      OBVIOUS
    <2>2. /\ C!Sequence[1] = "onboarding" /\ C!Sequence[2] = "reproduction" /\ C!Sequence[3] = "planner"
          /\ C!Sequence[4] = "patcher" /\ C!Sequence[5] = "verifier" /\ C!Sequence[6] = "reviewer"
      BY DEF C!Sequence
    <2>. QED  BY <1>1, <2>1, <2>2 DEF C!Nodes
  <1>3. C!Sequence \in Seq(C!Nodes) /\ C!Resumable \in Seq(C!Nodes)
    BY <1>2 DEF C!Sequence, C!Resumable
  <1>. QED
    BY <1>1, <1>2, <1>3

\* Nodes in the order a sequential walk has them in, with the planner or without.
InOrder(s) ==
    /\ s \in Seq(C!Nodes) /\ DOMAIN s = 1 .. Len(s) /\ Len(s) \in {5, 6}
    /\ \A i, j \in 1 .. Len(s) : i < j => Rank(s[i]) < Rank(s[j])
    /\ \A node \in C!Nodes \ {"planner"} : \E i \in 1 .. Len(s) : s[i] = node

\* The sequence of the graph has every node in its place.
LEMMA SequenceInOrder == InOrder(C!Sequence)
  <1>1. /\ C!Sequence[1] = "onboarding" /\ C!Sequence[2] = "reproduction" /\ C!Sequence[3] = "planner"
        /\ C!Sequence[4] = "patcher" /\ C!Sequence[5] = "verifier" /\ C!Sequence[6] = "reviewer"
    BY DEF C!Sequence
  <1>2. \A i \in 1 .. 6 : Rank(C!Sequence[i]) = i
    <2>1. \A i \in 1 .. 6 : i = 1 \/ i = 2 \/ i = 3 \/ i = 4 \/ i = 5 \/ i = 6
      OBVIOUS
    <2>. QED  BY <1>1, <2>1 DEF Rank
  <1>3. \A node \in C!Nodes : \E i \in 1 .. 6 : C!Sequence[i] = node
    BY <1>1, NodesAre
  <1>. QED
    BY <1>2, <1>3, NodesAre DEF InOrder

\* So has the list of resumable nodes, which leaves the planner out.
LEMMA ResumableInOrder == InOrder(C!Resumable)
  <1>1. /\ C!Resumable[1] = "onboarding" /\ C!Resumable[2] = "reproduction"
        /\ C!Resumable[3] = "patcher" /\ C!Resumable[4] = "verifier" /\ C!Resumable[5] = "reviewer"
    BY DEF C!Resumable
  <1>2. /\ Rank(C!Resumable[1]) = 1 /\ Rank(C!Resumable[2]) = 2 /\ Rank(C!Resumable[3]) = 4
        /\ Rank(C!Resumable[4]) = 5 /\ Rank(C!Resumable[5]) = 6
    BY <1>1 DEF Rank
  <1>3. \A i \in 1 .. 5 : i = 1 \/ i = 2 \/ i = 3 \/ i = 4 \/ i = 5
    OBVIOUS
  <1>4. \A i, j \in 1 .. 5 : i < j => Rank(C!Resumable[i]) < Rank(C!Resumable[j])
    BY <1>2, <1>3
  <1>5. \A node \in C!Nodes \ {"planner"} : \E i \in 1 .. 5 : C!Resumable[i] = node
    BY <1>1, NodesAre
  <1>. QED
    BY <1>4, <1>5, NodesAre DEF InOrder

\* What has to be walked from a point on, where what comes before it is completed.
Covers(g, parallel, done) ==
    /\ g \in Seq(SUBSET C!Nodes) /\ VerifierLast(g) /\ (~parallel => OneByOne(g))
    /\ \A i \in DOMAIN g : "verifier" \in g[i] =>
          \A node \in Earlier : node \in done \/ \E j \in 1 .. i - 1 : node \in g[j]
    /\ \A node \in C!Nodes \ {"planner"} : node \in done \/ \E i \in DOMAIN g : node \in g[i]

\* The groups of a parallel walk cover the graph from the start.
LEMMA ParallelGroups ==
    ASSUME NEW fast \in BOOLEAN, NEW done
    PROVE  /\ Covers(C!Groups(TRUE, fast), TRUE, done)
           /\ \E i \in DOMAIN C!Groups(TRUE, fast) : "patcher" \in C!Groups(TRUE, fast)[i]
  <1>. DEFINE h == {"reproduction"} \cup (IF fast THEN {} ELSE {"planner"})
              g == <<{"onboarding"}, h, {"patcher"}, {"verifier", "reviewer"}>>
  <1>1. C!Groups(TRUE, fast) = g
    BY DEF C!Groups
  <1>2. h \subseteq {"reproduction", "planner"} /\ "reproduction" \in h
    OBVIOUS
  <1>3. g \in Seq(SUBSET C!Nodes) /\ DOMAIN g = 1 .. 4
    BY <1>2, NodesAre
  <1>4. g[1] = {"onboarding"} /\ g[2] = h /\ g[3] = {"patcher"} /\ g[4] = {"verifier", "reviewer"}
    OBVIOUS
  <1>. HIDE DEF g, h
  <1>5. \A i \in 1 .. 4 : "verifier" \in g[i] <=> i = 4
    <2>1. \A i \in 1 .. 4 : i = 1 \/ i = 2 \/ i = 3 \/ i = 4
      OBVIOUS
    <2>. QED  BY <1>2, <1>4, <2>1
  <1>6. VerifierLast(g)
    BY <1>3, <1>4, <1>5 DEF VerifierLast
  <1>7. \A i \in 1 .. 4 : "verifier" \in g[i] => \A node \in Earlier : \E j \in 1 .. i - 1 : node \in g[j]
    <2>1. \A node \in Earlier : \E j \in 1 .. 3 : node \in g[j]
      BY <1>2, <1>4 DEF Earlier
    <2>. QED  BY <1>5, <2>1
  <1>8. \A node \in C!Nodes \ {"planner"} : \E i \in 1 .. 4 : node \in g[i]
    BY <1>2, <1>4, NodesAre
  <1>9. Covers(g, TRUE, done)
    BY <1>3, <1>6, <1>7, <1>8 DEF Covers
  <1>10. \E i \in DOMAIN g : "patcher" \in g[i]
    BY <1>3, <1>4
  <1>. QED
    BY <1>1, <1>9, <1>10

\* The rest of a sequential walk covers what is not done.
LEMMA SequentialGroups ==
    ASSUME NEW s, InOrder(s), NEW k \in 1 .. Len(s), NEW done,
           \A node \in C!Nodes \ {"planner"} : Rank(node) < Rank(s[k]) => node \in done,
           NEW g, g = SubSeq([i \in DOMAIN s |-> {s[i]}], k, Len(s))
    PROVE  /\ Covers(g, FALSE, done)
           /\ \A i \in DOMAIN g : \A node \in g[i] : Rank(node) >= Rank(s[k])
           /\ \A i \in 1 .. Len(s) : i >= k => \E j \in DOMAIN g : s[i] \in g[j]
  <1>. DEFINE n == Len(s)
              singles == [i \in DOMAIN s |-> {s[i]}]
  <1>1. /\ s \in Seq(C!Nodes) /\ n \in Nat /\ DOMAIN s = 1 .. n /\ k \in Nat /\ k >= 1 /\ k <= n
        /\ \A i, j \in 1 .. n : i < j => Rank(s[i]) < Rank(s[j])
        /\ \A node \in C!Nodes \ {"planner"} : \E i \in 1 .. n : s[i] = node
        /\ \A i \in 1 .. n : s[i] \in C!Nodes
    BY ElementOfSeq DEF InOrder
  <1>2. \A i \in 1 .. n : singles[i] = {s[i]}
    BY <1>1
  <1>3. \A i \in k .. n : singles[i] \in SUBSET C!Nodes
    BY <1>1, <1>2
  <1>4. g = SubSeq(singles, k, n)
    OBVIOUS
  <1>. HIDE DEF singles, n
  <1>5. /\ g \in Seq(SUBSET C!Nodes) /\ Len(g) = n - k + 1
        /\ \A i \in 1 .. n - k + 1 : g[i] = singles[k + i - 1]
    <2>1. k \in Int /\ n \in Int /\ k <= n
      BY <1>1
    <2>. DEFINE T == SUBSET C!Nodes
    <2>2. \A i \in k .. n : singles[i] \in T
      BY <1>3
    <2>. HIDE DEF T
    <2>3. /\ SubSeq(singles, k, n) \in Seq(T)
          /\ Len(SubSeq(singles, k, n)) = IF k <= n THEN n - k + 1 ELSE 0
          /\ \A i \in 1 .. n - k + 1 : SubSeq(singles, k, n)[i] = singles[k + i - 1]
      BY <2>1, <2>2, SubSeqProperties
    <2>. QED  BY <1>4, <2>1, <2>3 DEF T
  <1>6. DOMAIN g = 1 .. n - k + 1
    BY <1>5, LenProperties
  <1>7. \A i \in DOMAIN g : i \in 1 .. n - k + 1 /\ k + i - 1 \in 1 .. n /\ g[i] = {s[k + i - 1]}
    BY <1>1, <1>2, <1>5, <1>6
  <1>8. \A i \in 1 .. n : i >= k => (i - k + 1 \in DOMAIN g /\ g[i - k + 1] = {s[i]})
    <2>. SUFFICES ASSUME NEW i \in 1 .. n, i >= k PROVE i - k + 1 \in DOMAIN g /\ g[i - k + 1] = {s[i]}
      OBVIOUS
    <2>1. i - k + 1 \in 1 .. n - k + 1 /\ k + (i - k + 1) - 1 = i
      BY <1>1
    <2>. QED  BY <1>6, <1>7, <2>1
  <1>9. \A i \in 1 .. n : i >= k => Rank(s[i]) >= Rank(s[k])
    <2>. SUFFICES ASSUME NEW i \in 1 .. n, i >= k PROVE Rank(s[i]) >= Rank(s[k])
      OBVIOUS
    <2>1. \A node : Rank(node) \in Nat
      BY DEF Rank
    <2>2. i = k \/ k < i
      BY <1>1
    <2>. QED  BY <1>1, <2>1, <2>2
  <1>10. \A i \in 1 .. n : i < k => Rank(s[i]) < Rank(s[k])
    BY <1>1
  <1>11. \A i \in DOMAIN g : \A node \in g[i] : Rank(node) >= Rank(s[k])
    <2>. SUFFICES ASSUME NEW i \in DOMAIN g PROVE Rank(s[k + i - 1]) >= Rank(s[k])
      BY <1>7
    <2>1. k + i - 1 \in 1 .. n /\ k + i - 1 >= k
      BY <1>1, <1>7
    <2>. QED  BY <1>9, <2>1
  <1>12. \A node \in C!Nodes \ {"planner"} : node \in done \/ \E i \in DOMAIN g : node \in g[i]
    <2>. SUFFICES ASSUME NEW node \in C!Nodes \ {"planner"}, node \notin done
                  PROVE  \E i \in DOMAIN g : node \in g[i]
      OBVIOUS
    <2>1. PICK i \in 1 .. n : s[i] = node
      BY <1>1
    <2>2. ~(i < k)
      BY <1>10, <2>1
    <2>3. i >= k
      BY <1>1, <2>2
    <2>. QED  BY <1>8, <2>1, <2>3
  <1>13. \A i, j \in DOMAIN g : \A x \in g[i], y \in g[j] : i < j <=> Rank(x) < Rank(y)
    <2>. SUFFICES ASSUME NEW i \in DOMAIN g, NEW j \in DOMAIN g
                  PROVE  i < j <=> Rank(s[k + i - 1]) < Rank(s[k + j - 1])
      BY <1>7
    <2>1. /\ i \in Nat /\ j \in Nat /\ k + i - 1 \in 1 .. n /\ k + j - 1 \in 1 .. n
          /\ i < j <=> k + i - 1 < k + j - 1
      BY <1>1, <1>7
    <2>2. \A node : Rank(node) \in Nat
      BY DEF Rank
    <2>3. CASE i < j
      BY <1>1, <2>1, <2>3
    <2>4. CASE i = j
      BY <2>1, <2>2, <2>4
    <2>5. CASE j < i
      <3>1. Rank(s[k + j - 1]) < Rank(s[k + i - 1])
        BY <1>1, <2>1, <2>5
      <3>. QED  BY <2>1, <2>2, <2>5, <3>1
    <2>. QED  BY <2>1, <2>3, <2>4, <2>5
  <1>14. VerifierLast(g)
    <2>1. Rank("verifier") = 5 /\ Rank("patcher") = 4
      BY DEF Rank
    <2>. SUFFICES ASSUME NEW i \in DOMAIN g, NEW j \in DOMAIN g, i <= j, "verifier" \in g[i]
                  PROVE  "patcher" \notin g[j] /\ (i < j => "verifier" \notin g[j])
      BY DEF VerifierLast
    <2>2. i \in Nat /\ j \in Nat /\ ~(j < i)
      BY <1>7
    <2>. DEFINE v == "verifier"
                p == "patcher"
    <2>3. v \in g[i] /\ Rank(v) = 5 /\ Rank(p) = 4
      BY <2>1
    <2>. HIDE DEF v, p
    <2>4. p \notin g[j]
      <3>. SUFFICES ASSUME p \in g[j] PROVE FALSE
        OBVIOUS
      <3>1. j < i <=> Rank(p) < Rank(v)
        BY <1>13, <2>3
      <3>. QED  BY <2>2, <2>3, <3>1
    <2>5. i < j => v \notin g[j]
      <3>. SUFFICES ASSUME v \in g[j], i < j PROVE FALSE
        OBVIOUS
      <3>1. i < j <=> Rank(v) < Rank(v)
        BY <1>13, <2>3
      <3>. QED  BY <2>2, <2>3, <3>1
    <2>. QED  BY <2>4, <2>5 DEF v, p
  <1>15. OneByOne(g)
    BY <1>7 DEF OneByOne
  <1>16. \A i \in DOMAIN g : "verifier" \in g[i] =>
           \A node \in Earlier : node \in done \/ \E j \in 1 .. i - 1 : node \in g[j]
    <2>. SUFFICES ASSUME NEW i \in DOMAIN g, "verifier" \in g[i], NEW node \in Earlier, node \notin done
                  PROVE  \E j \in 1 .. i - 1 : node \in g[j]
      OBVIOUS
    <2>1. node \in C!Nodes \ {"planner"} /\ Rank(node) < Rank("verifier")
      BY NodesAre DEF Earlier, Rank
    <2>2. PICK j \in DOMAIN g : node \in g[j]
      BY <1>12, <2>1
    <2>3. j < i
      BY <1>13, <2>1, <2>2
    <2>4. j \in 1 .. i - 1
      BY <1>7, <2>3
    <2>. QED  BY <2>2, <2>4
  <1>17. Covers(g, FALSE, done)
    BY <1>5, <1>12, <1>14, <1>15, <1>16 DEF Covers
  <1>18. \A i \in 1 .. n : i >= k => \E j \in DOMAIN g : s[i] \in g[j]
    BY <1>8
  <1>. QED
    BY <1>11, <1>17, <1>18 DEF n

\* The whole graph of a sequential walk.
LEMMA WholeGraph ==
    ASSUME NEW s, InOrder(s), NEW done, NEW g, g = [i \in DOMAIN s |-> {s[i]}]
    PROVE  Covers(g, FALSE, done) /\ \E i \in DOMAIN g : "patcher" \in g[i]
  <1>1. /\ s \in Seq(C!Nodes) /\ Len(s) \in Nat /\ Len(s) >= 1 /\ DOMAIN s = 1 .. Len(s)
        /\ \A i \in 1 .. Len(s) : s[i] \in C!Nodes
        /\ \A node \in C!Nodes \ {"planner"} : \E i \in 1 .. Len(s) : s[i] = node
    BY ElementOfSeq DEF InOrder
  <1>. DEFINE T == SUBSET C!Nodes
  <1>2. g \in Seq(T) /\ Len(g) = Len(s) /\ DOMAIN g = 1 .. Len(s)
    <2>1. g \in [1 .. Len(s) -> T]
      BY <1>1
    <2>. HIDE DEF T
    <2>2. g \in Seq(T)
      BY <1>1, <2>1
    <2>3. DOMAIN g = 1 .. Len(s)
      BY <2>1
    <2>4. DOMAIN g = 1 .. Len(g) /\ Len(g) \in Nat
      BY <2>2, LenProperties
    <2>. QED  BY <1>1, <2>2, <2>3, <2>4
  <1>3. SubSeq(g, 1, Len(g)) = g
    <2>. HIDE DEF T
    <2>. QED  BY <1>2, SubSeqFull
  <1>4. Rank(s[1]) >= 1 /\ \A node \in C!Nodes \ {"planner"} : Rank(node) < Rank(s[1]) => node \in done
    <2>. SUFFICES ASSUME NEW node \in C!Nodes \ {"planner"}, Rank(node) < Rank(s[1]) PROVE FALSE
      BY DEF Rank
    <2>1. PICK i \in 1 .. Len(s) : s[i] = node
      BY <1>1
    <2>2. \A x : Rank(x) \in Nat
      BY DEF Rank
    <2>3. i = 1 \/ 1 < i
      BY <1>1
    <2>4. \A i2, j \in 1 .. Len(s) : i2 < j => Rank(s[i2]) < Rank(s[j])
      BY DEF InOrder
    <2>. QED  BY <1>1, <2>1, <2>2, <2>3, <2>4
  <1>. DEFINE k == 1
  <1>5. k \in 1 .. Len(s) /\ g = SubSeq([i \in DOMAIN s |-> {s[i]}], k, Len(s))
    BY <1>1, <1>2, <1>3
  <1>6. \A node \in C!Nodes \ {"planner"} : Rank(node) < Rank(s[k]) => node \in done
    BY <1>4
  <1>. HIDE DEF k, T
  <1>7. Covers(g, FALSE, done)
    BY <1>5, <1>6, SequentialGroups
  <1>8. \E i \in DOMAIN g : "patcher" \in g[i]
    <2>1. PICK i \in 1 .. Len(s) : s[i] = "patcher"
      BY <1>1, NodesAre
    <2>. QED  BY <1>1, <1>2, <2>1
  <1>. QED
    BY <1>7, <1>8

\* Whatever node a walk goes on from, its groups cover what is not done.
LEMMA FromCovers ==
    ASSUME NEW parallel \in BOOLEAN, NEW fast \in BOOLEAN, NEW point, NEW done,
           \/ point = "none"
           \/ /\ point \in C!Nodes \ {"planner"}
              /\ \A node \in C!Nodes \ {"planner"} : Rank(node) < Rank(point) => node \in done,
           NEW g, g = C!From(C!Groups(parallel, fast), parallel, point)
    PROVE  /\ Covers(g, parallel, done)
           /\ (parallel \/ point = "none") => \E i \in DOMAIN g : "patcher" \in g[i]
           /\ (~parallel /\ point # "none") => \A i \in DOMAIN g : \A node \in g[i] : Rank(node) >= Rank(point)
  <1>1. CASE parallel
    <2>1. g = C!Groups(TRUE, fast)
      BY <1>1 DEF C!From
    <2>. QED  BY <1>1, <2>1, ParallelGroups
  <1>2. CASE ~parallel
    <2>. DEFINE s == IF fast THEN C!Resumable ELSE C!Sequence
                singles == [i \in DOMAIN s |-> {s[i]}]
    <2>1. InOrder(s)
      BY SequenceInOrder, ResumableInOrder
    <2>2. C!Groups(parallel, fast) = singles
      BY <1>2 DEF C!Groups
    <2>. HIDE DEF s
    <2>3. CASE point = "none"
      <3>1. g = singles
        BY <2>2, <2>3 DEF C!From
      <3>2. Covers(g, FALSE, done) /\ \E i \in DOMAIN g : "patcher" \in g[i]
        BY <2>1, <3>1, WholeGraph
      <3>3. parallel = FALSE
        BY <1>2
      <3>. QED  BY <2>3, <3>2, <3>3
    <2>4. CASE point # "none"
      <3>1. /\ s \in Seq(C!Nodes) /\ Len(s) \in Nat /\ DOMAIN s = 1 .. Len(s)
            /\ \E i \in 1 .. Len(s) : s[i] = point
        BY <2>1, <2>4 DEF InOrder
      <3>2. DOMAIN singles = 1 .. Len(s) /\ \A i \in 1 .. Len(s) : singles[i] = {s[i]}
        BY <3>1
      <3>. DEFINE k == CHOOSE i \in DOMAIN singles : point \in singles[i]
      <3>3. k \in 1 .. Len(s) /\ s[k] = point
        BY <3>1, <3>2
      <3>4. Len(singles) = Len(s)
        <4>. DEFINE T == SUBSET C!Nodes
        <4>1. \A i \in 1 .. Len(s) : s[i] \in C!Nodes
          BY <3>1, ElementOfSeq
        <4>2. singles \in [1 .. Len(s) -> T]
          BY <3>1, <4>1
        <4>. HIDE DEF T, singles
        <4>3. singles \in Seq(T)
          BY <3>1, <4>2
        <4>4. DOMAIN singles = 1 .. Len(singles) /\ Len(singles) \in Nat
          BY <4>3, LenProperties
        <4>. QED  BY <3>1, <3>2, <4>4
      <3>5. g = SubSeq(singles, k, Len(s))
        BY <1>2, <2>2, <2>4, <3>4 DEF C!From
      <3>. HIDE DEF k
      <3>6. \A node \in C!Nodes \ {"planner"} : Rank(node) < Rank(s[k]) => node \in done
        BY <2>4, <3>3
      <3>7. Covers(g, FALSE, done) /\ \A i \in DOMAIN g : \A node \in g[i] : Rank(node) >= Rank(s[k])
        BY <2>1, <3>3, <3>5, <3>6, SequentialGroups
      <3>. QED  BY <1>2, <2>4, <3>3, <3>7
    <2>. QED  BY <2>3, <2>4
  <1>. QED
    BY <1>1, <1>2

\* A resume goes on from the first node that is not recorded as completed.
LEMMA ResumesAt ==
    \/ C!ResumePoint = "none" /\ C!Nodes \ {"planner"} \subseteq record.completed
    \/ /\ C!ResumePoint \in C!Nodes \ {"planner"} /\ C!ResumePoint \notin record.completed
       /\ \A node \in C!Nodes \ {"planner"} : Rank(node) < Rank(C!ResumePoint) => node \in record.completed
  <1>. DEFINE open == {i \in DOMAIN C!Resumable : C!Resumable[i] \notin record.completed}
  <1>1. /\ DOMAIN C!Resumable = 1 .. 5 /\ Len(C!Resumable) = 5
        /\ \A i \in 1 .. 5 : C!Resumable[i] \in C!Nodes \ {"planner"}
    <2>1. \A i \in 1 .. 5 : i = 1 \/ i = 2 \/ i = 3 \/ i = 4 \/ i = 5
      OBVIOUS
    <2>. QED  BY <2>1, NodesAre DEF C!Resumable
  <1>2. /\ \A i, j \in 1 .. 5 : i < j => Rank(C!Resumable[i]) < Rank(C!Resumable[j])
        /\ \A node \in C!Nodes \ {"planner"} : \E i \in 1 .. 5 : C!Resumable[i] = node
    BY <1>1, ResumableInOrder DEF InOrder
  <1>3. CASE open = {}
    BY <1>1, <1>2, <1>3 DEF C!ResumePoint
  <1>4. CASE open # {}
    <2>1. \E i \in open : \A j \in open : i <= j
      <3>1. open \subseteq 1 .. 5 /\ \A i \in 1 .. 5 : i = 1 \/ i = 2 \/ i = 3 \/ i = 4 \/ i = 5
        BY <1>1
      <3>. HIDE DEF open
      <3>2. CASE 1 \in open
        BY <3>1, <3>2
      <3>3. CASE 1 \notin open /\ 2 \in open
        BY <3>1, <3>3
      <3>4. CASE 1 \notin open /\ 2 \notin open /\ 3 \in open
        BY <3>1, <3>4
      <3>5. CASE 1 \notin open /\ 2 \notin open /\ 3 \notin open /\ 4 \in open
        BY <3>1, <3>5
      <3>6. CASE 1 \notin open /\ 2 \notin open /\ 3 \notin open /\ 4 \notin open
        <4>1. \A j \in open : j = 5
          BY <3>1, <3>6
        <4>2. PICK i \in open : TRUE
          BY <1>4
        <4>. QED  BY <4>1, <4>2
      <3>. QED  BY <3>2, <3>3, <3>4, <3>5, <3>6
    <2>. DEFINE m == C!Min(open)
    <2>2. m \in open /\ \A j \in open : m <= j
      BY <2>1 DEF C!Min
    <2>3. C!ResumePoint = C!Resumable[m]
      BY <1>4 DEF C!ResumePoint
    <2>. HIDE DEF m
    <2>4. m \in 1 .. 5 /\ C!Resumable[m] \notin record.completed
      BY <1>1, <2>2
    <2>5. ASSUME NEW node \in C!Nodes \ {"planner"}, Rank(node) < Rank(C!Resumable[m])
          PROVE  node \in record.completed
      <3>1. PICK i \in 1 .. 5 : C!Resumable[i] = node
        BY <1>2
      <3>2. \A x : Rank(x) \in Nat
        BY DEF Rank
      <3>3. i < m \/ i = m \/ m < i
        BY <2>4
      <3>4. i < m
        BY <1>2, <2>4, <2>5, <3>1, <3>2, <3>3
      <3>5. i \notin open
        BY <2>2, <2>4, <3>4
      <3>. QED  BY <1>1, <3>1, <3>5
    <2>. QED  BY <1>1, <2>3, <2>4, <2>5
  <1>. QED
    BY <1>3, <1>4

\* A process that is gone walks nothing.
LEMMA NoWalkIs ==
    /\ C!NoWalk \in Walks
    /\ C!NoWalk.stage = "none" /\ C!NoWalk.skipped = {}
  <1>. DEFINE out == C!Nodes \ UNION {<<>>[i] : i \in DOMAIN <<>>}
              w == C!Walk(FALSE, <<>>)
  <1>1. w = [stage |-> "group", parallel |-> FALSE, left |-> <<>>, running |-> {}, failed |-> {}, skipped |-> out]
    BY DEF C!Walk
  <1>. HIDE DEF out
  <1>2. C!NoWalk = [stage |-> "none", parallel |-> FALSE, left |-> <<>>, running |-> {}, failed |-> {}, skipped |-> {}]
    <2>1. C!NoWalk = [w EXCEPT !.stage = "none", !.skipped = {}]
      BY DEF C!NoWalk
    <2>. HIDE DEF w
    <2>. QED  BY <1>1, <2>1
  <1>3. <<>> \in Seq(SUBSET C!Nodes)
    OBVIOUS
  <1>. QED
    BY <1>2, <1>3 DEF Walks, WalkStages

\* A walk that begins has left what its groups cover.
LEMMA WalkBegins ==
    ASSUME NEW parallel \in BOOLEAN, NEW g \in Seq(SUBSET C!Nodes), NEW w, w = C!Walk(parallel, g)
    PROVE  /\ w \in Walks
           /\ w.stage = "group" /\ w.parallel = parallel /\ w.left = g /\ w.running = {}
           /\ w.skipped = C!Nodes \ UNION {g[i] : i \in DOMAIN g}
  BY DEF C!Walk, Walks, WalkStages

\* Sets of nodes are finite.
LEMMA FiniteParts ==
    ASSUME NEW S, S \subseteq C!Nodes
    PROVE  IsFiniteSet(S) /\ Cardinality(S) \in Nat
  <1>1. IsFiniteSet(C!Nodes)
    <2>1. \A x, y : IsFiniteSet({x, y})
      <3>. SUFFICES ASSUME NEW x, NEW y PROVE IsFiniteSet({x, y})
        OBVIOUS
      <3>1. IsFiniteSet({x}) /\ IsFiniteSet({y})
        BY FS_Singleton
      <3>2. IsFiniteSet({x} \cup {y})
        BY <3>1, FS_Union
      <3>3. {x} \cup {y} = {x, y}
        OBVIOUS
      <3>. QED  BY <3>2, <3>3
    <2>2. IsFiniteSet({"planner", "patcher"} \cup {"verifier", "reviewer"})
      BY <2>1, FS_Union
    <2>3. IsFiniteSet({"onboarding", "reproduction"} \cup ({"planner", "patcher"} \cup {"verifier", "reviewer"}))
      BY <2>1, <2>2, FS_Union
    <2>4. C!Nodes = {"onboarding", "reproduction"} \cup ({"planner", "patcher"} \cup {"verifier", "reviewer"})
      BY NodesAre
    <2>. QED  BY <2>3, <2>4
  <1>. QED
    BY <1>1, FS_Subset, FS_CardinalityType

\* A set of nodes is no larger than one that includes it.
LEMMA NoMore ==
    ASSUME NEW S, NEW T, S \subseteq T, T \subseteq C!Nodes, NEW n \in Nat, Cardinality(T) <= n
    PROVE  Cardinality(S) <= n
  <1>1. IsFiniteSet(T) /\ Cardinality(T) \in Nat
    BY FiniteParts
  <1>2. Cardinality(S) <= Cardinality(T) /\ Cardinality(S) \in Nat
    BY <1>1, FS_Subset, FS_CardinalityType
  <1>. QED
    BY <1>1, <1>2

\* A set of nodes is larger by one at most than one that includes the rest of it.
LEMMA OneMore ==
    ASSUME NEW S, NEW T, NEW node \in C!Nodes, S \subseteq T \cup {node}, T \subseteq C!Nodes, NEW n \in Nat,
           Cardinality(T) <= n
    PROVE  Cardinality(S) <= n + 1
  <1>1. IsFiniteSet(T) /\ Cardinality(T) \in Nat
    BY FiniteParts
  <1>2. IsFiniteSet(T \cup {node}) /\ Cardinality(T \cup {node}) \in Nat
    BY FiniteParts
  <1>3. Cardinality(T \cup {node}) <= Cardinality(T) + 1
    BY <1>1, FS_AddElement
  <1>4. Cardinality(S) <= Cardinality(T \cup {node}) /\ Cardinality(S) \in Nat
    BY <1>2, FS_Subset, FS_CardinalityType
  <1>. QED
    BY <1>1, <1>2, <1>3, <1>4

\* A run that begins.
LEMMA CliInit == C!Init => CliInv
  <1>. SUFFICES ASSUME C!Init PROVE CliInv
    OBVIOUS
  <1>1. /\ fallback \in BOOLEAN
        /\ record = [status |-> "running", completed |-> {}, retries |-> 0]
        /\ checkpoint = C!NoState /\ state = C!NoState
        /\ verified = FALSE /\ early = {} /\ resumes = 0 /\ cliCrashes = 0 /\ rewalked = FALSE
    BY DEF C!Init
  <1>2. PICK parallel, fast \in BOOLEAN : walk = C!Walk(parallel, C!Groups(parallel, fast))
    BY DEF C!Init
  <1>. DEFINE g == C!Groups(parallel, fast)
  <1>3. Covers(g, parallel, {})
    <2>1. CASE parallel
      BY <2>1, ParallelGroups
    <2>2. CASE ~parallel
      <3>. DEFINE s == IF fast THEN C!Resumable ELSE C!Sequence
      <3>1. InOrder(s)
        BY SequenceInOrder, ResumableInOrder
      <3>2. g = [i \in DOMAIN s |-> {s[i]}]
        BY <2>2 DEF C!Groups
      <3>. HIDE DEF g, s
      <3>3. Covers(g, FALSE, {})
        BY <3>1, <3>2, WholeGraph
      <3>4. parallel = FALSE
        BY <2>2
      <3>. QED  BY <3>3, <3>4
    <2>. QED  BY <2>1, <2>2
  <1>. HIDE DEF g
  <1>4. /\ g \in Seq(SUBSET C!Nodes) /\ VerifierLast(g) /\ (~parallel => OneByOne(g))
        /\ \A i \in DOMAIN g : "verifier" \in g[i] => \A node \in Earlier : \E j \in 1 .. i - 1 : node \in g[j]
        /\ \A node \in C!Nodes \ {"planner"} : \E i \in DOMAIN g : node \in g[i]
    BY <1>3 DEF Covers
  <1>5. /\ walk \in Walks
        /\ walk.stage = "group" /\ walk.parallel = parallel /\ walk.left = g /\ walk.running = {}
        /\ walk.skipped = C!Nodes \ UNION {g[i] : i \in DOMAIN g}
    BY <1>2, <1>4, WalkBegins DEF g
  <1>6. CliTypes
    BY <1>1, <1>5 DEF CliTypes, Records, States, C!NoState
  <1>7. OneEach
    <2>1. walk.skipped \ (state.out \cup early \cup {"planner"}) = {}
      BY <1>4, <1>5
    <2>2. Missing(state) = {} /\ Missing(checkpoint) = {}
      BY <1>1 DEF Missing
    <2>3. Cardinality({}) = 0
      BY FS_EmptySet
    <2>. QED  BY CliSize, <1>1, <2>1, <2>2, <2>3 DEF OneEach, C!SkipsWhatRan
  <1>8. Tries
    BY <1>1, CliAssumption DEF Tries
  <1>9. Ordered
    BY <1>1, <1>4, <1>5 DEF Ordered, Ahead
  <1>10. Current
    BY <1>1, <1>5 DEF Current, Passing, C!NoState
  <1>. QED
    BY <1>6, <1>7, <1>8, <1>9, <1>10 DEF CliInv

\* The groups of a walk, its first one and those after it.
LEMMA LeftAre ==
    ASSUME CliTypes
    PROVE  /\ walk.left \in Seq(SUBSET C!Nodes) /\ Len(walk.left) \in Nat
           /\ DOMAIN walk.left = 1 .. Len(walk.left)
           /\ walk.left # <<>> =>
                /\ Len(walk.left) >= 1
                /\ Head(walk.left) = walk.left[1] /\ Head(walk.left) \subseteq C!Nodes
                /\ Tail(walk.left) \in Seq(SUBSET C!Nodes)
                /\ DOMAIN Tail(walk.left) = 1 .. Len(walk.left) - 1
                /\ \A i \in 1 .. Len(walk.left) - 1 : Tail(walk.left)[i] = walk.left[i + 1]
  <1>. DEFINE T == SUBSET C!Nodes
              remaining == walk.left
  <1>1. remaining \in Seq(T)
    BY DEF CliTypes, Walks
  <1>. HIDE DEF T, remaining
  <1>2. Len(remaining) \in Nat /\ DOMAIN remaining = 1 .. Len(remaining)
    BY <1>1, LenProperties
  <1>3. ASSUME remaining # <<>>
        PROVE  /\ Len(remaining) >= 1
               /\ Head(remaining) = remaining[1] /\ Head(remaining) \in T /\ Tail(remaining) \in Seq(T)
               /\ Len(Tail(remaining)) = Len(remaining) - 1
               /\ \A i \in 1 .. Len(remaining) - 1 : Tail(remaining)[i] = remaining[i + 1]
    <2>1. Len(remaining) \in Nat \ {0}
      BY <1>1, <1>3, EmptySeq
    <2>2. /\ Head(remaining) \in T /\ Tail(remaining) \in Seq(T) /\ Len(Tail(remaining)) = Len(remaining) - 1
          /\ \A i \in 1 .. Len(Tail(remaining)) : Tail(remaining)[i] = remaining[i + 1]
      BY <1>1, <1>3, HeadTailProperties
    <2>3. Head(remaining) = remaining[1]
      BY <1>1, <1>3
    <2>. QED  BY <2>1, <2>2, <2>3
  <1>4. remaining # <<>> => DOMAIN Tail(remaining) = 1 .. Len(remaining) - 1
    BY <1>3, LenProperties
  <1>. QED
    BY <1>1, <1>2, <1>3, <1>4 DEF T, remaining

\* A group starts; in parallel its nodes are marked as completed at once.
LEMMA StartGroupKeeps == CliInv /\ C!StartGroup => CliInv'
  <1>. SUFFICES ASSUME CliInv, C!StartGroup PROVE CliInv'
    OBVIOUS
  <1>. DEFINE h == Head(walk.left)
              rest == Tail(walk.left)
              n == Len(walk.left)
  <1>0. CliTypes /\ OneEach /\ Tries /\ Ordered /\ Current
    BY DEF CliInv
  <1>1. /\ walk.stage = "group" /\ walk.left # <<>> /\ checkpoint' = state /\ C!Mark
        /\ walk' = [walk EXCEPT !.stage = "run", !.running = h, !.left = rest]
        /\ UNCHANGED <<fallback, state, verified, resumes, cliCrashes, rewalked>>
    BY DEF C!StartGroup
  <1>2. /\ n \in Nat /\ n >= 1 /\ DOMAIN walk.left = 1 .. n
        /\ h = walk.left[1] /\ h \subseteq C!Nodes /\ rest \in Seq(SUBSET C!Nodes)
        /\ DOMAIN rest = 1 .. n - 1 /\ \A i \in 1 .. n - 1 : rest[i] = walk.left[i + 1]
    BY <1>0, <1>1, LeftAre
  <1>. HIDE DEF h, rest, n
  <1>3. /\ walk' \in Walks /\ walk'.stage = "run" /\ walk'.running = h /\ walk'.left = rest
        /\ walk'.parallel = walk.parallel /\ walk'.skipped = walk.skipped
    BY <1>0, <1>1, <1>2 DEF CliTypes, Walks, WalkStages
  <1>4. /\ record' \in Records /\ record'.status = record.status /\ record'.retries = record.retries
        /\ early' \subseteq C!Nodes /\ record.completed \subseteq record'.completed /\ early \subseteq early'
        /\ IF walk.parallel THEN record'.completed = record.completed \cup h /\ early' = early \cup (h \ state.out)
                            ELSE record' = record /\ early' = early
    <2>1. CASE walk.parallel
      BY <1>0, <1>1, <1>2, <2>1 DEF C!Mark, CliTypes, Records, h
    <2>2. CASE ~walk.parallel
      BY <1>0, <1>1, <2>2 DEF C!Mark, CliTypes
    <2>. QED  BY <2>1, <2>2
  <1>5. CliTypes'
    BY <1>0, <1>1, <1>3, <1>4 DEF CliTypes
  <1>6. OneEach'
    <2>1. Missing(checkpoint)' \subseteq Missing(state) /\ Missing(state) \subseteq C!Nodes
      BY <1>0, <1>1, <1>4 DEF Missing, CliTypes, Records
    <2>2. Cardinality(Missing(state)) <= cliCrashes /\ cliCrashes \in Nat
      BY <1>0, <1>1 DEF OneEach, CliTypes
    <2>3. Cardinality(Missing(checkpoint)') <= cliCrashes
      BY <2>1, <2>2, NoMore
    <2>. DEFINE remaining == walk.skipped \ (state.out \cup early \cup {"planner"})
    <2>4. remaining' \subseteq remaining /\ remaining \subseteq C!Nodes /\ Cardinality(remaining) <= cliCrashes
      BY CliSize, <1>0, <1>1, <1>3, <1>4 DEF OneEach, C!SkipsWhatRan, CliTypes, Walks
    <2>. HIDE DEF remaining
    <2>5. Cardinality(remaining') <= cliCrashes
      BY <2>2, <2>4, NoMore
    <2>. QED  BY CliSize, <1>1, <1>3, <2>3, <2>5 DEF OneEach, C!SkipsWhatRan, remaining
  <1>7. Tries'
    BY <1>0, <1>1, <1>4 DEF Tries, Unfinished
  <1>8. /\ VerifierLast(walk.left) /\ walk.running = {}
        /\ ~walk.parallel => OneByOne(walk.left)
        /\ \A i \in 1 .. n : "verifier" \in walk.left[i] =>
              \A node \in Earlier : node \in record.completed \/ \E j \in 1 .. i - 1 : node \in walk.left[j]
        /\ "verifier" \in record.completed => Earlier \subseteq record.completed
    BY <1>0, <1>1, <1>2 DEF Ordered, Unfinished, Ahead
  <1>9. "verifier" \in h => Earlier \subseteq record.completed
    <2>1. 1 \in 1 .. n /\ \A j \in 1 .. 1 - 1 : FALSE
      BY <1>2
    <2>. QED  BY <1>2, <1>8, <2>1
  <1>10. Ordered'
    <2>1. \A i \in DOMAIN rest : i + 1 \in 1 .. n /\ i \in Nat /\ rest[i] = walk.left[i + 1]
      BY <1>2
    <2>2. VerifierLast(rest)
      <3>. SUFFICES ASSUME NEW i \in DOMAIN rest, NEW j \in DOMAIN rest, i <= j, "verifier" \in rest[i]
                    PROVE  "patcher" \notin rest[j] /\ (i < j => "verifier" \notin rest[j])
        BY DEF VerifierLast
      <3>1. i + 1 <= j + 1 /\ (i < j => i + 1 < j + 1)
        BY <2>1
      <3>. QED  BY <1>2, <1>8, <2>1, <3>1 DEF VerifierLast
    <2>3. "verifier" \in h =>
            "patcher" \notin h /\ \A i \in DOMAIN rest : rest[i] \cap {"patcher", "verifier"} = {}
      <3>. SUFFICES ASSUME "verifier" \in walk.left[1]
                    PROVE  /\ "patcher" \notin walk.left[1]
                           /\ \A i \in DOMAIN rest : "patcher" \notin rest[i] /\ "verifier" \notin rest[i]
        BY <1>2
      <3>1. 1 \in DOMAIN walk.left /\ \A i \in DOMAIN rest : 1 < i + 1
        BY <1>2, <2>1
      <3>2. \A i, j \in DOMAIN walk.left :
              (i <= j /\ "verifier" \in walk.left[i])
                => "patcher" \notin walk.left[j] /\ (i < j => "verifier" \notin walk.left[j])
        BY <1>8 DEF VerifierLast
      <3>3. 1 <= 1 /\ "patcher" \notin walk.left[1]
        BY <3>1, <3>2
      <3>4. ASSUME NEW i \in DOMAIN rest PROVE "patcher" \notin rest[i] /\ "verifier" \notin rest[i]
        <4>1. i + 1 \in DOMAIN walk.left /\ 1 <= i + 1 /\ 1 < i + 1 /\ rest[i] = walk.left[i + 1]
          BY <1>2, <2>1
        <4>. QED  BY <3>1, <3>2, <4>1
      <3>. QED  BY <3>3, <3>4
    <2>4. "verifier" \in record'.completed => Earlier \subseteq record'.completed
      BY <1>4, <1>8, <1>9
    <2>5. "verifier" \in h => Earlier \subseteq record'.completed
      BY <1>4, <1>9
    <2>6. walk.parallel => h \subseteq record'.completed
      BY <1>4
    <2>7. ~walk.parallel => OneByOne(rest) /\ \A x, y \in h : x = y
      <3>. SUFFICES ASSUME ~walk.parallel PROVE OneByOne(rest) /\ \A x, y \in h : x = y
        OBVIOUS
      <3>1. \A i \in 1 .. n : \A x, y \in walk.left[i] : x = y
        BY <1>2, <1>8 DEF OneByOne
      <3>2. \A x, y \in h : x = y
        BY <1>2, <3>1
      <3>3. OneByOne(rest)
        BY <2>1, <3>1 DEF OneByOne
      <3>. QED  BY <3>2, <3>3
    <2>8. ASSUME NEW i \in DOMAIN rest, "verifier" \in rest[i], NEW node \in Earlier
          PROVE  node \in record'.completed \cup h \/ \E j \in 1 .. i - 1 : node \in rest[j]
      <3>1. node \in record.completed \/ \E j \in 1 .. (i + 1) - 1 : node \in walk.left[j]
        BY <1>8, <2>1, <2>8
      <3>2. CASE node \in record.completed
        BY <1>4, <3>2
      <3>3. ASSUME NEW j \in 1 .. (i + 1) - 1, node \in walk.left[j]
            PROVE  node \in h \/ \E k \in 1 .. i - 1 : node \in rest[k]
        <4>1. CASE j = 1
          BY <1>2, <3>3, <4>1
        <4>2. CASE j # 1
          <5>1. j - 1 \in 1 .. i - 1 /\ j - 1 \in 1 .. n - 1 /\ (j - 1) + 1 = j
            BY <1>2, <2>1, <4>2
          <5>2. rest[j - 1] = walk.left[j]
            BY <1>2, <5>1
          <5>. QED  BY <3>3, <5>1, <5>2
        <4>. QED  BY <4>1, <4>2
      <3>. QED  BY <3>1, <3>2, <3>3
    <2>. QED
      BY <1>3, <2>2, <2>3, <2>4, <2>5, <2>6, <2>7, <2>8 DEF Ordered, Ahead
  <1>11. Current'
    <2>1. Passing' => Passing
      BY <1>1, <1>3, <1>4 DEF Passing, Walking
    <2>2. (Passing /\ ~rewalked) => Judged'
      <3>. SUFFICES ASSUME Passing, ~rewalked PROVE Judged'
        OBVIOUS
      <3>1. \A i \in 1 .. n : walk.left[i] \cap {"patcher", "verifier"} = {}
        BY <1>0, <1>1, <1>2 DEF Current, Judged, Unfinished
      <3>2. h \cap {"patcher", "verifier"} = {}
        BY <1>2, <3>1
      <3>3. \A i \in DOMAIN rest : rest[i] \cap {"patcher", "verifier"} = {}
        BY <1>2, <3>1
      <3>. QED  BY <1>3, <3>2, <3>3 DEF Judged
    <2>3. (record.status = "verified" /\ ~rewalked) => state.passed
      BY <1>0, <1>1 DEF Current, Walking
    <2>. QED  BY <1>0, <1>1, <1>3, <1>4, <2>1, <2>2, <2>3 DEF Current
  <1>. QED
    BY <1>5, <1>6, <1>7, <1>10, <1>11 DEF CliInv

\* What a step leaves when it saves nothing, marks nothing and starts nothing: the
\* walk has as much to do as before, or nothing.
LEMMA QuietStep ==
    ASSUME CliInv, walk' \in Walks, Walking, walk'.stage # "none",
           walk'.skipped = walk.skipped, walk'.parallel = walk.parallel,
           UNCHANGED <<fallback, checkpoint, state, verified, early, cliCrashes, rewalked>>,
           record' \in Records, record'.completed = record.completed,
           record'.status # "verified" \/ record'.status = record.status,
           Unfinished' => Unfinished /\ walk'.left = walk.left /\ walk'.running \subseteq walk.running,
           Unfinished' => walk.running \subseteq walk'.running \cup record.completed,
           Unfinished' /\ walk'.stage \in {"group", "save"} => walk'.running = {},
           walk'.stage # "summary", walk.stage \in {"save", "group"} => walk'.stage \in {"save", "group"},
           Tries'
    PROVE  CliInv'
  <1>0. CliTypes /\ OneEach /\ Ordered /\ Current
    BY DEF CliInv
  <1>1. CliTypes'
    BY <1>0 DEF CliTypes
  <1>2. OneEach'
    <2>1. Missing(checkpoint)' = Missing(checkpoint) /\ Missing(state)' = Missing(state)
      BY DEF Missing
    <2>2. C!SkipsWhatRan'
      BY <1>0 DEF OneEach, C!SkipsWhatRan
    <2>3. CASE walk.stage \in {"save", "group"}
      BY <1>0, <2>1, <2>2, <2>3 DEF OneEach, Walking
    <2>4. CASE walk.stage \notin {"save", "group"}
      <3>1. Cardinality(Missing(checkpoint)) <= cliCrashes /\ checkpoint.out \subseteq state.out /\ cliCrashes \in Nat
        BY <1>0, <2>4 DEF OneEach, CliTypes
      <3>2. Missing(state) \subseteq Missing(checkpoint) /\ Missing(checkpoint) \subseteq C!Nodes
        BY <1>0, <3>1 DEF Missing, CliTypes, Records
      <3>3. Cardinality(Missing(state)) <= cliCrashes
        BY <3>1, <3>2, NoMore
      <3>4. Cardinality(Missing(checkpoint)) \in Nat
        BY <3>2, FiniteParts
      <3>. QED  BY <2>1, <2>2, <3>1, <3>3, <3>4 DEF OneEach, Walking
    <2>. QED  BY <2>3, <2>4
  <1>3. Ordered'
    <2>1. "verifier" \in record'.completed => Earlier \subseteq record'.completed
      BY <1>0 DEF Ordered
    <2>2. CASE Unfinished'
      <3>1. \A node, i : Ahead(node, i) => Ahead(node, i)'
        BY <2>2 DEF Ahead
      <3>. QED  BY <1>0, <2>1, <2>2, <3>1 DEF Ordered
    <2>. QED  BY <2>1, <2>2 DEF Ordered
  <1>4. Current'
    <2>1. Passing' => Passing
      BY DEF Passing, Walking
    <2>2. Judged => Judged'
      BY DEF Judged
    <2>. QED  BY <1>0, <2>1, <2>2 DEF Current, Walking
  <1>. QED
    BY <1>1, <1>2, <1>3, <1>4 DEF CliInv

\* A node returns its output, which the next save writes.
LEMMA NodeReturnsKeeps == ASSUME CliInv, NEW node \in C!Nodes, C!NodeReturns(node) PROVE CliInv'
  <1>0. CliTypes /\ OneEach /\ Tries /\ Ordered /\ Current
    BY DEF CliInv
  <1>1. PICK passes \in BOOLEAN : C!Returns(node, passes)
    BY DEF C!NodeReturns
  <1>2. /\ walk.stage \in {"run", "retry"} /\ node \in walk.running
        /\ record' = IF walk.parallel THEN record ELSE [record EXCEPT !.completed = @ \cup {node}]
        /\ walk' = [walk EXCEPT !.running = @ \ {node},
                            !.stage = IF walk.parallel THEN "run" ELSE IF walk.stage = "retry" THEN "group" ELSE "save"]
        /\ UNCHANGED <<fallback, checkpoint, early, resumes, cliCrashes, rewalked>>
    BY DEF C!NodeReturns
  <1>. DEFINE st == IF walk.parallel THEN "run" ELSE IF walk.stage = "retry" THEN "group" ELSE "save"
  <1>3. st \in {"run", "group", "save"} /\ (walk.parallel => st = "run") /\ (~walk.parallel => st \in {"group", "save"})
    <2>1. CASE walk.parallel
      BY <2>1
    <2>2. CASE ~walk.parallel /\ walk.stage = "retry"
      BY <2>2
    <2>3. CASE ~walk.parallel /\ walk.stage = "run"
      BY <2>3
    <2>. QED  BY <1>2, <2>1, <2>2, <2>3
  <1>. HIDE DEF st
  <1>4. /\ walk' \in Walks /\ walk'.stage = st /\ walk'.running = walk.running \ {node} /\ walk'.left = walk.left
        /\ walk'.parallel = walk.parallel /\ walk'.skipped = walk.skipped
    <2>1. walk' = [walk EXCEPT !.running = @ \ {node}, !.stage = st]
      BY <1>2 DEF st
    <2>. QED  BY <1>0, <1>3, <2>1 DEF CliTypes, Walks, WalkStages
  <1>5. /\ record' \in Records /\ record'.status = record.status /\ record'.retries = record.retries
        /\ record'.completed = IF walk.parallel THEN record.completed ELSE record.completed \cup {node}
    BY <1>0, <1>2 DEF CliTypes, Records
  <1>6. /\ state' \in States /\ state'.out = state.out \cup {node}
        /\ state'.passed = IF node = "verifier" THEN passes ELSE state.passed
        /\ node = "patcher" => verified' = FALSE
        /\ node = "verifier" => verified' = passes
        /\ node \notin {"patcher", "verifier"} => verified' = verified
        /\ verified' \in BOOLEAN
    BY <1>0, <1>1 DEF C!Returns, CliTypes, States
  <1>7. CliTypes'
    BY <1>0, <1>2, <1>4, <1>5, <1>6 DEF CliTypes
  <1>8. OneEach'
    <2>1. /\ Cardinality(Missing(checkpoint)) <= cliCrashes /\ checkpoint.out \subseteq state.out /\ cliCrashes \in Nat
          /\ Missing(checkpoint) \subseteq C!Nodes
      BY <1>0, <1>2 DEF OneEach, Walking, CliTypes, Missing, Records
    <2>2. checkpoint'.out \subseteq state'.out
      BY <1>2, <1>6, <2>1
    <2>. DEFINE skips == walk.skipped \ (state.out \cup early \cup {"planner"})
    <2>3. skips' \subseteq skips /\ skips \subseteq C!Nodes /\ Cardinality(skips) <= cliCrashes
      BY CliSize, <1>0, <1>2, <1>4, <1>6 DEF OneEach, C!SkipsWhatRan, CliTypes, Walks
    <2>. HIDE DEF skips
    <2>4. Cardinality(skips') <= cliCrashes
      BY <2>1, <2>3, NoMore
    <2>5. C!SkipsWhatRan'
      BY CliSize, <1>2, <2>4 DEF C!SkipsWhatRan, skips
    <2>6. CASE walk.parallel
      <3>1. Missing(checkpoint)' = Missing(checkpoint)
        BY <1>2, <1>5, <2>6 DEF Missing
      <3>. QED  BY <1>2, <1>3, <1>4, <2>1, <2>2, <2>5, <2>6, <3>1 DEF OneEach
    <2>7. CASE ~walk.parallel
      <3>1. Missing(state)' \subseteq Missing(checkpoint) /\ Missing(checkpoint)' \subseteq Missing(checkpoint) \cup {node}
        BY <1>2, <1>5, <1>6, <2>1, <2>7 DEF Missing
      <3>2. Cardinality(Missing(state)') <= cliCrashes /\ Cardinality(Missing(checkpoint)') <= cliCrashes + 1
        BY <2>1, <3>1, NoMore, OneMore
      <3>. QED  BY <1>2, <1>3, <1>4, <2>2, <2>5, <2>7, <3>2 DEF OneEach
    <2>. QED  BY <2>6, <2>7
  <1>9. Tries'
    BY <1>0, <1>2, <1>5 DEF Tries, Unfinished
  <1>10. /\ VerifierLast(walk.left)
         /\ "verifier" \in walk.running =>
              /\ "patcher" \notin walk.running /\ Earlier \subseteq record.completed
              /\ \A i \in DOMAIN walk.left : walk.left[i] \cap {"patcher", "verifier"} = {}
         /\ walk.parallel => walk.running \subseteq record.completed
         /\ ~walk.parallel => OneByOne(walk.left) /\ \A x, y \in walk.running : x = y
         /\ \A i \in DOMAIN walk.left : "verifier" \in walk.left[i] => \A n \in Earlier : Ahead(n, i)
         /\ "verifier" \in record.completed => Earlier \subseteq record.completed
    BY <1>0, <1>2 DEF Ordered, Unfinished
  <1>11. Ordered'
    <2>1. "verifier" \in record'.completed => Earlier \subseteq record'.completed
      BY <1>2, <1>5, <1>10
    <2>2. ~walk.parallel => walk'.running = {}
      BY <1>2, <1>4, <1>10
    <2>3. \A n, i : Ahead(n, i) => Ahead(n, i)'
      <3>1. node \in record'.completed
        BY <1>2, <1>5, <1>10
      <3>. QED  BY <1>4, <1>5, <3>1 DEF Ahead
    <2>4. "verifier" \in walk'.running =>
              /\ "patcher" \notin walk'.running /\ Earlier \subseteq record'.completed
              /\ \A i \in DOMAIN walk'.left : walk'.left[i] \cap {"patcher", "verifier"} = {}
      BY <1>4, <1>5, <1>10
    <2>5. walk.parallel => walk'.running \subseteq record'.completed
      BY <1>4, <1>5, <1>10
    <2>6. walk'.stage \in {"group", "save"} => walk'.running = {}
      BY <1>3, <1>4, <2>2
    <2>. QED  BY <1>4, <1>10, <2>1, <2>2, <2>3, <2>4, <2>5, <2>6 DEF Ordered
  <1>12. Current'
    <2>1. /\ (Passing /\ ~rewalked) => verified /\ "verifier" \in record.completed
                /\ walk.running \cap {"patcher", "verifier"} = {}
                /\ \A i \in DOMAIN walk.left : walk.left[i] \cap {"patcher", "verifier"} = {}
          /\ (record.status = "verified" /\ ~rewalked) => checkpoint.passed
          /\ (checkpoint.passed /\ ~rewalked) => state.passed
      BY <1>0, <1>2 DEF Current, Judged, Unfinished, Walking
    <2>2. Passing <=> (checkpoint.passed \/ state.passed \/ record.status = "verified")
      BY <1>2 DEF Passing, Walking
    <2>3. Passing' <=> (checkpoint.passed \/ state'.passed \/ record.status = "verified")
      BY <1>2, <1>3, <1>4, <1>5 DEF Passing, Walking
    <2>4. CASE node = "verifier"
      <3>1. ASSUME ~rewalked PROVE ~checkpoint.passed /\ record.status # "verified"
        BY <1>2, <2>1, <2>2, <2>4, <3>1
      <3>2. ASSUME ~rewalked, Passing'
            PROVE  verified' /\ "verifier" \in record'.completed /\ Judged'
        <4>1. passes /\ verified'
          BY <1>6, <2>3, <2>4, <3>1, <3>2
        <4>2. "verifier" \in record'.completed
          BY <1>2, <1>5, <1>10, <2>4
        <4>3. /\ walk'.running \cap {"patcher", "verifier"} = {}
              /\ \A i \in DOMAIN walk'.left : walk'.left[i] \cap {"patcher", "verifier"} = {}
          BY <1>2, <1>4, <1>10, <2>4
        <4>. QED  BY <4>1, <4>2, <4>3 DEF Judged
      <3>. QED  BY <1>2, <1>3, <1>4, <1>5, <3>1, <3>2 DEF Current
    <2>5. CASE node # "verifier"
      <3>1. state'.passed = state.passed /\ (Passing' <=> Passing)
        BY <1>6, <2>2, <2>3, <2>5
      <3>2. ASSUME ~rewalked, Passing'
            PROVE  verified' /\ "verifier" \in record'.completed /\ Judged'
        <4>1. node \notin {"patcher", "verifier"}
          BY <1>2, <2>1, <3>1, <3>2
        <4>2. verified' /\ "verifier" \in record'.completed
          BY <1>5, <1>6, <2>1, <3>1, <3>2, <4>1
        <4>3. /\ walk'.running \cap {"patcher", "verifier"} = {}
              /\ \A i \in DOMAIN walk'.left : walk'.left[i] \cap {"patcher", "verifier"} = {}
          BY <1>4, <2>1, <3>1, <3>2
        <4>. QED  BY <4>2, <4>3 DEF Judged
      <3>. QED  BY <1>2, <1>3, <1>4, <1>5, <2>1, <3>1, <3>2 DEF Current
    <2>. QED  BY <2>4, <2>5
  <1>. QED
    BY <1>7, <1>8, <1>9, <1>11, <1>12 DEF CliInv

\* The state is saved after a group (save_checkpoint).
LEMMA SaveKeeps == CliInv /\ C!Save => CliInv'
  <1>. SUFFICES ASSUME CliInv, C!Save PROVE CliInv'
    OBVIOUS
  <1>0. CliTypes /\ OneEach /\ Tries /\ Ordered /\ Current
    BY DEF CliInv
  <1>1. /\ walk.stage = "save" /\ checkpoint' = state /\ walk' = [walk EXCEPT !.stage = "group"]
        /\ UNCHANGED <<fallback, record, state, verified, early, resumes, cliCrashes, rewalked>>
    BY DEF C!Save
  <1>2. /\ walk' \in Walks /\ walk'.stage = "group" /\ walk'.running = walk.running /\ walk'.left = walk.left
        /\ walk'.parallel = walk.parallel /\ walk'.skipped = walk.skipped
    BY <1>0, <1>1 DEF CliTypes, Walks, WalkStages
  <1>3. CliTypes'
    BY <1>0, <1>1, <1>2 DEF CliTypes
  <1>4. OneEach'
    <2>1. Missing(checkpoint)' = Missing(state) /\ Missing(state)' = Missing(state) /\ Missing(state) \subseteq C!Nodes
      BY <1>0, <1>1 DEF Missing, CliTypes, Records
    <2>2. Cardinality(Missing(state)) <= cliCrashes /\ cliCrashes \in Nat /\ Cardinality(Missing(state)) \in Nat
      BY <1>0, <1>1, <2>1, FiniteParts DEF OneEach, CliTypes
    <2>3. C!SkipsWhatRan'
      BY <1>0, <1>1, <1>2 DEF OneEach, C!SkipsWhatRan
    <2>. QED  BY <1>1, <1>2, <2>1, <2>2, <2>3 DEF OneEach
  <1>5. Tries'
    BY <1>0, <1>1 DEF Tries, Unfinished
  <1>6. Ordered'
    <2>1. \A node, i : Ahead(node, i) => Ahead(node, i)'
      BY <1>1, <1>2 DEF Ahead
    <2>. QED  BY <1>0, <1>1, <1>2, <2>1 DEF Ordered, Unfinished
  <1>7. Current'
    <2>1. Passing' => Passing
      BY <1>1, <1>2 DEF Passing, Walking
    <2>2. Judged => Judged'
      BY <1>1, <1>2 DEF Judged, Unfinished
    <2>3. (record.status = "verified" /\ ~rewalked) => state.passed
      BY <1>0, <1>1 DEF Current, Walking
    <2>. QED  BY <1>0, <1>1, <1>2, <2>1, <2>2, <2>3 DEF Current
  <1>. QED
    BY <1>3, <1>4, <1>5, <1>6, <1>7 DEF CliInv

\* A node raises: it is tried again, or the run failed.
LEMMA NodeRaisesKeeps == CliInv /\ C!NodeRaises => CliInv'
  <1>. SUFFICES ASSUME CliInv, C!NodeRaises PROVE CliInv'
    OBVIOUS
  <1>0. CliTypes /\ Tries
    BY DEF CliInv
  <1>1. /\ ~walk.parallel
        /\ UNCHANGED <<fallback, checkpoint, state, verified, early, resumes, cliCrashes, rewalked>>
        /\ \/ walk.stage = "run" /\ C!RetryWithFallback
           \/ /\ walk.stage = "retry" /\ walk' = [walk EXCEPT !.stage = "end", !.running = {}]
              /\ UNCHANGED record
    BY DEF C!NodeRaises
  <1>2. CASE walk.stage = "retry" /\ walk' = [walk EXCEPT !.stage = "end", !.running = {}] /\ UNCHANGED record
    <2>1. /\ walk' \in Walks /\ walk'.stage = "end"
          /\ walk'.parallel = walk.parallel /\ walk'.skipped = walk.skipped
      BY <1>0, <1>2 DEF CliTypes, Walks, WalkStages
    <2>2. Tries'
      BY <1>0, <1>2, <2>1 DEF Tries, Unfinished
    <2>3. record' \in Records
      BY <1>0, <1>2 DEF CliTypes
    <2>. QED  BY <1>1, <1>2, <2>1, <2>2, <2>3, QuietStep DEF Unfinished, Walking
  <1>3. CASE walk.stage = "run" /\ C!RetryWithFallback
    <2>. DEFINE anew == fallback /\ record.retries + 1 <= MaxRetries
    <2>1. /\ record' = [record EXCEPT !.status = "failed", !.retries = @ + 1]
          /\ walk' = IF anew THEN [walk EXCEPT !.stage = "retry"] ELSE [walk EXCEPT !.stage = "end", !.running = {}]
      BY <1>3 DEF C!RetryWithFallback
    <2>2. /\ record' \in Records /\ record'.status = "failed" /\ record'.completed = record.completed
          /\ record'.retries = record.retries + 1
      <3>. DEFINE more == record.retries + 1
      <3>1. record \in Records /\ more \in Nat /\ record' = [record EXCEPT !.status = "failed", !.retries = more]
        BY <1>0, <2>1 DEF CliTypes, Records
      <3>. HIDE DEF more
      <3>2. /\ record' \in Records /\ record'.status = "failed" /\ record'.completed = record.completed
            /\ record'.retries = more
        BY <3>1 DEF Records
      <3>. QED  BY <3>2 DEF more
    <2>3. record.retries \in Nat /\ record.retries <= MaxRetries
      BY <1>0, <1>3 DEF CliTypes, Records, Tries, Unfinished
    <2>4. CASE anew
      <3>1. /\ walk' \in Walks /\ walk'.stage = "retry" /\ walk'.running = walk.running /\ walk'.left = walk.left
            /\ walk'.parallel = walk.parallel /\ walk'.skipped = walk.skipped
        BY <1>0, <2>1, <2>4 DEF CliTypes, Walks, WalkStages
      <3>2. Tries'
        BY <2>2, <2>3, <2>4, CliAssumption DEF Tries
      <3>. QED  BY <1>1, <1>3, <2>2, <3>1, <3>2, QuietStep DEF Unfinished, Walking
    <2>5. CASE ~anew
      <3>1. /\ walk' \in Walks /\ walk'.stage = "end"
            /\ walk'.parallel = walk.parallel /\ walk'.skipped = walk.skipped
        BY <1>0, <2>1, <2>5 DEF CliTypes, Walks, WalkStages
      <3>2. Tries'
        BY <2>2, <2>3, <3>1, CliAssumption DEF Tries, Unfinished
      <3>. QED  BY <1>1, <1>3, <2>2, <3>1, <3>2, QuietStep DEF Unfinished, Walking
    <2>. QED  BY <2>4, <2>5
  <1>. QED
    BY <1>1, <1>2, <1>3

\* A node of a parallel group raises, while others run.
LEMMA NodeRaisesParallelKeeps ==
    ASSUME CliInv, NEW node \in C!Nodes, C!NodeRaisesParallel(node)
    PROVE  CliInv'
  <1>0. CliTypes /\ Tries /\ Ordered
    BY DEF CliInv
  <1>1. /\ walk.parallel /\ walk.stage = "run" /\ node \in walk.running
        /\ walk' = [walk EXCEPT !.running = @ \ {node}, !.failed = @ \cup {node}]
        /\ UNCHANGED <<fallback, record, checkpoint, state, verified, early, resumes, cliCrashes, rewalked>>
    BY DEF C!NodeRaisesParallel
  <1>2. /\ walk' \in Walks /\ walk'.stage = "run" /\ walk'.running = walk.running \ {node} /\ walk'.left = walk.left
        /\ walk'.parallel = walk.parallel /\ walk'.skipped = walk.skipped
    BY <1>0, <1>1 DEF CliTypes, Walks, WalkStages
  <1>3. walk.running \subseteq record.completed
    BY <1>0, <1>1 DEF Ordered, Unfinished
  <1>4. Tries'
    BY <1>0, <1>1, <1>2 DEF Tries, Unfinished
  <1>5. record' \in Records
    BY <1>0, <1>1 DEF CliTypes
  <1>. QED
    BY <1>1, <1>2, <1>3, <1>4, <1>5, QuietStep DEF Unfinished, Walking

\* All nodes of a parallel group are over.
LEMMA GatheredKeeps == CliInv /\ C!Gathered => CliInv'
  <1>. SUFFICES ASSUME CliInv, C!Gathered PROVE CliInv'
    OBVIOUS
  <1>0. CliTypes /\ Tries
    BY DEF CliInv
  <1>1. /\ walk.stage = "run" /\ walk.running = {}
        /\ record' = IF walk.failed = {} THEN record ELSE [record EXCEPT !.status = "failed"]
        /\ walk' = [walk EXCEPT !.stage = "group", !.failed = {}]
        /\ UNCHANGED <<fallback, checkpoint, state, verified, early, resumes, cliCrashes, rewalked>>
    BY DEF C!Gathered
  <1>2. /\ walk' \in Walks /\ walk'.stage = "group" /\ walk'.running = walk.running /\ walk'.left = walk.left
        /\ walk'.parallel = walk.parallel /\ walk'.skipped = walk.skipped
    BY <1>0, <1>1 DEF CliTypes, Walks, WalkStages
  <1>3. /\ record' \in Records /\ record'.completed = record.completed /\ record'.retries = record.retries
        /\ record'.status # "verified" \/ record'.status = record.status
    BY <1>0, <1>1 DEF CliTypes, Records
  <1>4. Tries'
    BY <1>0, <1>1, <1>2, <1>3 DEF Tries, Unfinished
  <1>. QED
    BY <1>1, <1>2, <1>3, <1>4, QuietStep DEF Unfinished, Walking

\* The last save of the walk.
LEMMA LastSaveKeeps == CliInv /\ C!LastSave => CliInv'
  <1>. SUFFICES ASSUME CliInv, C!LastSave PROVE CliInv'
    OBVIOUS
  <1>0. CliTypes /\ OneEach /\ Tries /\ Ordered /\ Current
    BY DEF CliInv
  <1>1. /\ walk.stage \in {"end", "group"} /\ checkpoint' = state
        /\ walk' = [walk EXCEPT !.stage = "summary", !.left = <<>>]
        /\ UNCHANGED <<fallback, record, state, verified, early, resumes, cliCrashes, rewalked>>
    BY DEF C!LastSave
  <1>2. /\ walk' \in Walks /\ walk'.stage = "summary" /\ walk'.skipped = walk.skipped
    <2>. DEFINE none == <<>>
                S == SUBSET C!Nodes
    <2>1. none \in Seq(S)
      OBVIOUS
    <2>. HIDE DEF none
    <2>2. walk \in Walks
      BY <1>0 DEF CliTypes
    <2>3. walk' = [walk EXCEPT !.stage = "summary", !.left = none]
      BY <1>1 DEF none
    <2>4. "summary" \in WalkStages
      BY DEF WalkStages
    <2>. QED  BY <2>1, <2>2, <2>3, <2>4 DEF Walks
  <1>3. CliTypes'
    BY <1>0, <1>1, <1>2 DEF CliTypes
  <1>4. OneEach'
    <2>1. Missing(checkpoint)' = Missing(state) /\ cliCrashes \in Nat
      BY <1>0, <1>1 DEF Missing, CliTypes
    <2>2. Cardinality(Missing(state)) <= cliCrashes
      <3>1. CASE walk.stage = "group"
        BY <1>0, <3>1 DEF OneEach
      <3>2. CASE walk.stage = "end"
        <4>1. Cardinality(Missing(checkpoint)) <= cliCrashes /\ checkpoint.out \subseteq state.out
          BY <1>0, <3>2 DEF OneEach, Walking
        <4>2. Missing(state) \subseteq Missing(checkpoint) /\ Missing(checkpoint) \subseteq C!Nodes
          BY <1>0, <4>1 DEF Missing, CliTypes, Records
        <4>. QED  BY <2>1, <4>1, <4>2, NoMore
      <3>. QED  BY <1>1, <3>1, <3>2
    <2>3. C!SkipsWhatRan'
      BY <1>0, <1>1, <1>2 DEF OneEach, C!SkipsWhatRan
    <2>. QED  BY <1>1, <1>2, <2>1, <2>2, <2>3 DEF OneEach
  <1>5. Tries'
    BY <1>0, <1>1, <1>2 DEF Tries, Unfinished
  <1>6. Ordered'
    BY <1>0, <1>1, <1>2 DEF Ordered, Unfinished
  <1>7. Current'
    <2>1. Passing' => Passing
      BY <1>1, <1>2 DEF Passing, Walking
    <2>2. Judged'
      BY <1>2 DEF Judged, Unfinished
    <2>3. (record.status = "verified" /\ ~rewalked) => state.passed
      BY <1>0, <1>1 DEF Current, Walking
    <2>. QED  BY <1>0, <1>1, <1>2, <2>1, <2>2, <2>3 DEF Current
  <1>. QED
    BY <1>3, <1>4, <1>5, <1>6, <1>7 DEF CliInv

\* The process is gone, with what it had not saved.
LEMMA ProcessEnds ==
    ASSUME CliInv, Walking, walk' = C!NoWalk, state' = C!NoState,
           UNCHANGED <<fallback, checkpoint, verified, early, rewalked>>,
           \/ UNCHANGED record /\ cliCrashes' = cliCrashes + 1
           \/ /\ walk.stage = "summary" /\ cliCrashes' = cliCrashes
              /\ record' = [record EXCEPT !.status = IF state.passed THEN "verified" ELSE "failed"]
    PROVE  CliInv'
  <1>0. CliTypes /\ OneEach /\ Tries /\ Ordered /\ Current
    BY DEF CliInv
  <1>1. walk' \in Walks /\ walk'.stage = "none" /\ walk'.skipped = {}
    BY NoWalkIs
  <1>2. /\ record' \in Records /\ record'.completed = record.completed /\ record'.retries = record.retries
        /\ \/ record' = record
           \/ walk.stage = "summary" /\ (record'.status = "verified" <=> state.passed)
    BY <1>0 DEF CliTypes, Records
  <1>3. CliTypes'
    <2>1. cliCrashes' \in Nat
      BY <1>0 DEF CliTypes
    <2>2. state' \in States
      BY DEF States, C!NoState
    <2>. QED  BY <1>0, <1>1, <1>2, <2>1, <2>2 DEF CliTypes
  <1>4. OneEach'
    <2>1. Missing(checkpoint)' = Missing(checkpoint) /\ Missing(checkpoint) \subseteq C!Nodes /\ cliCrashes \in Nat
      BY <1>0, <1>2 DEF Missing, CliTypes, Records
    <2>2. Cardinality(Missing(checkpoint)) \in Nat
      BY <2>1, FiniteParts
    <2>3. Cardinality(Missing(checkpoint)) <= cliCrashes'
      BY <1>0, <2>1, <2>2 DEF OneEach
    <2>4. C!SkipsWhatRan'
      <3>1. Cardinality({}) = 0
        BY FS_EmptySet
      <3>2. walk'.skipped \ (state'.out \cup early' \cup {"planner"}) = {}
        BY <1>1
      <3>. QED  BY CliSize, <2>1, <3>1, <3>2 DEF C!SkipsWhatRan
    <2>. QED  BY <1>1, <2>1, <2>3, <2>4 DEF OneEach, Walking
  <1>5. Tries'
    BY <1>0, <1>1, <1>2 DEF Tries, Unfinished
  <1>6. Ordered'
    BY <1>0, <1>1, <1>2 DEF Ordered, Unfinished
  <1>7. Current'
    <2>1. walk.stage = "summary" => checkpoint = state
      BY <1>0 DEF Current
    <2>2. Passing' => Passing
      BY <1>1, <1>2, <2>1 DEF Passing, Walking
    <2>3. Judged'
      BY <1>1 DEF Judged, Unfinished
    <2>. QED  BY <1>0, <1>1, <1>2, <2>1, <2>2, <2>3 DEF Current, Walking
  <1>. QED
    BY <1>3, <1>4, <1>5, <1>6, <1>7 DEF CliInv

\* A process resumes the run from its last save.
LEMMA ResumeKeeps == CliInv /\ C!Resume => CliInv'
  <1>. SUFFICES ASSUME CliInv, C!Resume PROVE CliInv'
    OBVIOUS
  <1>. DEFINE point == C!ResumePoint
  <1>0. CliTypes /\ OneEach /\ Tries /\ Ordered /\ Current
    BY DEF CliInv
  <1>1. PICK parallel, fast \in BOOLEAN :
          /\ walk' = C!Walk(parallel, C!From(C!Groups(parallel, fast), parallel, point))
          /\ rewalked' = (rewalked \/ (checkpoint.passed /\ "patcher" \notin walk'.skipped))
    BY DEF C!Resume
  <1>2. /\ walk.stage = "none" /\ record.retries < MaxRetries /\ state' = checkpoint
        /\ UNCHANGED <<fallback, record, checkpoint, verified, early, cliCrashes>>
    BY DEF C!Resume, C!CanResume
  <1>. DEFINE g == C!From(C!Groups(parallel, fast), parallel, point)
              done == record.completed
  <1>3. \/ point = "none" /\ C!Nodes \ {"planner"} \subseteq done
        \/ /\ point \in C!Nodes \ {"planner"} /\ point \notin done
           /\ \A node \in C!Nodes \ {"planner"} : Rank(node) < Rank(point) => node \in done
    BY ResumesAt
  <1>. HIDE DEF point
  <1>4. g = C!From(C!Groups(parallel, fast), parallel, point)
    OBVIOUS
  <1>. HIDE DEF g
  <1>5. /\ Covers(g, parallel, done)
        /\ (parallel \/ point = "none") => \E i \in DOMAIN g : "patcher" \in g[i]
        /\ (~parallel /\ point # "none") => \A i \in DOMAIN g : \A node \in g[i] : Rank(node) >= Rank(point)
    <2>1. \/ point = "none"
          \/ /\ point \in C!Nodes \ {"planner"}
             /\ \A node \in C!Nodes \ {"planner"} : Rank(node) < Rank(point) => node \in done
      BY <1>3
    <2>. HIDE DEF done
    <2>. QED  BY <1>4, <2>1, FromCovers
  <1>6. /\ g \in Seq(SUBSET C!Nodes) /\ VerifierLast(g) /\ (~parallel => OneByOne(g))
        /\ \A i \in DOMAIN g : "verifier" \in g[i] =>
              \A node \in Earlier : node \in done \/ \E j \in 1 .. i - 1 : node \in g[j]
        /\ \A node \in C!Nodes \ {"planner"} : node \in done \/ \E i \in DOMAIN g : node \in g[i]
    BY <1>5 DEF Covers
  <1>7. /\ walk' \in Walks /\ walk'.stage = "group" /\ walk'.parallel = parallel
        /\ walk'.left = g /\ walk'.running = {}
        /\ walk'.skipped = C!Nodes \ UNION {g[i] : i \in DOMAIN g}
    BY <1>1, <1>6, WalkBegins DEF g
  <1>8. rewalked' \in BOOLEAN
    BY <1>0, <1>1 DEF CliTypes
  <1>9. CliTypes'
    BY <1>0, <1>2, <1>7, <1>8 DEF CliTypes
  <1>10. OneEach'
    <2>1. /\ Missing(checkpoint)' = Missing(checkpoint) /\ Missing(state)' = Missing(checkpoint)
          /\ Missing(checkpoint) \subseteq C!Nodes /\ cliCrashes \in Nat
      BY <1>0, <1>2 DEF Missing, CliTypes, Records
    <2>2. Cardinality(Missing(checkpoint)) <= cliCrashes /\ Cardinality(Missing(checkpoint)) \in Nat
      BY <1>0, <1>2, <2>1, FiniteParts DEF OneEach
    <2>. DEFINE skips == walk'.skipped \ (state'.out \cup early' \cup {"planner"})
    <2>3. skips \subseteq Missing(checkpoint)
      BY <1>2, <1>6, <1>7 DEF Missing
    <2>. HIDE DEF skips
    <2>4. Cardinality(skips) <= cliCrashes
      BY <2>1, <2>2, <2>3, NoMore
    <2>5. C!SkipsWhatRan'
      BY CliSize, <1>2, <2>4 DEF C!SkipsWhatRan, skips
    <2>. QED  BY <1>2, <1>7, <2>1, <2>2, <2>5 DEF OneEach, Walking
  <1>11. Tries'
    BY <1>0, <1>2, CliAssumption DEF Tries, CliTypes, Records
  <1>12. Ordered'
    BY <1>0, <1>2, <1>6, <1>7 DEF Ordered, Ahead
  <1>13. Current'
    <2>1. Passing' => Passing
      BY <1>2, <1>7 DEF Passing, Walking
    <2>2. ASSUME Passing, ~rewalked' PROVE Judged'
      <3>1. "verifier" \in done /\ Earlier \subseteq done /\ checkpoint.passed
        BY <1>0, <1>1, <1>2, <2>2 DEF Current, Ordered, Passing, Walking
      <3>2. "patcher" \in walk'.skipped
        BY <1>1, <2>2, <3>1
      <3>3. \A i \in DOMAIN g : "patcher" \notin g[i]
        BY <1>7, <3>2
      <3>4. ~parallel /\ point # "none"
        BY <1>5, <3>3
      <3>5. point = "reviewer"
        BY <1>3, <3>1, <3>4, NodesAre DEF Earlier
      <3>6. \A i \in DOMAIN g : "verifier" \notin g[i]
        <4>1. Rank("verifier") = 5 /\ Rank(point) = 6
          BY <3>5 DEF Rank
        <4>. QED  BY <1>5, <3>4, <4>1
      <3>. QED  BY <1>7, <3>3, <3>6 DEF Judged
    <2>3. ~rewalked' => ~rewalked
      BY <1>1
    <2>4. (record.status = "verified" /\ ~rewalked) => checkpoint.passed
      BY <1>0 DEF Current
    <2>5. (Passing /\ ~rewalked) => verified /\ "verifier" \in done
      BY <1>0 DEF Current
    <2>. QED  BY <1>2, <1>7, <2>1, <2>2, <2>3, <2>4, <2>5 DEF Current
  <1>. QED
    BY <1>9, <1>10, <1>11, <1>12, <1>13 DEF CliInv

\* Every step keeps the invariant.
LEMMA CliKept == CliInv /\ [C!Next]_C!cliVars => CliInv'
  <1>. SUFFICES ASSUME CliInv, [C!Next]_C!cliVars PROVE CliInv'
    OBVIOUS
  <1>1. CASE C!StartGroup \/ C!Save \/ C!NodeRaises \/ C!Gathered \/ C!LastSave \/ C!Resume
    BY <1>1, StartGroupKeeps, SaveKeeps, NodeRaisesKeeps, GatheredKeeps, LastSaveKeeps, ResumeKeeps
  <1>2. CASE C!MarkRunCompleted
    <2>1. /\ walk.stage = "summary" /\ walk' = C!NoWalk /\ state' = C!NoState
          /\ record' = [record EXCEPT !.status = IF state.passed THEN "verified" ELSE "failed"]
          /\ UNCHANGED <<fallback, checkpoint, verified, early, resumes, cliCrashes, rewalked>>
      BY <1>2 DEF C!MarkRunCompleted
    <2>. QED  BY <2>1, ProcessEnds DEF Walking
  <1>3. ASSUME NEW node \in C!Nodes, C!NodeReturns(node) \/ C!NodeRaisesParallel(node) PROVE CliInv'
    BY <1>3, NodeReturnsKeeps, NodeRaisesParallelKeeps
  <1>4. CASE C!Crash
    <2>1. /\ walk.stage # "none" /\ walk' = C!NoWalk /\ state' = C!NoState /\ cliCrashes' = cliCrashes + 1
          /\ UNCHANGED <<fallback, record, checkpoint, verified, early, resumes, rewalked>>
      BY <1>4 DEF C!Crash
    <2>. QED  BY <2>1, ProcessEnds DEF Walking
  <1>5. CASE UNCHANGED C!cliVars
    <2>0. CliTypes /\ OneEach /\ Tries /\ Ordered /\ Current
      BY DEF CliInv
    <2>1. UNCHANGED <<fallback, record, checkpoint, state, walk, verified, early, resumes, cliCrashes, rewalked>>
      BY <1>5 DEF C!cliVars
    <2>2. CliTypes' /\ Tries'
      BY <2>0, <2>1 DEF CliTypes, Tries, Unfinished
    <2>3. OneEach'
      BY <2>0, <2>1 DEF OneEach, Missing, C!SkipsWhatRan, Walking
    <2>4. Ordered'
      <3>1. \A node, i : Ahead(node, i)' <=> Ahead(node, i)
        BY <2>1 DEF Ahead
      <3>. QED  BY <2>0, <2>1, <3>1 DEF Ordered, Unfinished
    <2>5. Current'
      BY <2>0, <2>1 DEF Current, Passing, Judged, Walking, Unfinished
    <2>. QED  BY <2>2, <2>3, <2>4, <2>5 DEF CliInv
  <1>. QED
    BY <1>1, <1>2, <1>3, <1>4, <1>5 DEF C!Next

\* The invariant has all that ResumeSound asks.
LEMMA CliHolds == CliInv => C!ResumeSound
  <1>. SUFFICES ASSUME CliInv PROVE C!ResumeSound
    OBVIOUS
  <1>1. C!SkipsWhatRan
    BY DEF CliInv, OneEach
  <1>2. C!VerifiedIsFresh
    BY DEF CliInv, Current, Passing, C!VerifiedIsFresh
  <1>3. C!RetriesBounded
    BY DEF CliInv, Tries, C!RetriesBounded
  <1>. QED
    BY <1>1, <1>2, <1>3 DEF C!ResumeSound

\* In RunEffects Cli moves as its module says, or not at all.
LEMMA CliBeside == RunEffectsSpec => C!Spec
  <1>1. RunEffectsInit => C!Init
    BY DEF RunEffectsInit
  <1>2. [RunEffectsNext]_runEffects => [C!Next]_C!cliVars
    BY DEF RunEffectsNext, SharedStep, SoloStep, RoutingStep, ContextStep, RepositoryStep, CheckpointsStep,
           CliStep, MergedStep, VerificationStep, VmsStep, runEffects, cli, C!cliVars
  <1>. QED
    BY <1>1, <1>2, PTL DEF RunEffectsSpec, C!Spec

\* ResumeSound: what a resumed walk skips was run and is in the state it loads,
\* but for the planner, nodes marked early and one node for every process that
\* died; a run is recorded as verified only when its last patch was, unless a
\* verified run was walked again; and its retries end one past the limit
\* (_execute_task_graph, RecoveryManager.get_resume_point, mark_run_completed).
THEOREM ResumedIsSound == RunEffectsSpec => []ResumeSound
  <1>1. C!Spec => []C!ResumeSound
    BY CliInit, CliKept, CliHolds, PTL DEF C!Spec
  <1>. QED
    BY <1>1, CliBeside, PTL DEF ResumeSound
=============================================================================
