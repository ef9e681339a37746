-------------------------- MODULE ControlPlaneProofs --------------------------
(***************************************************************************)
(* What the components of the control plane promise, for every value of    *)
(* their constants: a section for each, with the invariant its property    *)
(* rests on, and a theorem about the whole.  A component keeps its         *)
(* promise in ControlPlane because every step there is one of its own or   *)
(* leaves its variables alone.                                             *)
(***************************************************************************)
EXTENDS ControlPlane, DataInduction, FiniteSetTheorems, WellFoundedInduction, TLAPS

----------------------------------------------------------------------------
(* Records of a run (RunRecords) *)

\* What a store may hold, and the stages of an execution.
RecordStages == {"none", "dead", "node", "patch", "pending", "verification", "end", "failed", "done"}
NodeNames == {"reproduction", "patcher", "verifier"}
StepRows == [attempt : Nat, node : NodeNames, status : {"completed", "failed"}, retries : Nat]

Graphs == [attempt : 0 .. MaxAttempts, stage : RecordStages, node : 1 .. 3, retries : Nat,
           left : 0 .. R!VerificationStages]
RunRows == [org : {"none", "own"}, status : R!Final \cup {"none", "queued"}]

RecTypes ==
    /\ run \in RunRows
    /\ api \in {"start", "recorded", "failed", "enqueued"}
    /\ graph \in Graphs
    /\ steps \subseteq StepRows
    /\ patches \in [R!Attempts -> Nat] /\ verifications \in [R!Attempts -> Nat]

\* The row is there before anything could make a placeholder of it.
RowFirst ==
    /\ run = R!NoRow \/ run.org = "own"
    /\ run = R!NoRow => api \in {"start", "failed"}
    /\ api # "enqueued" => graph.attempt = 0
    /\ graph.stage = "none" <=> graph.attempt = 0
    /\ graph.stage = "verification" => graph.left # 0

\* One row for a node of an execution, and nothing yet for executions to come.
OneRow == \A s, t \in steps : s.attempt = t.attempt /\ s.node = t.node => s = t
NothingAhead ==
    /\ \A s \in steps : s.attempt <= graph.attempt
    /\ \A a \in R!Attempts : a > graph.attempt => patches[a] = 0 /\ verifications[a] = 0

Completed(node) ==
    \E s \in steps : s.attempt = graph.attempt /\ s.node = node /\ s.status = "completed"

\* What the walk of an execution that lost no write has left so far.
Walked ==
    LET patched == patches[graph.attempt] = IF Completed("patcher") THEN 1 ELSE 0
        verified == verifications[graph.attempt] =
                        IF Completed("verifier") THEN R!VerificationStages ELSE 0
    IN  /\ graph.stage = "node" =>
             /\ patched /\ verifications[graph.attempt] = 0
             /\ \A n \in graph.node .. 3 : ~Completed(R!Nodes[n])
        /\ graph.stage = "patch" =>
             /\ graph.node = 2 /\ Completed("patcher") /\ ~Completed("verifier")
             /\ patches[graph.attempt] = 0 /\ verifications[graph.attempt] = 0
        /\ graph.stage = "verification" =>
             /\ graph.node = 3 /\ Completed("verifier") /\ patched
             /\ graph.left > 0
             /\ verifications[graph.attempt] = R!VerificationStages - graph.left
        /\ graph.stage \in {"end", "failed", "done"} => patched /\ verified
        /\ graph.stage = "done" => run.status \in R!Final

RecInv ==
    /\ RecTypes /\ RowFirst /\ OneRow /\ NothingAhead
    /\ graph.attempt \notin lost => Walked

\* The size of a set is the same seen from RunRecords.
LEMMA RecordsSize == \A Z : R!Cardinality(Z) = Cardinality(Z)
  BY DEF R!Cardinality, Cardinality

\* The three nodes whose rows matter here, in the order they run.
LEMMA NodesAre ==
    /\ DOMAIN R!Nodes = 1 .. 3 /\ Cardinality(DOMAIN R!Nodes) = 3
    /\ R!Nodes[1] = "reproduction" /\ R!Nodes[2] = "patcher" /\ R!Nodes[3] = "verifier"
<1>1. DOMAIN R!Nodes = 1 .. 3 BY DEF R!Nodes
<1>2. Cardinality(1 .. 3) = 3 BY FS_Interval, 3 - 1 + 1 = 3, 1 \in Int, 3 \in Int, ~(1 > 3)
<1>3. QED BY <1>1, <1>2 DEF R!Nodes

\* The records of no run.
LEMMA RecInit == R!Init => RecInv
BY RecordsAssumption DEF R!Init, RecInv, RecTypes, RowFirst, OneRow, NothingAhead, Walked, R!NoRow, R!Attempts,
    RecordStages, Graphs, RunRows, R!VerificationStages, R!Final

\* What the actions make of the execution is an execution.
LEMMA GraphUpdated ==
    ASSUME NEW g \in Graphs
    PROVE  /\ \A s \in RecordStages : [g EXCEPT !.stage = s] \in Graphs
           /\ \A l \in 0 .. R!VerificationStages : [g EXCEPT !.left = l] \in Graphs
           /\ \A r \in Nat : [g EXCEPT !.retries = r] \in Graphs
           /\ \A s \in RecordStages, l \in 0 .. R!VerificationStages :
                 [g EXCEPT !.stage = s, !.left = l] \in Graphs
           /\ \A s \in RecordStages, n \in 1 .. 3 :
                 [g EXCEPT !.stage = s, !.node = n, !.retries = 0] \in Graphs
           /\ \A a \in 0 .. MaxAttempts, s \in RecordStages : [g EXCEPT !.attempt = a, !.stage = s] \in Graphs
           /\ \A a \in 0 .. MaxAttempts, s \in RecordStages, n \in 1 .. 3 :
                 [g EXCEPT !.attempt = a, !.stage = s, !.node = n, !.retries = 0] \in Graphs
BY DEF Graphs

\* The walk goes to the node after the one it was at, or ends.
LEMMA NextNodeIs ==
    ASSUME NEW g \in Graphs
    PROVE  /\ R!NextNode(g) \in Graphs /\ R!NextNode(g).attempt = g.attempt
           /\ R!NextNode(g).left = g.left
           /\ g.node = 3 => R!NextNode(g).stage = "end"
           /\ g.node # 3 => R!NextNode(g).stage = "node" /\ R!NextNode(g).node = g.node + 1
<1>1. g.node \in 1 .. 3 BY DEF Graphs
<1>2. CASE g.node = 3
    <2>1. R!NextNode(g) = [g EXCEPT !.stage = "end"] BY RecordsSize, <1>2, NodesAre DEF R!NextNode
    <2>2. R!NextNode(g) \in Graphs BY <2>1, GraphUpdated DEF RecordStages
    <2>3. QED BY <1>2, <2>1, <2>2 DEF Graphs
<1>3. CASE g.node # 3
    <2>1. R!NextNode(g) = [g EXCEPT !.stage = "node", !.node = g.node + 1, !.retries = 0]
        BY RecordsSize, <1>3, NodesAre DEF R!NextNode
    <2>2. "node" \in RecordStages /\ g.node + 1 \in 1 .. 3 BY <1>1, <1>3 DEF RecordStages
    <2>3. [g EXCEPT !.stage = "node", !.node = g.node + 1, !.retries = 0] \in Graphs
        BY <2>2, GraphUpdated
    <2>4. QED BY <1>3, <2>1, <2>3 DEF Graphs
<1>4. QED BY <1>2, <1>3

\* The row is there when the graph writes: it makes no placeholder.
LEMMA NoPlaceholder ==
    ASSUME RecInv, graph.stage \notin {"none", "dead"}, R!RecordParent
    PROVE  run' = run
BY DEF RecInv, RecTypes, RowFirst, R!RecordParent

\* Whatever happens, the execution stays one of those of the store.
LEMMA GraphKept == RecInv /\ [R!Next]_R!recordVars => graph' \in Graphs
<1> SUFFICES ASSUME RecInv, [R!Next]_R!recordVars PROVE graph' \in Graphs
    OBVIOUS
<1>1. graph \in Graphs BY DEF RecInv, RecTypes
<1>2. /\ graph.attempt \in 0 .. MaxAttempts /\ graph.retries \in Nat /\ graph.node \in 1 .. 3
      /\ graph.left \in 0 .. R!VerificationStages
    BY <1>1 DEF Graphs
<1>3. /\ "node" \in RecordStages /\ "dead" \in RecordStages /\ "patch" \in RecordStages /\ "pending" \in RecordStages
      /\ "verification" \in RecordStages /\ "failed" \in RecordStages /\ "done" \in RecordStages
    BY DEF RecordStages
<1>4. /\ 0 \in 0 .. R!VerificationStages /\ R!VerificationStages \in 0 .. R!VerificationStages
    BY DEF R!VerificationStages
<1>5. CASE R!Execute
    <2>1. graph.attempt < MaxAttempts BY <1>5 DEF R!Execute
    <2>2. graph.attempt + 1 \in 0 .. MaxAttempts BY <1>2, <2>1, RecordsAssumption
    <2>3. CASE graph' = [graph EXCEPT !.attempt = @ + 1, !.stage = "dead"]
        BY <1>1, <1>3, <2>2, <2>3, GraphUpdated
    <2>4. ASSUME NEW node \in 1 .. 3,
                 graph' = [graph EXCEPT !.attempt = @ + 1, !.stage = "node", !.node = node, !.retries = 0]
          PROVE  graph' \in Graphs
        BY <1>1, <1>3, <2>2, <2>4, GraphUpdated
    <2>5. \A node \in IF graph.attempt = 0 THEN {1} ELSE DOMAIN R!Nodes : node \in 1 .. 3
        BY NodesAre
    <2>6. QED BY <1>5, <2>3, <2>4, <2>5 DEF R!Execute
<1>6. CASE R!NodeCompletes
    BY <1>1, <1>3, <1>4, <1>6, GraphUpdated, NextNodeIs DEF R!NodeCompletes
<1>7. CASE R!NodeFails
    <2>1. graph.retries + 1 \in Nat BY <1>2
    <2>2. QED BY <1>1, <1>3, <1>7, <2>1, GraphUpdated DEF R!NodeFails
<1>8. CASE R!RecordPatch
    BY <1>1, <1>3, <1>8, GraphUpdated, NextNodeIs DEF R!RecordPatch
<1>9. CASE R!RecordVerification
    <2>1. [graph EXCEPT !.left = 0] \in Graphs BY <1>1, <1>4, GraphUpdated
    <2>2. graph.left \in 0 .. R!VerificationStages /\ graph.left # 0
             => graph.left - 1 \in 0 .. R!VerificationStages
        BY DEF R!VerificationStages
    <2>3. CASE graph' = [graph EXCEPT !.left = @ - 1] /\ graph.left # 0
        BY <1>1, <1>2, <2>2, <2>3, GraphUpdated
    <2>4. CASE graph' = R!NextNode([graph EXCEPT !.left = 0])
        BY <2>1, <2>4, NextNodeIs
    <2>5. graph.left # 0 BY <1>9 DEF RecInv, RowFirst, R!RecordVerification, R!Walks
    <2>6. QED BY <1>9, <2>3, <2>4, <2>5 DEF R!RecordVerification
<1>10. CASE R!Finish
    BY <1>1, <1>3, <1>10, GraphUpdated DEF R!Finish
<1>11. CASE R!Die
    BY <1>1, <1>3, <1>4, <1>11, GraphUpdated DEF R!Die
<1>12. CASE UNCHANGED graph
    BY <1>1, <1>12
<1>13. QED
    BY <1>5, <1>6, <1>7, <1>8, <1>9, <1>10, <1>11, <1>12
    DEF R!Next, R!recordVars, R!Submit, R!Enqueue, R!Rollback

\* A status written over the placeholder or the row of the run.
LEMMA RowIs ==
    /\ R!Row("queued") \in RunRows /\ R!Row("queued").org = "own"
    /\ R!Row("merged") \in RunRows /\ R!Row("merged").org = "own"
    /\ R!Row("failed") \in RunRows /\ R!Row("failed").org = "own"
BY DEF R!Row, RunRows, R!Final

\* The rows of a step stay typed, one for a node of an execution.
LEMMA RecordRowsKept == RecInv /\ [R!Next]_R!recordVars => RecTypes' /\ RowFirst' /\ NothingAhead' /\ OneRow'
<1> SUFFICES ASSUME RecInv, [R!Next]_R!recordVars PROVE RecTypes' /\ RowFirst' /\ NothingAhead' /\ OneRow'
    OBVIOUS
<1>0. RecTypes /\ RowFirst /\ NothingAhead /\ OneRow BY DEF RecInv
<1>1. graph \in Graphs /\ graph' \in Graphs BY <1>0, GraphKept DEF RecTypes
<1>2. graph.node \in 1 .. 3 /\ R!Node \in NodeNames BY <1>1, NodesAre DEF Graphs, R!Node, NodeNames
<1>17. \A a \in R!Attempts : patches[a] + 1 \in Nat /\ verifications[a] + 1 \in Nat
    BY <1>0 DEF RecTypes
<1>3. ASSUME UNCHANGED <<run, api, steps, patches, verifications>>,
             graph'.attempt = graph.attempt, graph'.stage # "none", graph.stage # "none",
             graph'.stage = "verification" => graph'.left # 0
      PROVE  RecTypes' /\ RowFirst' /\ NothingAhead' /\ OneRow'
    BY <1>0, <1>1, <1>3 DEF RecTypes, RowFirst, NothingAhead, OneRow
<1>4. CASE R!Submit
    <2>1. graph' = graph /\ UNCHANGED <<steps, patches, verifications>> BY <1>4 DEF R!Submit
    <2>2. \/ run' \in RunRows /\ run'.org = "own" /\ api' = "recorded"
          \/ run' = run /\ api' = "failed" /\ api = "start"
        BY <1>4, RowIs DEF R!Submit, R!RecordRun
    <2>3. run' # R!NoRow \/ api' = "failed" BY <2>2 DEF R!NoRow
    <2>4. RecTypes' BY <1>0, <2>1, <2>2 DEF RecTypes
    <2>5. api = "start" BY <1>4 DEF R!Submit
    <2>6. RowFirst' BY <1>0, <2>1, <2>2, <2>3, <2>5 DEF RowFirst
    <2>7. QED BY <1>0, <2>1, <2>4, <2>6 DEF NothingAhead, OneRow
<1>5. CASE R!Enqueue
    BY <1>0, <1>5 DEF R!Enqueue, RecTypes, RowFirst, NothingAhead, OneRow
<1>6. CASE R!Execute
    <2>1. UNCHANGED <<api, steps, patches, verifications>> /\ api = "enqueued" BY <1>6 DEF R!Execute
    <2>2. run' = run \/ (run' \in RunRows /\ run'.org = "own")
        BY <1>6, RowIs DEF R!Execute, R!RecordRun
    <2>3. graph'.attempt = graph.attempt + 1 /\ graph'.stage \in {"node", "dead"}
        BY <1>1, <1>6 DEF R!Execute, Graphs
    <2>4. RecTypes' BY <1>0, <1>1, <2>1, <2>2 DEF RecTypes
    <2>5. RowFirst' BY <1>0, <1>1, <2>1, <2>2, <2>3 DEF RowFirst, R!NoRow, Graphs
    <2>6. \A s \in steps : s.attempt \in Nat BY <1>0 DEF RecTypes, StepRows
    <2>7. graph.attempt \in Nat /\ \A a \in R!Attempts : a \in Nat
        BY <1>1, RecordsAssumption DEF Graphs, R!Attempts
    <2>8. NothingAhead' BY <1>0, <2>1, <2>3, <2>6, <2>7 DEF NothingAhead
    <2>9. OneRow' BY <1>0, <2>1 DEF OneRow
    <2>10. QED BY <2>4, <2>5, <2>8, <2>9
<1>7. ASSUME NEW status \in {"completed", "failed"}, graph.stage = "node", R!Written(R!RecordStep(status)),
             UNCHANGED api, graph'.attempt = graph.attempt, graph'.stage # "none",
             graph'.stage = "verification" => graph'.left # 0
      PROVE  RecTypes' /\ RowFirst' /\ NothingAhead' /\ OneRow'
    <2>1. CASE UNCHANGED <<run, steps, patches, verifications>>
        BY <1>3, <1>7, <2>1
    <2>2. CASE R!RecordStep(status)
        <3>1. run' = run BY <1>7, <2>2, NoPlaceholder DEF R!RecordStep
        <3> DEFINE row == [attempt |-> graph.attempt, node |-> R!Node, status |-> status,
                           retries |-> graph.retries]
        <3>2. /\ steps' = {s \in steps : s.attempt # graph.attempt \/ s.node # R!Node} \cup {row}
              /\ UNCHANGED <<patches, verifications>>
            BY <2>2 DEF R!RecordStep
        <3>3. row \in StepRows BY <1>1, <1>2 DEF Graphs, StepRows
        <3>4. row.attempt = graph.attempt /\ row.node = R!Node OBVIOUS
        <3> HIDE DEF row
        <3>5. RecTypes' BY <1>0, <1>1, <1>7, <3>1, <3>2, <3>3 DEF RecTypes
        <3>6. RowFirst' BY <1>0, <1>7, <3>1 DEF RowFirst
        <3>7. NothingAhead' BY <1>0, <1>1, <1>7, <3>2, <3>4 DEF NothingAhead, Graphs
        <3>8. OneRow' BY <1>0, <3>2, <3>4 DEF OneRow
        <3>9. QED BY <3>5, <3>6, <3>7, <3>8
    <2>3. QED BY <1>7, <2>1, <2>2 DEF R!Written
<1>8. CASE R!NodeCompletes
    <2>1. graph'.attempt = graph.attempt /\ graph'.stage # "none"
          /\ (graph'.stage = "verification" => graph'.left # 0)
        BY <1>1, <1>8, NextNodeIs DEF R!NodeCompletes, R!Walks, Graphs, R!VerificationStages
    <2>2. QED BY <1>7, <1>8, <2>1 DEF R!NodeCompletes, R!Walks
<1>9. CASE R!NodeFails
    <2>1. graph'.attempt = graph.attempt /\ graph'.stage \in {"node", "failed"}
        BY <1>1, <1>9 DEF R!NodeFails, R!Walks, Graphs
    <2>2. QED BY <1>7, <1>9, <2>1 DEF R!NodeFails, R!Walks
<1>10. CASE R!RecordPatch
    <2>1. graph'.attempt = graph.attempt /\ graph'.stage \in {"node", "end", "pending"}
          /\ graph.stage = "patch"
        BY <1>1, <1>10, NextNodeIs DEF R!RecordPatch, R!Walks, Graphs
    <2>2. CASE UNCHANGED <<run, steps, patches, verifications>>
        BY <1>3, <1>10, <2>1, <2>2 DEF R!RecordPatch
    <2>3. CASE /\ R!RecordParent /\ patches' = [patches EXCEPT ![graph.attempt] = @ + 1]
               /\ UNCHANGED <<steps, verifications>>
        <3>1. run' = run /\ api' = api BY <1>10, <2>1, <2>3, NoPlaceholder DEF R!RecordPatch
        <3>2. patches' \in [R!Attempts -> Nat] BY <1>0, <1>17, <2>3 DEF RecTypes
        <3>3. RecTypes' BY <1>0, <1>1, <2>3, <3>1, <3>2 DEF RecTypes
        <3>4. RowFirst' BY <1>0, <2>1, <3>1 DEF RowFirst
        <3>5. NothingAhead' BY <1>0, <1>1, <2>1, <2>3 DEF NothingAhead, RecTypes, Graphs, R!Attempts
        <3>6. OneRow' BY <1>0, <2>3 DEF OneRow
        <3>7. QED BY <3>3, <3>4, <3>5, <3>6
    <2>4. QED BY <1>10, <2>2, <2>3 DEF R!RecordPatch, R!Written
<1>11. CASE R!RecordVerification
    <2>6. [graph EXCEPT !.left = 0] \in Graphs
        BY <1>1, 0 \in 0 .. R!VerificationStages, GraphUpdated DEF R!VerificationStages
    <2>1. /\ graph.stage = "verification" /\ api' = api /\ graph.left # 0
        BY <1>0, <1>11 DEF R!RecordVerification, R!Walks, RowFirst
    <2>2. /\ graph'.attempt = graph.attempt /\ graph'.stage # "none"
          /\ graph'.stage = "verification" => graph'.left # 0
        BY <1>1, <1>11, <2>1, <2>6, NextNodeIs DEF R!RecordVerification, Graphs
    <2>3. CASE UNCHANGED <<run, steps, patches, verifications>>
        BY <1>3, <2>1, <2>2, <2>3
    <2>4. CASE /\ R!RecordParent /\ verifications' = [verifications EXCEPT ![graph.attempt] = @ + 1]
               /\ UNCHANGED <<steps, patches>>
        <3>1. run' = run BY <2>1, <2>4, NoPlaceholder
        <3>2. verifications' \in [R!Attempts -> Nat] BY <1>0, <1>17, <2>4 DEF RecTypes
        <3>3. RecTypes' BY <1>0, <1>1, <2>1, <2>4, <3>1, <3>2 DEF RecTypes
        <3>4. RowFirst' BY <1>0, <2>1, <2>2, <3>1 DEF RowFirst
        <3>5. NothingAhead' BY <1>0, <1>1, <2>2, <2>4 DEF NothingAhead, RecTypes, Graphs, R!Attempts
        <3>6. OneRow' BY <1>0, <2>4 DEF OneRow
        <3>7. QED BY <3>3, <3>4, <3>5, <3>6
    <2>5. QED BY <1>11, <2>3, <2>4 DEF R!RecordVerification
<1>12. CASE R!Finish
    <2>1. graph'.attempt = graph.attempt /\ graph'.stage = "done" /\ graph.stage \in {"end", "failed"}
        BY <1>1, <1>12 DEF R!Finish, Graphs
    <2>2. run' = run \/ (run' \in RunRows /\ run'.org = "own")
        BY <1>12, RowIs DEF R!Finish, R!Written, R!RecordRun
    <2>3. UNCHANGED <<api, steps, patches, verifications>> BY <1>12 DEF R!Finish, R!Written
    <2>4. RecTypes' BY <1>0, <1>1, <2>2, <2>3 DEF RecTypes
    <2>5. RowFirst' BY <1>0, <2>1, <2>2, <2>3 DEF RowFirst, R!NoRow
    <2>6. QED BY <1>0, <2>1, <2>3, <2>4, <2>5 DEF NothingAhead, OneRow
<1>13. CASE R!Die
    <2>1. graph'.attempt = graph.attempt /\ graph'.stage = "dead" /\ graph.stage # "none"
        BY <1>1, <1>13 DEF R!Die, Graphs
    <2>2. QED BY <1>3, <1>13, <2>1 DEF R!Die
<1>14. CASE R!Rollback
    <2>1. run' \in RunRows /\ run'.org = run.org BY <1>0, <1>14 DEF R!Rollback, RecTypes, RunRows, R!Final
    <2>2. run' # R!NoRow BY <1>0, <1>14, <2>1 DEF R!Rollback, RowFirst, R!NoRow
    <2>3. RecTypes' /\ UNCHANGED <<api, graph, steps, patches, verifications>>
        BY <1>0, <1>14, <2>1 DEF R!Rollback, RecTypes
    <2>4. RowFirst' BY <1>0, <1>14, <2>1, <2>2, <2>3 DEF RowFirst, R!Rollback
    <2>5. QED BY <1>0, <2>3, <2>4 DEF NothingAhead, OneRow
<1>15. CASE UNCHANGED R!recordVars
    BY <1>0, <1>15 DEF R!recordVars, RecTypes, RowFirst, NothingAhead, OneRow
<1>16. QED
    BY <1>4, <1>5, <1>6, <1>8, <1>9, <1>10, <1>11, <1>12, <1>13, <1>14, <1>15 DEF R!Next

\* What Walked asks of an execution that begins.
LEMMA NothingYet ==
    ASSUME RecInv, NEW a \in R!Attempts, a > graph.attempt
    PROVE  patches[a] = 0 /\ verifications[a] = 0 /\ \A s \in steps : s.attempt # a
<1>1. a \in Nat /\ graph.attempt \in Nat
    BY RecordsAssumption DEF R!Attempts, RecInv, RecTypes, Graphs
<1>2. \A s \in steps : s.attempt \in Nat BY DEF RecInv, RecTypes, StepRows
<1>3. QED BY <1>1, <1>2 DEF RecInv, NothingAhead

\* An execution that loses no write leaves what its stage says.
LEMMA WalkedKept ==
    ASSUME RecInv, [R!Next]_R!recordVars, graph'.attempt \notin lost'
    PROVE  Walked'
<1>0. RecTypes /\ RowFirst /\ NothingAhead /\ OneRow BY DEF RecInv
<1>1. graph \in Graphs /\ graph' \in Graphs BY <1>0, GraphKept DEF RecTypes
<1>2. graph.node \in 1 .. 3 /\ graph.left \in 0 .. 5 /\ graph.attempt \in 0 .. MaxAttempts
    BY <1>1 DEF Graphs, R!VerificationStages
<1>3. graph.stage # "none" => graph.attempt \in R!Attempts
    BY <1>0, <1>2, RecordsAssumption DEF RowFirst, R!Attempts
<1>4. ASSUME UNCHANGED <<steps, patches, verifications, graph, lost>>,
             run'.status = run.status \/ run'.status \in R!Final
      PROVE  Walked'
    BY <1>4 DEF RecInv, Walked, Completed
<1>5. CASE R!Submit
    <2>1. graph.stage = "none" BY <1>0, <1>5 DEF R!Submit, RowFirst
    <2>2. QED BY <1>5, <2>1 DEF R!Submit, Walked
<1>6. CASE R!Enqueue \/ UNCHANGED R!recordVars
    BY <1>4, <1>6 DEF R!Enqueue, R!recordVars
<1>7. CASE R!Rollback
    <2>1. run'.status = "rolled_back" BY <1>0, <1>7 DEF R!Rollback, RecTypes, RunRows
    <2>2. QED BY <1>4, <1>7, <2>1 DEF R!Rollback, R!Final
<1>8. CASE R!Execute
    <2>1. UNCHANGED <<steps, patches, verifications>> BY <1>8 DEF R!Execute
    <2>2. graph'.attempt = graph.attempt + 1 /\ graph'.stage \in {"node", "dead"}
        BY <1>1, <1>8 DEF R!Execute, Graphs
    <2>3. graph'.attempt \in R!Attempts /\ graph'.attempt > graph.attempt
        BY <1>1, <1>2, <2>2, RecordsAssumption DEF Graphs, R!Attempts
    <2>4. /\ patches[graph'.attempt] = 0 /\ verifications[graph'.attempt] = 0
          /\ \A s \in steps : s.attempt # graph'.attempt
        BY <2>3, NothingYet
    <2>5. QED BY <2>1, <2>2, <2>4 DEF Walked, Completed
<1>9. CASE R!Die
    <2>1. graph'.stage = "dead" BY <1>1, <1>9 DEF R!Die, Graphs
    <2>2. QED BY <2>1 DEF Walked
<1>10. ASSUME NEW status \in {"completed", "failed"}, graph.stage = "node", graph'.attempt = graph.attempt,
             R!Written(R!RecordStep(status))
      PROVE  /\ run' = run /\ UNCHANGED <<patches, verifications>> /\ Walked
             /\ \A n \in NodeNames :
                   Completed(n)' <=> IF n = R!Node THEN status = "completed" ELSE Completed(n)
    <2> DEFINE row == [attempt |-> graph.attempt, node |-> R!Node, status |-> status,
                       retries |-> graph.retries]
    <2>1. R!RecordStep(status) /\ lost' = lost
        BY <1>10 DEF R!Written
    <2>2. run' = run BY <1>10, <2>1, NoPlaceholder DEF R!RecordStep
    <2>3. /\ steps' = {s \in steps : s.attempt # graph.attempt \/ s.node # R!Node} \cup {row}
          /\ UNCHANGED <<patches, verifications>>
        BY <2>1 DEF R!RecordStep
    <2>4. row.attempt = graph.attempt /\ row.node = R!Node /\ row.status = status OBVIOUS
    <2> HIDE DEF row
    <2>5. ASSUME NEW n \in NodeNames, n = R!Node PROVE Completed(n)' <=> status = "completed"
        BY <1>10, <2>3, <2>4, <2>5 DEF Completed
    <2>6. ASSUME NEW n \in NodeNames, n # R!Node PROVE Completed(n)' <=> Completed(n)
        BY <1>10, <2>3, <2>4, <2>6 DEF Completed
    <2>7. Walked BY <1>10, <2>1 DEF RecInv
    <2>8. QED BY <2>2, <2>3, <2>5, <2>6, <2>7
<1>11. CASE R!NodeCompletes
    <2>0. graph.stage = "node" BY <1>11 DEF R!NodeCompletes, R!Walks
    <2>1. graph'.attempt = graph.attempt
        BY <1>1, <1>11, NextNodeIs DEF R!NodeCompletes, Graphs
    <2>2. /\ run' = run /\ UNCHANGED <<patches, verifications>> /\ Walked
          /\ \A n \in NodeNames : Completed(n)' <=> (n = R!Node \/ Completed(n))
        BY <1>10, <1>11, <2>0, <2>1 DEF R!NodeCompletes
    <2>3. CASE graph.node = 1
        <3>1. R!Node = "reproduction" BY <2>3, NodesAre DEF R!Node
        <3>2. graph' = R!NextNode(graph) BY <1>11, <3>1 DEF R!NodeCompletes
        <3>3. graph'.stage = "node" /\ graph'.node = 2 BY <1>1, <2>3, <3>2, NextNodeIs
        <3>4. ~Completed("patcher") /\ ~Completed("verifier") /\ patches[graph.attempt] = 0
              /\ verifications[graph.attempt] = 0
            BY <2>0, <2>2, <2>3, NodesAre DEF Walked
        <3>5. ~Completed("patcher")' /\ ~Completed("verifier")'
            BY <2>2, <3>1, <3>4 DEF NodeNames
        <3>6. QED BY <2>1, <2>2, <3>3, <3>4, <3>5, NodesAre DEF Walked
    <2>4. CASE graph.node = 2
        <3>1. R!Node = "patcher" BY <2>4, NodesAre DEF R!Node
        <3>2. graph' = [graph EXCEPT !.stage = "patch"] BY <1>11, <3>1 DEF R!NodeCompletes
        <3>3. graph'.stage = "patch" /\ graph'.node = 2 BY <1>1, <2>4, <3>2 DEF Graphs
        <3>4. ~Completed("patcher") /\ ~Completed("verifier") /\ patches[graph.attempt] = 0
              /\ verifications[graph.attempt] = 0
            BY <2>0, <2>2, <2>4, NodesAre DEF Walked
        <3>5. Completed("patcher")' /\ ~Completed("verifier")'
            BY <2>2, <3>1, <3>4 DEF NodeNames
        <3>6. QED BY <2>1, <2>2, <3>3, <3>4, <3>5 DEF Walked
    <2>5. CASE graph.node = 3
        <3>1. R!Node = "verifier" BY <2>5, NodesAre DEF R!Node
        <3>2. graph' = [graph EXCEPT !.stage = "verification", !.left = R!VerificationStages]
            BY <1>11, <3>1 DEF R!NodeCompletes
        <3>3. graph'.stage = "verification" /\ graph'.node = 3 /\ graph'.left = 5
            BY <1>1, <2>5, <3>2 DEF Graphs, R!VerificationStages
        <3>4. /\ patches[graph.attempt] = IF Completed("patcher") THEN 1 ELSE 0
              /\ verifications[graph.attempt] = 0
            BY <2>0, <2>2 DEF Walked
        <3>5. Completed("verifier")' /\ (Completed("patcher")' <=> Completed("patcher"))
            BY <2>2, <3>1 DEF NodeNames
        <3>6. QED BY <2>1, <2>2, <3>3, <3>4, <3>5 DEF Walked, R!VerificationStages
    <2>6. QED BY <1>2, <2>3, <2>4, <2>5
<1>12. CASE R!NodeFails
    <2>0. graph.stage = "node" BY <1>12 DEF R!NodeFails, R!Walks
    <2>1. /\ graph'.attempt = graph.attempt /\ graph'.node = graph.node
          /\ graph'.stage \in {"node", "failed"}
        BY <1>1, <1>12, <2>0 DEF R!NodeFails, Graphs
    <2>2. /\ run' = run /\ UNCHANGED <<patches, verifications>> /\ Walked
          /\ \A n \in NodeNames : Completed(n)' <=> (n # R!Node /\ Completed(n))
        BY <1>10, <1>12, <2>0, <2>1 DEF R!NodeFails
    <2>3. \A n \in graph.node .. 3 : ~Completed(R!Nodes[n]) BY <2>0, <2>2 DEF Walked
    <2>4. R!Node = R!Nodes[graph.node] /\ ~Completed(R!Node) BY <1>2, <2>3 DEF R!Node
    <2>5. \A n \in NodeNames : Completed(n)' <=> Completed(n)
        BY <2>2, <2>4
    <2>6. \A n \in 1 .. 3 : R!Nodes[n] \in NodeNames BY NodesAre DEF NodeNames
    <2>7. ~Completed("verifier") BY <1>2, <2>3, NodesAre
    <2>8. \A n \in graph.node .. 3 : ~Completed(R!Nodes[n])'
        BY <1>2, <2>3, <2>5, <2>6
    <2>9. /\ patches[graph.attempt] = IF Completed("patcher") THEN 1 ELSE 0
          /\ verifications[graph.attempt] = 0
        BY <2>0, <2>2 DEF Walked
    <2>10. (Completed("patcher")' <=> Completed("patcher")) /\ ~Completed("verifier")'
        BY <2>5, <2>7 DEF NodeNames
    <2>11. QED BY <2>1, <2>2, <2>8, <2>9, <2>10 DEF Walked
<1>13. CASE R!RecordPatch
    <2>0. graph.stage = "patch" BY <1>13 DEF R!RecordPatch, R!Walks
    <2>1. graph'.attempt = graph.attempt
        BY <1>1, <1>13, NextNodeIs DEF R!RecordPatch, Graphs
    <2>2. /\ lost' = lost /\ UNCHANGED <<steps, verifications>>
          /\ patches' = [patches EXCEPT ![graph.attempt] = @ + 1]
        BY <1>13, <2>1 DEF R!RecordPatch, R!Written
    <2>3. /\ graph.node = 2 /\ Completed("patcher") /\ ~Completed("verifier")
          /\ patches[graph.attempt] = 0 /\ verifications[graph.attempt] = 0
        BY <2>0, <2>1, <2>2 DEF RecInv, Walked
    <2>4. graph'.stage = "pending" \/ (graph'.stage = "node" /\ graph'.node = 3)
        BY <1>1, <1>13, <2>3, NextNodeIs DEF R!RecordPatch, Graphs
    <2>5. patches'[graph.attempt] = 1 BY <1>0, <1>3, <2>0, <2>2, <2>3 DEF RecTypes
    <2>6. Completed("patcher")' /\ ~Completed("verifier")' BY <2>1, <2>2, <2>3 DEF Completed
    <2>7. QED BY <2>1, <2>2, <2>3, <2>4, <2>5, <2>6, NodesAre DEF Walked
<1>14. CASE R!RecordVerification
    <2>0. graph.stage = "verification" BY <1>14 DEF R!RecordVerification, R!Walks
    <2>1. [graph EXCEPT !.left = 0] \in Graphs
        BY <1>1, 0 \in 0 .. R!VerificationStages, GraphUpdated DEF R!VerificationStages
    <2>2. graph'.attempt = graph.attempt
        BY <1>1, <1>14, <2>1, NextNodeIs DEF R!RecordVerification, Graphs
    <2>3. /\ lost' = lost /\ UNCHANGED <<steps, patches>>
          /\ verifications' = [verifications EXCEPT ![graph.attempt] = @ + 1]
          /\ graph' = IF graph.left = 1 THEN R!NextNode([graph EXCEPT !.left = 0])
                      ELSE [graph EXCEPT !.left = @ - 1]
        BY <1>14, <2>2 DEF R!RecordVerification
    <2>4. /\ graph.node = 3 /\ Completed("verifier")
          /\ patches[graph.attempt] = IF Completed("patcher") THEN 1 ELSE 0
          /\ graph.left > 0 /\ verifications[graph.attempt] = 5 - graph.left
        BY <2>0, <2>2, <2>3 DEF RecInv, Walked, R!VerificationStages
    <2>5. verifications'[graph.attempt] = 5 - graph.left + 1
        BY <1>0, <1>3, <2>0, <2>3, <2>4 DEF RecTypes
    <2>6. Completed("verifier")' /\ (Completed("patcher")' <=> Completed("patcher"))
        BY <2>2, <2>3, <2>4 DEF Completed
    <2>7. CASE graph.left = 1
        <3>1. graph'.stage = "end" BY <1>1, <2>1, <2>3, <2>4, <2>7, NextNodeIs DEF Graphs
        <3>2. verifications'[graph.attempt] = R!VerificationStages
            BY <2>5, <2>7 DEF R!VerificationStages
        <3>3. QED BY <2>2, <2>3, <2>4, <2>6, <3>1, <3>2 DEF Walked
    <2>8. CASE graph.left # 1
        <3>1. graph'.stage = "verification" /\ graph'.node = 3 /\ graph'.left = graph.left - 1
            BY <1>1, <2>0, <2>3, <2>4, <2>8 DEF Graphs
        <3>2. graph'.left > 0 /\ verifications'[graph.attempt] = R!VerificationStages - graph'.left
            BY <1>2, <2>4, <2>5, <2>8, <3>1 DEF R!VerificationStages
        <3>3. QED BY <2>2, <2>3, <2>4, <2>6, <3>1, <3>2 DEF Walked
    <2>9. QED BY <2>7, <2>8
<1>15. CASE R!Finish
    <2>1. graph'.attempt = graph.attempt /\ graph'.stage = "done" /\ graph.stage \in {"end", "failed"}
        BY <1>1, <1>15 DEF R!Finish, Graphs
    <2>2. lost' = lost /\ UNCHANGED <<steps, patches, verifications>> /\ run'.status \in R!Final
        BY <1>15, <2>1 DEF R!Finish, R!Written, R!RecordRun, R!Row, R!Final
    <2>3. Walked BY <2>1, <2>2 DEF RecInv
    <2>4. QED BY <2>1, <2>2, <2>3 DEF Walked, Completed
<1>16. QED
    BY <1>5, <1>6, <1>7, <1>8, <1>9, <1>11, <1>12, <1>13, <1>14, <1>15 DEF R!Next

\* The invariant has all that RecordsComplete asks.
LEMMA RecInvComplete == RecInv => R!RecordsComplete
<1> SUFFICES ASSUME RecInv PROVE R!RecordsComplete
    OBVIOUS
<1>1. run = R!NoRow \/ run.org = "own" BY DEF RecInv, RowFirst
<1>2. ASSUME graph.stage = "done", graph.attempt \notin lost
      PROVE  /\ run.status \in R!Final
             /\ \A s, t \in R!StepsOf(graph.attempt) : s.node = t.node => s = t
             /\ patches[graph.attempt] = Cardinality(R!RowsOf(graph.attempt, "patcher"))
             /\ verifications[graph.attempt] =
                    IF R!RowsOf(graph.attempt, "verifier") # {} THEN R!VerificationStages ELSE 0
    <2>1. Walked BY <1>2 DEF RecInv
    <2>2. \A s, t \in R!StepsOf(graph.attempt) : s.node = t.node => s = t
        BY DEF RecInv, OneRow, R!StepsOf
    <2>3. R!RowsOf(graph.attempt, "verifier") # {} <=> Completed("verifier")
        BY DEF R!RowsOf, R!StepsOf, Completed
    <2>4. Cardinality(R!RowsOf(graph.attempt, "patcher")) = IF Completed("patcher") THEN 1 ELSE 0
        <3>1. CASE Completed("patcher")
            <4>1. PICK s \in R!RowsOf(graph.attempt, "patcher") : TRUE
                BY <3>1 DEF R!RowsOf, R!StepsOf, Completed
            <4>2. R!RowsOf(graph.attempt, "patcher") = {s}
                BY <2>2, <4>1 DEF R!RowsOf
            <4>3. QED BY <3>1, <4>2, FS_Singleton
        <3>2. CASE ~Completed("patcher")
            <4>1. R!RowsOf(graph.attempt, "patcher") = {}
                BY <3>2 DEF R!RowsOf, R!StepsOf, Completed
            <4>2. QED BY <3>2, <4>1, FS_EmptySet
        <3>3. QED BY <3>1, <3>2
    <2>5. QED BY <1>2, <2>1, <2>2, <2>3, <2>4 DEF Walked
<1>3. QED BY RecordsSize, <1>1, <1>2 DEF R!RecordsComplete

\* In the control plane Records moves as its module says, or not at all.
LEMMA RecordsBeside == ControlPlaneSpec => R!Spec
  <1>1. ControlPlaneInit => R!Init
    BY DEF ControlPlaneInit
  <1>2. [ControlPlaneNext]_controlPlane => [R!Next]_R!recordVars
    BY DEF ControlPlaneNext, MeteringStep, IdentityStep, BillingStep, RollupStep, LimiterStep, MemoryStep,
           RecordsStep, SchemaStep, MigrationsStep, PullsStep, controlPlane, records, R!recordVars
  <1>. QED
    BY <1>1, <1>2, PTL DEF ControlPlaneSpec, R!Spec

\* RecordsComplete: the row of a run is never left in the organisation of the
\* placeholder; and whatever died, was retried or was rolled back, a walk that
\* ended without losing a write leaves a final status, one row for every node
\* it ran, one patch for the patcher and every stage of the verifier, and
\* nothing of another walk (RunRecordStore.record_run, record_step,
\* TaskGraph._record_step, _record_patch).
THEOREM RecordsAreComplete == ControlPlaneSpec => []RecordsComplete
  <1>1. RecInv /\ [R!Next]_R!recordVars => RecInv'
    BY RecordRowsKept, WalkedKept DEF RecInv
  <1>2. R!Spec => []R!RecordsComplete
    BY RecInit, <1>1, RecInvComplete, PTL DEF R!Spec
  <1>. QED
    BY <1>2, RecordsBeside, PTL DEF RecordsComplete

----------------------------------------------------------------------------
(* Rate limiter (RateLimiter) *)

\* The size of a set is the same seen from RateLimiter.
LEMMA LimiterSize == \A Z : L!Cardinality(Z) = Cardinality(Z)
  BY DEF L!Cardinality, Cardinality

\* A bounded set of naturals has a greatest element.
LEMMA Greatest ==
    ASSUME NEW m \in Nat, NEW X, X \subseteq 0 .. m, X # {}
    PROVE  \E d \in X : \A e \in X : e <= d
<1> DEFINE T == {m - d : d \in X}
<1>1. T \subseteq Nat
    <2>1. \A d \in X : m - d \in Nat OBVIOUS
    <2>2. QED BY <2>1
<1>2. T # {} OBVIOUS
<1>3. PICK x \in T : \A y \in T : ~(<<y, x>> \in OpToRel(<, Nat))
    BY <1>1, <1>2, WFMin, NatLessThanWellFounded
<1>4. \A y \in T : ~(y < x)
    BY <1>1, <1>3 DEF OpToRel
<1>5. PICK d \in X : x = m - d OBVIOUS
<1>6. ASSUME NEW e \in X PROVE e <= d
    <2>1. m - e \in T OBVIOUS
    <2>2. ~(m - e < m - d) BY <1>4, <1>5, <2>1
    <2>3. d \in 0 .. m /\ e \in 0 .. m OBVIOUS
    <2>4. QED BY <2>2, <2>3
<1>7. QED BY <1>6

\* A set is no larger than one that has a different member for each of its own.
LEMMA NoLarger ==
    ASSUME NEW X, NEW T, IsFiniteSet(T),
           \A s \in X : \E m \in T : m.id = s.id,
           \A s, t \in X : s.id = t.id => s = t
    PROVE  IsFiniteSet(X) /\ Cardinality(X) <= Cardinality(T)
<1> DEFINE f == [s \in X |-> CHOOSE m \in T : m.id = s.id]
<1>1. \A s \in X : f[s] \in T /\ f[s].id = s.id OBVIOUS
<1>2. f \in [X -> T] BY <1>1
<1>3. \A s, t \in X : f[s] = f[t] => s = t BY <1>1
<1>4. f \in Injection(X, T) BY <1>2, <1>3 DEF Injection, IsInjective
<1>5. QED BY <1>4, FS_Injection

Members == [id : Nat, score : Int, replica : Replicas]
Requested == [id : Nat, at : Nat, by : Replicas \cup {"redis"}]

RateTypes ==
    /\ now \in Nat /\ requests \in Nat /\ skew \in [Replicas -> 0 .. MaxSkew]
    /\ zset \subseteq Members /\ IsFiniteSet(zset) /\ answering \subseteq Members
    /\ local \in [Replicas -> SUBSET Members] /\ \A r \in Replicas : IsFiniteSet(local[r])
    /\ served \subseteq Requested /\ IsFiniteSet(served)

\* A request is served once, and not while it is about to be refused.
OnceServed ==
    /\ \A m \in answering : m.id <= requests
    /\ \A m, n \in answering : m.id = n.id => m = n
    /\ \A s \in served : s.id <= requests
    /\ \A s, t \in served : s.id = t.id => s = t
    /\ \A m \in answering, s \in served : m.id # s.id

\* Whoever let a request through remembers it for as long as it counts.
Remembered ==
    \A s \in served :
        /\ s.by = "redis" /\ s.at > now - (Window - L!Drift) =>
              \E m \in zset : m.id = s.id /\ m.score = s.at + skew[m.replica]
        /\ s.by # "redis" /\ s.at > now - Window =>
              \E m \in local[s.by] : m.id = s.id /\ m.score = s.at + skew[s.by]

RateInv == RateTypes /\ OnceServed /\ Remembered /\ L!RateLimitKept

\* The clocks are no further apart than the drift.
LEMMA DriftIs ==
    ASSUME skew \in [Replicas -> 0 .. MaxSkew], NEW a \in Replicas
    PROVE  L!Drift \in 0 .. MaxSkew /\ \A r, s \in Replicas : skew[r] - skew[s] <= L!Drift
<1> DEFINE D == {d \in 0 .. MaxSkew : \E r, s \in Replicas : skew[r] - skew[s] = d}
<1>1. skew[a] - skew[a] = 0 BY LimiterAssumption
<1>2. 0 \in D BY <1>1, LimiterAssumption
<1>3. PICK d \in D : \A e \in D : e <= d BY <1>2, Greatest, LimiterAssumption
<1>4. ASSUME NEW r \in Replicas, NEW s \in Replicas PROVE skew[r] - skew[s] <= d
    <2>1. skew[r] \in 0 .. MaxSkew /\ skew[s] \in 0 .. MaxSkew OBVIOUS
    <2>2. CASE skew[r] - skew[s] \in 0 .. MaxSkew BY <1>3, <2>2
    <2>3. CASE skew[r] - skew[s] \notin 0 .. MaxSkew
        <3>1. skew[r] - skew[s] < 0 BY <2>1, <2>3, LimiterAssumption
        <3>2. QED BY <2>1, <3>1, LimiterAssumption
    <2>4. QED BY <2>2, <2>3
<1>5. \E c \in 0 .. MaxSkew : /\ \E r, s \in Replicas : skew[r] - skew[s] = c
                              /\ \A r, s \in Replicas : skew[r] - skew[s] <= c
    BY <1>3, <1>4
<1>6. QED BY <1>5 DEF L!Drift

\* The greatest drift of two clocks does not change while no clock is set.
LEMMA DriftStays == UNCHANGED skew => L!Drift' = L!Drift
BY DEF L!Drift

\* A purge leaves what counts: in Redis whoever purges, in a list of one's own.
LEMMA PurgeLeaves ==
    ASSUME RateInv, NEW r \in Replicas, NEW s \in served
    PROVE  /\ s.by = "redis" /\ s.at > now - (Window - L!Drift) =>
                 \E m \in L!Live(r) : m.id = s.id /\ m.score = s.at + skew[m.replica]
           /\ s.by = r /\ s.at > now - Window =>
                 \E m \in L!LocalLive(r) : m.id = s.id /\ m.score = s.at + skew[r]
<1>0. RateTypes /\ Remembered BY DEF RateInv
<1>1. skew \in [Replicas -> 0 .. MaxSkew] /\ now \in Nat /\ s \in Requested
    BY <1>0 DEF RateTypes
<1>2. s.at \in Nat /\ skew[r] \in Nat BY <1>1, LimiterAssumption DEF Requested
<1>3. L!Drift \in Nat /\ \A p, q \in Replicas : skew[p] - skew[q] <= L!Drift
    BY <1>1, DriftIs, LimiterAssumption
<1>4. ASSUME s.by = "redis", s.at > now - (Window - L!Drift)
      PROVE  \E m \in L!Live(r) : m.id = s.id /\ m.score = s.at + skew[m.replica]
    <2>1. PICK m \in zset : m.id = s.id /\ m.score = s.at + skew[m.replica]
        BY <1>0, <1>4 DEF Remembered
    <2>2. m.replica \in Replicas BY <1>0 DEF RateTypes, Members
    <2>3. skew[m.replica] \in Nat /\ skew[r] - skew[m.replica] <= L!Drift
        BY <1>1, <1>3, <2>2, LimiterAssumption
    <2>4. m.score > now + skew[r] - Window
        BY <1>1, <1>2, <1>3, <1>4, <2>1, <2>3, LimiterAssumption
    <2>5. m \in L!Live(r) BY <1>1, <1>2, <2>1, <2>3, <2>4, LimiterAssumption DEF L!Live, L!Clock
    <2>6. QED BY <2>1, <2>5
<1>5. ASSUME s.by = r, s.at > now - Window
      PROVE  \E m \in L!LocalLive(r) : m.id = s.id /\ m.score = s.at + skew[r]
    <2>1. s.by # "redis" BY <1>5, LimiterAssumption
    <2>2. PICK m \in local[r] : m.id = s.id /\ m.score = s.at + skew[r]
        BY <1>0, <1>5, <2>1 DEF Remembered
    <2>3. now + skew[r] - m.score < Window BY <1>1, <1>2, <1>5, <2>2, LimiterAssumption
    <2>4. m \in local[r] /\ L!Clock(r) - m.score < Window
        BY <1>1, <1>2, <2>2, <2>3, LimiterAssumption DEF L!Clock
    <2>6. m \in L!LocalLive(r) BY <2>4 DEF L!LocalLive
    <2>5. QED BY <2>2, <2>6
<1>6. QED BY <1>4, <1>5

\* Whoever has room in what it remembers has room in the window.
LEMMA Room ==
    ASSUME RateInv, NEW r \in Replicas
    PROVE  /\ Cardinality(L!Recent("redis", Window - L!Drift)) <= Cardinality(L!Live(r))
           /\ Cardinality(L!Recent(r, Window)) <= Cardinality(L!LocalLive(r))
           /\ Cardinality(L!Live(r)) \in Nat /\ Cardinality(L!LocalLive(r)) \in Nat
<1>0. RateTypes /\ OnceServed BY DEF RateInv
<1>1. IsFiniteSet(L!Live(r)) /\ IsFiniteSet(L!LocalLive(r))
    <2>1. L!Live(r) \subseteq zset /\ L!LocalLive(r) \subseteq local[r] BY DEF L!Live, L!LocalLive
    <2>2. IsFiniteSet(zset) /\ IsFiniteSet(local[r]) BY <1>0 DEF RateTypes
    <2>3. QED BY <2>1, <2>2, FS_Subset
<1>2. \A s, t \in served : s.id = t.id => s = t BY <1>0 DEF OnceServed
<1>3. \A s \in L!Recent("redis", Window - L!Drift) : \E m \in L!Live(r) : m.id = s.id
    BY PurgeLeaves DEF L!Recent
<1>4. \A s \in L!Recent(r, Window) : \E m \in L!LocalLive(r) : m.id = s.id
    BY PurgeLeaves DEF L!Recent
<1>5. /\ \A s, t \in L!Recent("redis", Window - L!Drift) : s.id = t.id => s = t
      /\ \A s, t \in L!Recent(r, Window) : s.id = t.id => s = t
    BY <1>2 DEF L!Recent
<1>6. Cardinality(L!Recent("redis", Window - L!Drift)) <= Cardinality(L!Live(r))
    BY <1>1, <1>3, <1>5, NoLarger
<1>7. Cardinality(L!Recent(r, Window)) <= Cardinality(L!LocalLive(r))
    BY <1>1, <1>4, <1>5, NoLarger
<1>8. QED BY <1>1, <1>6, <1>7, FS_CardinalityType

\* Nothing is served yet.
LEMMA RateInit == L!Init => RateInv
<1> SUFFICES ASSUME L!Init PROVE RateInv
    OBVIOUS
<1>1. zset = {} /\ served = {} /\ answering = {} /\ requests = 0 /\ now = 1 BY DEF L!Init
<1>2. RateTypes BY <1>1, FS_EmptySet DEF L!Init, RateTypes
<1>3. OnceServed /\ Remembered BY <1>1 DEF OnceServed, Remembered
<1>4. \A by, n : L!Recent(by, n) = {} BY <1>1 DEF L!Recent
<1>5. L!RateLimitKept BY LimiterSize, <1>4, FS_EmptySet, LimiterAssumption DEF L!RateLimitKept
<1>6. QED BY <1>2, <1>3, <1>5 DEF RateInv

\* A request that the replica's own list lets through, or does not.
LEMMA FallbackKept ==
    ASSUME RateInv, NEW r \in Replicas, NEW id \in Nat, \A s \in served : s.id # id,
           L!Fallback(r, id), UNCHANGED <<now, skew>>
    PROVE  /\ local' \in [Replicas -> SUBSET Members] /\ \A q \in Replicas : IsFiniteSet(local'[q])
           /\ served' \subseteq Requested /\ IsFiniteSet(served')
           /\ served' = served \/ served' = served \cup {L!Served(id, now, r)}
           /\ \A s \in served' : s.by # "redis" /\ s.at > now - Window =>
                 \E m \in local'[s.by] : m.id = s.id /\ m.score = s.at + skew[s.by]
           /\ L!Recent("redis", Window - L!Drift)' = L!Recent("redis", Window - L!Drift)
           /\ \A q \in Replicas : Cardinality(L!Recent(q, Window)') <= Limit
<1>0. RateTypes /\ Remembered /\ L!RateLimitKept BY DEF RateInv
<1>1. CASE UNCHANGED <<local, served>>
    <2>1. \A by, n : L!Recent(by, n)' = {s \in served : s.by = by /\ s.at > now - n'}
        BY <1>1 DEF L!Recent
    <2>2. L!Recent("redis", Window - L!Drift)' = L!Recent("redis", Window - L!Drift)
        BY <1>1, DriftStays DEF L!Recent
    <2>3. \A q \in Replicas : L!Recent(q, Window)' = L!Recent(q, Window)
        BY <1>1 DEF L!Recent
    <2>4. QED BY LimiterSize, <1>0, <1>1, <2>2, <2>3 DEF RateTypes, Remembered, L!RateLimitKept
<1>2. CASE /\ Cardinality(L!LocalLive(r)) < Limit
           /\ local' = [local EXCEPT ![r] = L!LocalLive(r) \cup {L!Member(id, L!Clock(r), r)}]
           /\ served' = served \cup {L!Served(id, now, r)}
    <2> DEFINE m == L!Member(id, L!Clock(r), r)
               s0 == L!Served(id, now, r)
    <2>1. skew[r] \in Nat /\ now \in Nat BY <1>0, LimiterAssumption DEF RateTypes
    <2>2. m \in Members /\ m.id = id /\ m.score = now + skew[r]
        BY <2>1 DEF Members, L!Member, L!Clock
    <2>3. s0 \in Requested /\ s0.id = id /\ s0.at = now /\ s0.by = r
        BY <2>1 DEF Requested, L!Served
    <2> HIDE DEF m, s0
    <2>4. local' = [local EXCEPT ![r] = L!LocalLive(r) \cup {m}] /\ served' = served \cup {s0}
        BY <1>2 DEF m, s0
    <2>5. L!LocalLive(r) \subseteq local[r] BY DEF L!LocalLive
    <2>6. local' \in [Replicas -> SUBSET Members] BY <1>0, <2>2, <2>4, <2>5 DEF RateTypes
    <2>7. ASSUME NEW q \in Replicas PROVE IsFiniteSet(local'[q])
        <3>1. IsFiniteSet(L!LocalLive(r)) BY <1>0, <2>5, FS_Subset DEF RateTypes
        <3>2. IsFiniteSet(L!LocalLive(r) \cup {m}) BY <3>1, FS_AddElement
        <3>3. local'[q] = IF q = r THEN L!LocalLive(r) \cup {m} ELSE local[q]
            BY <1>0, <2>4 DEF RateTypes
        <3>4. QED BY <1>0, <3>2, <3>3 DEF RateTypes
    <2>8. served' \subseteq Requested /\ IsFiniteSet(served')
        BY <1>0, <2>3, <2>4, FS_AddElement DEF RateTypes
    <2>9. ASSUME NEW s \in served', s.by # "redis", s.at > now - Window
          PROVE  \E x \in local'[s.by] : x.id = s.id /\ x.score = s.at + skew[s.by]
        <3>1. s.by \in Replicas BY <2>8, <2>9 DEF Requested
        <3>2. local'[s.by] = IF s.by = r THEN L!LocalLive(r) \cup {m} ELSE local[s.by]
            BY <1>0, <2>4, <3>1 DEF RateTypes
        <3>3. CASE s = s0 BY <2>2, <2>3, <3>2, <3>3
        <3>4. CASE s \in served /\ s.by = r
            BY <2>9, <3>2, <3>4, PurgeLeaves
        <3>5. CASE s \in served /\ s.by # r
            BY <1>0, <2>9, <3>2, <3>5 DEF Remembered
        <3>6. QED BY <2>4, <3>3, <3>4, <3>5
    <2>10. L!Recent("redis", Window - L!Drift)' = L!Recent("redis", Window - L!Drift)
        BY <2>3, <2>4, DriftStays, LimiterAssumption DEF L!Recent
    <2>11. ASSUME NEW q \in Replicas PROVE Cardinality(L!Recent(q, Window)') <= Limit
        <3>1. CASE q = r
            <4>1. L!Recent(r, Window)' \subseteq L!Recent(r, Window) \cup {s0}
                BY <2>4 DEF L!Recent
            <4>2. L!Recent(r, Window) \subseteq served BY DEF L!Recent
            <4>3. IsFiniteSet(L!Recent(r, Window)) BY <1>0, <4>2, FS_Subset DEF RateTypes
            <4>4. Cardinality(L!Recent(r, Window)) < Limit /\ Cardinality(L!Recent(r, Window)) \in Nat
                BY <1>2, <4>3, Room, FS_CardinalityType, LimiterAssumption
            <4>10. /\ IsFiniteSet(L!Recent(r, Window) \cup {s0})
                   /\ \/ Cardinality(L!Recent(r, Window) \cup {s0}) = Cardinality(L!Recent(r, Window))
                      \/ Cardinality(L!Recent(r, Window) \cup {s0}) = Cardinality(L!Recent(r, Window)) + 1
                BY <4>3, FS_AddElement
            <4>5. /\ IsFiniteSet(L!Recent(r, Window) \cup {s0})
                  /\ Cardinality(L!Recent(r, Window) \cup {s0}) <= Limit
                BY <4>4, <4>10, LimiterAssumption
            <4>6. Cardinality(L!Recent(r, Window)') <= Cardinality(L!Recent(r, Window) \cup {s0})
                BY <4>1, <4>5, FS_Subset
            <4>7. Cardinality(L!Recent(r, Window)') \in Nat
                BY <4>1, <4>5, FS_Subset, FS_CardinalityType
            <4>8. Cardinality(L!Recent(r, Window) \cup {s0}) \in Nat BY <4>5, FS_CardinalityType
            <4>9. QED BY <3>1, <4>5, <4>6, <4>7, <4>8, LimiterAssumption
        <3>2. CASE q # r
            <4>1. L!Recent(q, Window)' = L!Recent(q, Window) BY <2>3, <2>4, <3>2 DEF L!Recent
            <4>2. QED BY LimiterSize, <1>0, <4>1 DEF L!RateLimitKept
        <3>3. QED BY <3>1, <3>2
    <2>12. QED BY <2>4, <2>6, <2>7, <2>8, <2>9, <2>10, <2>11 DEF s0
<1>3. Cardinality(L!LocalLive(r)) < Limit \/ Cardinality(L!LocalLive(r)) >= Limit
    BY Room, LimiterAssumption
<1>4. QED BY LimiterSize, <1>1, <1>2, <1>3 DEF L!Fallback

\* What Redis remembers after a purge is enough, whatever else it holds.
LEMMA RedisKept ==
    ASSUME RateInv, NEW r \in Replicas, UNCHANGED <<now, skew>>,
           zset' = zset \/ L!Live(r) \subseteq zset',
           NEW s \in served, s.by = "redis", s.at > now - (Window - L!Drift)
    PROVE  \E m \in zset' : m.id = s.id /\ m.score = s.at + skew[m.replica]
<1>1. \E m \in zset : m.id = s.id /\ m.score = s.at + skew[m.replica]
    BY DEF RateInv, Remembered
<1>2. \E m \in L!Live(r) : m.id = s.id /\ m.score = s.at + skew[m.replica]
    BY PurgeLeaves
<1>3. QED BY <1>1, <1>2

\* One more request in Redis' window.
LEMMA OneMore ==
    ASSUME RateInv, NEW r \in Replicas, NEW id, Cardinality(L!Live(r)) < Limit,
           served' = served \cup {L!Served(id, now, "redis")}, UNCHANGED <<now, skew>>
    PROVE  L!RateLimitKept'
<1>0. RateTypes /\ L!RateLimitKept BY DEF RateInv
<1> DEFINE s0 == L!Served(id, now, "redis")
           before == L!Recent("redis", Window - L!Drift)
<1>1. s0.by = "redis" BY DEF L!Served
<1>2. L!Recent("redis", Window - L!Drift)' \subseteq before \cup {s0}
    BY DriftStays DEF L!Recent
<1>3. \A q \in Replicas : L!Recent(q, Window)' = L!Recent(q, Window)
    BY <1>1, LimiterAssumption DEF L!Recent
<1> HIDE DEF s0
<1>4. IsFiniteSet(before) BY <1>0, FS_Subset DEF RateTypes, L!Recent
<1>5. Cardinality(before) < Limit /\ Cardinality(before) \in Nat
    BY <1>4, Room, FS_CardinalityType, LimiterAssumption
<1> HIDE DEF before
<1>6. /\ IsFiniteSet(before \cup {s0})
      /\ \/ Cardinality(before \cup {s0}) = Cardinality(before)
         \/ Cardinality(before \cup {s0}) = Cardinality(before) + 1
    BY <1>4, FS_AddElement
<1>7. Cardinality(before \cup {s0}) <= Limit /\ Cardinality(before \cup {s0}) \in Nat
    BY <1>5, <1>6, LimiterAssumption
<1>8. /\ Cardinality(L!Recent("redis", Window - L!Drift)') <= Cardinality(before \cup {s0})
      /\ Cardinality(L!Recent("redis", Window - L!Drift)') \in Nat
    BY <1>2, <1>6, FS_Subset, FS_CardinalityType
<1>9. Cardinality(L!Recent("redis", Window - L!Drift)') <= Limit BY <1>7, <1>8, LimiterAssumption
<1>10. QED BY LimiterSize, <1>0, <1>3, <1>9 DEF L!RateLimitKept

\* Every step keeps the invariant: a request is let through only where a window has room.
LEMMA RateStep == RateInv /\ [L!Next]_L!rateVars => RateInv'
<1> SUFFICES ASSUME RateInv, [L!Next]_L!rateVars PROVE RateInv'
    OBVIOUS
<1>0. RateTypes /\ OnceServed /\ Remembered /\ L!RateLimitKept BY DEF RateInv
<1>1. /\ now \in Nat /\ requests \in Nat /\ skew \in [Replicas -> Nat]
      /\ \A m \in answering : m \in Members /\ m.id \in Nat /\ m.replica \in Replicas
      /\ \A s \in served : s \in Requested /\ s.id \in Nat /\ s.at \in Nat
      /\ zset \subseteq Members
    BY <1>0, LimiterAssumption DEF RateTypes, Members, Requested
<1>2. CASE L!Tick
    <2>1. now' = now + 1 /\ UNCHANGED <<skew, zset, answering, local, served, requests>>
        BY <1>2 DEF L!Tick
    <2>2. RateTypes' BY <1>0, <1>1, <2>1 DEF RateTypes
    <2>3. OnceServed' BY <1>0, <2>1 DEF OnceServed
    <2>4. L!Drift' = L!Drift /\ L!Drift \in Nat
        BY <1>0, <2>1, DriftStays, DriftIs, LimiterAssumption DEF RateTypes
    <2>5. ASSUME NEW s \in served
          PROVE  /\ s.at > now' - (Window - L!Drift) => s.at > now - (Window - L!Drift)
                 /\ s.at > now' - Window => s.at > now - Window
        BY <1>1, <2>1, <2>4, LimiterAssumption
    <2>6. Remembered' BY <1>0, <2>1, <2>4, <2>5 DEF Remembered
    <2>7. /\ L!Recent("redis", Window - L!Drift)' \subseteq L!Recent("redis", Window - L!Drift)
          /\ \A q \in Replicas : L!Recent(q, Window)' \subseteq L!Recent(q, Window)
        BY <2>1, <2>4, <2>5 DEF L!Recent
    <2>8. \A by, n : IsFiniteSet(L!Recent(by, n)) BY <1>0, FS_Subset DEF RateTypes, L!Recent
    <2>9. ASSUME NEW X, NEW T, T \subseteq X, IsFiniteSet(X), Cardinality(X) <= Limit
          PROVE  Cardinality(T) <= Limit
        BY <2>9, FS_Subset, FS_CardinalityType, LimiterAssumption
    <2>10. L!RateLimitKept' BY LimiterSize, <1>0, <2>7, <2>8, <2>9 DEF L!RateLimitKept
    <2>11. QED BY <2>2, <2>3, <2>6, <2>10 DEF RateInv
<1>3. ASSUME NEW r \in Replicas, L!Allow(r) PROVE RateInv'
    <2> DEFINE m == L!Member(requests + 1, L!Clock(r), r)
    <2>1. UNCHANGED <<now, skew, local>> /\ requests' = requests + 1 /\ zset' = L!Live(r) \cup {m}
        BY <1>3 DEF L!Allow
    <2>2. m \in Members /\ m.id = requests + 1 /\ m.score = now + skew[r] /\ m.replica = r
        BY <1>1 DEF Members, L!Member, L!Clock
    <2>3. \/ answering' = answering \cup {m} /\ served' = served
          \/ /\ answering' = answering /\ served' = served \cup {L!Served(requests + 1, now, "redis")}
             /\ ~(Cardinality(L!Live(r)) >= Limit)
        BY LimiterSize, <1>3 DEF L!Allow
    <2> HIDE DEF m
    <2>4. zset' \subseteq Members /\ IsFiniteSet(zset')
        <3>1. L!Live(r) \subseteq zset BY DEF L!Live
        <3>2. IsFiniteSet(L!Live(r)) BY <1>0, <3>1, FS_Subset DEF RateTypes
        <3>3. QED BY <1>1, <2>1, <2>2, <3>1, <3>2, FS_AddElement
    <2>5. L!Drift' = L!Drift BY <2>1, DriftStays
    <2>6. CASE answering' = answering \cup {m} /\ served' = served
        <3>1. RateTypes' BY <1>0, <1>1, <2>1, <2>2, <2>4, <2>6 DEF RateTypes
        <3>2. OnceServed' BY <1>0, <1>1, <2>1, <2>2, <2>6 DEF OnceServed
        <3>3. Remembered' BY <1>0, <2>1, <2>5, <2>6, RedisKept DEF Remembered
        <3>4. L!RateLimitKept' BY <1>0, <2>1, <2>5, <2>6 DEF L!RateLimitKept, L!Recent
        <3>5. QED BY <3>1, <3>2, <3>3, <3>4 DEF RateInv
    <2>7. CASE /\ answering' = answering /\ served' = served \cup {L!Served(requests + 1, now, "redis")}
               /\ ~(Cardinality(L!Live(r)) >= Limit)
        <3> DEFINE s0 == L!Served(requests + 1, now, "redis")
        <3>1. s0 \in Requested /\ s0.id = requests + 1 /\ s0.at = now /\ s0.by = "redis"
            BY <1>1 DEF Requested, L!Served
        <3>2. Cardinality(L!Live(r)) < Limit BY <2>7, Room, LimiterAssumption
        <3>3. L!RateLimitKept' BY <2>1, <2>7, <3>2, OneMore
        <3> HIDE DEF s0
        <3>4. served' = served \cup {s0} BY <2>7 DEF s0
        <3>5. IsFiniteSet(served') BY <1>0, <3>4, FS_AddElement DEF RateTypes
        <3>6. RateTypes' BY <1>0, <1>1, <2>1, <2>4, <2>7, <3>1, <3>4, <3>5 DEF RateTypes
        <3>7. OnceServed' BY <1>0, <1>1, <2>1, <2>7, <3>1, <3>4 DEF OnceServed
        <3>8. \E x \in zset' : x.id = s0.id /\ x.score = s0.at + skew[x.replica]
            BY <2>1, <2>2, <3>1
        <3>9. Remembered' BY <1>0, <2>1, <2>5, <3>1, <3>4, <3>8, RedisKept DEF Remembered
        <3>10. QED BY <3>3, <3>6, <3>7, <3>9 DEF RateInv
    <2>8. QED BY <2>3, <2>6, <2>7
<1>4. ASSUME NEW r \in Replicas, NEW id \in Nat, id <= requests', \A s \in served : s.id # id,
             \A m \in answering' : m.id # id, L!Fallback(r, id), UNCHANGED <<now, skew>>,
             requests' = requests \/ requests' = requests + 1,
             answering' \subseteq answering, zset' \subseteq Members, IsFiniteSet(zset'),
             \A s \in served : s.by = "redis" /\ s.at > now - (Window - L!Drift) =>
                \E m \in zset' : m.id = s.id /\ m.score = s.at + skew[m.replica]
      PROVE  RateInv'
    <2> DEFINE s0 == L!Served(id, now, r)
    <2>1. s0.id = id /\ s0.by = r BY DEF L!Served
    <2>2. /\ local' \in [Replicas -> SUBSET Members] /\ \A q \in Replicas : IsFiniteSet(local'[q])
          /\ served' \subseteq Requested /\ IsFiniteSet(served')
          /\ served' = served \/ served' = served \cup {s0}
          /\ \A s \in served' : s.by # "redis" /\ s.at > now - Window =>
                 \E m \in local'[s.by] : m.id = s.id /\ m.score = s.at + skew[s.by]
          /\ L!Recent("redis", Window - L!Drift)' = L!Recent("redis", Window - L!Drift)
          /\ \A q \in Replicas : Cardinality(L!Recent(q, Window)') <= Limit
        BY <1>4, FallbackKept
    <2> HIDE DEF s0
    <2>3. L!Drift' = L!Drift BY <1>4, DriftStays
    <2>4. requests' \in Nat /\ requests <= requests' BY <1>1, <1>4
    <2>5. RateTypes' BY <1>0, <1>1, <1>4, <2>2, <2>4 DEF RateTypes
    <2>6. OnceServed' 
        <3>1. \A m \in answering' : m.id <= requests' BY <1>0, <1>1, <1>4, <2>4 DEF OnceServed
        <3>2. \A s \in served' : s.id <= requests' BY <1>0, <1>1, <1>4, <2>1, <2>2, <2>4 DEF OnceServed
        <3>3. QED BY <1>0, <1>4, <2>1, <2>2, <3>1, <3>2 DEF OnceServed
    <2>7. Remembered' BY <1>4, <2>1, <2>2, <2>3, LimiterAssumption DEF Remembered
    <2>8. L!RateLimitKept' BY LimiterSize, <1>0, <2>2 DEF L!RateLimitKept
    <2>9. QED BY <2>5, <2>6, <2>7, <2>8 DEF RateInv
<1>5. ASSUME NEW r \in Replicas, L!AllowLocally(r) PROVE RateInv'
    <2> DEFINE m == L!Member(requests + 1, L!Clock(r), r)
    <2>1. /\ UNCHANGED <<now, skew, answering>> /\ requests' = requests + 1
          /\ zset' \in {zset, L!Live(r) \cup {m}} /\ L!Fallback(r, requests + 1)
        BY <1>5 DEF L!AllowLocally
    <2>2. m \in Members BY <1>1 DEF Members, L!Member, L!Clock
    <2> HIDE DEF m
    <2>3. zset' \subseteq Members /\ IsFiniteSet(zset')
        <3>1. L!Live(r) \subseteq zset BY DEF L!Live
        <3>2. IsFiniteSet(L!Live(r)) BY <1>0, <3>1, FS_Subset DEF RateTypes
        <3>3. QED BY <1>0, <1>1, <2>1, <2>2, <3>1, <3>2, FS_AddElement DEF RateTypes
    <2>4. \A s \in served : s.by = "redis" /\ s.at > now - (Window - L!Drift) =>
                \E x \in zset' : x.id = s.id /\ x.score = s.at + skew[x.replica]
        BY <2>1, RedisKept
    <2>5. /\ requests + 1 \in Nat /\ \A s \in served : s.id # requests + 1
          /\ \A x \in answering : x.id # requests + 1
        BY <1>0, <1>1 DEF OnceServed
    <2>6. QED BY <1>1, <1>4, <2>1, <2>3, <2>4, <2>5
<1>6. ASSUME NEW m \in answering, L!RefuseFails(m) PROVE RateInv'
    <2>1. /\ UNCHANGED <<now, skew, requests>> /\ answering' = answering \ {m}
          /\ zset' \in {zset, zset \ {m}} /\ L!Fallback(m.replica, m.id)
        BY <1>6 DEF L!RefuseFails
    <2>2. IsFiniteSet(zset \ {m}) BY <1>0, FS_RemoveElement DEF RateTypes
    <2>3. zset' \subseteq Members /\ IsFiniteSet(zset')
        BY <1>0, <1>1, <2>1, <2>2 DEF RateTypes
    <2>4. \A s \in served : s.by = "redis" /\ s.at > now - (Window - L!Drift) =>
                \E x \in zset' : x.id = s.id /\ x.score = s.at + skew[x.replica]
        BY <1>0, <2>1 DEF Remembered, OnceServed
    <2>5. /\ m.id \in Nat /\ m.id <= requests /\ \A s \in served : s.id # m.id
          /\ \A x \in answering' : x.id # m.id
        BY <1>0, <1>1, <2>1 DEF OnceServed
    <2>6. m.replica \in Replicas BY <1>1
    <2>7. QED BY <1>4, <2>1, <2>3, <2>4, <2>5, <2>6
<1>7. ASSUME NEW m \in answering, L!Refuse(m) \/ L!DieAnswering(m) PROVE RateInv'
    <2>1. /\ UNCHANGED <<now, skew, local, served, requests>> /\ answering' = answering \ {m}
          /\ zset' = zset \/ zset' = zset \ {m}
        BY <1>7 DEF L!Refuse, L!DieAnswering
    <2>2. IsFiniteSet(zset \ {m}) BY <1>0, FS_RemoveElement DEF RateTypes
    <2>3. RateTypes' BY <1>0, <1>1, <2>1, <2>2 DEF RateTypes
    <2>4. OnceServed' BY <1>0, <2>1 DEF OnceServed
    <2>5. L!Drift' = L!Drift BY <2>1, DriftStays
    <2>6. Remembered' BY <1>0, <2>1, <2>5 DEF Remembered, OnceServed
    <2>7. L!RateLimitKept' BY <1>0, <2>1, <2>5 DEF L!RateLimitKept, L!Recent
    <2>8. QED BY <2>3, <2>4, <2>6, <2>7 DEF RateInv
<1>8. CASE UNCHANGED L!rateVars
    <2>1. UNCHANGED <<now, skew, zset, answering, local, served, requests>> BY <1>8 DEF L!rateVars
    <2>2. L!Drift' = L!Drift BY <2>1, DriftStays
    <2>3. L!RateLimitKept' BY <1>0, <2>1, <2>2 DEF L!RateLimitKept, L!Recent
    <2>4. Remembered' BY <1>0, <2>1, <2>2 DEF Remembered
    <2>5. RateTypes' /\ OnceServed' BY <1>0, <2>1 DEF RateTypes, OnceServed
    <2>6. QED BY <2>3, <2>4, <2>5 DEF RateInv
<1>9. QED BY <1>2, <1>3, <1>5, <1>6, <1>7, <1>8 DEF L!Next

\* In the control plane Limiter moves as its module says, or not at all.
LEMMA LimiterBeside == ControlPlaneSpec => L!Spec
  <1>1. ControlPlaneInit => L!Init
    BY DEF ControlPlaneInit
  <1>2. [ControlPlaneNext]_controlPlane => [L!Next]_L!rateVars
    BY DEF ControlPlaneNext, MeteringStep, IdentityStep, BillingStep, RollupStep, LimiterStep, MemoryStep,
           RecordsStep, SchemaStep, MigrationsStep, PullsStep, controlPlane, limiter, L!rateVars
  <1>. QED
    BY <1>1, <1>2, PTL DEF ControlPlaneSpec, L!Spec

\* RateLimitKept: Redis lets at most Limit requests through in a window that is
\* shorter by the difference of the clocks, and each replica that falls back at
\* most Limit on its own, whatever fails, dies or is refused in between
\* (RedisRateLimiter.allow, rate_limit_middleware).
THEOREM RateIsLimited == ControlPlaneSpec => []RateLimitKept
  <1>1. RateInv => L!RateLimitKept
    BY DEF RateInv
  <1>2. L!Spec => []L!RateLimitKept
    BY RateInit, RateStep, <1>1, PTL DEF L!Spec
  <1>. QED
    BY <1>2, LimiterBeside, PTL DEF RateLimitKept

----------------------------------------------------------------------------
(* Usage rollup (Rollup) *)

\* A rollup run: what it has to look at, and what it took from the state file.
RunsOfJob == [stage : {"idle", "next", "warn", "exceed"}, left : SUBSET Orgs, org : SUBSET Orgs,
              level : U!Levels, copy : [Orgs -> U!Levels]]

RollTypes ==
    /\ usage \in [Orgs -> U!Levels] /\ state \in [Orgs -> U!Levels]
    /\ job \in [Jobs -> RunsOfJob]
    /\ warned \in [Orgs -> Nat] /\ exceeded \in [Orgs -> Nat] /\ silent \subseteq Orgs
    /\ repeats \in Nat

\* A run announces one organisation at a time, and each of them once.
OneAtATime ==
    \A j \in Jobs :
        /\ job[j].stage \in {"idle", "next"} => job[j].org = {}
        /\ job[j].stage \in {"warn", "exceed"} => \E o \in Orgs : job[j].org = {o} /\ o \notin job[j].left
        /\ job[j].stage = "idle" => job[j].left = {}

\* Whatever a run or the state file knows of was announced.
KnownOf(o, level) ==
    /\ level >= 1 => warned[o] >= 1
    /\ level >= 2 => exceeded[o] >= 1 \/ o \in silent
Announced ==
    \A o \in Orgs :
        /\ KnownOf(o, state[o])
        /\ \A j \in Jobs :
              /\ KnownOf(o, job[j].copy[o])
              /\ job[j].stage = "exceed" /\ job[j].org = {o} /\ job[j].level >= 1 => warned[o] >= 1

\* Runs that may yet announce that o crossed threshold t, and whether a later
\* one may: it would if a run left a lower level behind than it announced, or
\* if the level is lower now.
Active(j) == job[j].stage # "idle"
Ahead(j, o, t) == o \in job[j].left /\ job[j].copy[o] < t
Announcing(j, o, t) ==
    /\ job[j].org = {o} /\ job[j].copy[o] < t /\ t <= job[j].level
    /\ job[j].stage = "warn" \/ (job[j].stage = "exceed" /\ t = 2)
May(o, t) == {j \in Jobs : Ahead(j, o, t) \/ Announcing(j, o, t)}
Forgets(j, o, t) ==
    \/ job[j].org = {o} /\ job[j].level < t
    \/ job[j].org # {o} /\ o \notin job[j].left /\ job[j].copy[o] < t
Again(o, t) ==
    IF \E j \in Jobs : Active(j)
    THEN \E j \in Jobs : Active(j) /\ ~Ahead(j, o, t) /\ (usage[o] < t \/ Forgets(j, o, t))
    ELSE usage[o] < t \/ state[o] < t
Times(o, t) == IF t = 1 THEN warned[o] ELSE exceeded[o]
Once(o, t) == Times(o, t) + Cardinality(May(o, t)) + (IF Again(o, t) THEN 1 ELSE 0) <= 1 + repeats

RollInv == RollTypes /\ OneAtATime /\ Announced /\ \A o \in Orgs : Once(o, 1) /\ Once(o, 2)

\* No crossing is announced and no run has begun.
LEMMA RollInit == U!Init => RollInv
<1> SUFFICES ASSUME U!Init PROVE RollInv
    OBVIOUS
<1>1. /\ usage = [o \in Orgs |-> 0] /\ state = [o \in Orgs |-> 0]
      /\ warned = [o \in Orgs |-> 0] /\ exceeded = [o \in Orgs |-> 0]
      /\ silent = {} /\ repeats = 0
    BY DEF U!Init
<1>2. \A j \in Jobs : job[j] = U!Idle BY DEF U!Init
<1>3. /\ U!Idle \in RunsOfJob /\ U!Idle.stage = "idle" /\ U!Idle.left = {} /\ U!Idle.org = {}
      /\ \A o \in Orgs : U!Idle.copy[o] = 0
    BY DEF U!Idle, RunsOfJob, U!Levels
<1>4. RollTypes BY <1>1, <1>3 DEF U!Init, RollTypes, U!Levels
<1>5. OneAtATime BY <1>2, <1>3 DEF OneAtATime
<1>6. Announced BY <1>1, <1>2, <1>3 DEF Announced, KnownOf
<1>7. ASSUME NEW o \in Orgs, NEW t \in {1, 2} PROVE Once(o, t)
    <2>1. May(o, t) = {} BY <1>2, <1>3 DEF May, Ahead, Announcing
    <2>2. Times(o, t) = 0 BY <1>1 DEF Times
    <2>3. QED BY <1>1, <2>1, <2>2, FS_EmptySet DEF Once
<1>8. QED BY <1>4, <1>5, <1>6, <1>7 DEF RollInv

\* A step of run j changes its own place in May and no other.
LEMMA MayChanges ==
    ASSUME NEW j \in Jobs, \A i \in Jobs : i # j => job'[i] = job[i], NEW o, NEW t
    PROVE  /\ Cardinality(May(o, t)) \in Nat /\ Cardinality(May(o, t)') \in Nat
           /\ (j \in May(o, t) <=> j \in May(o, t)') =>
                 Cardinality(May(o, t)') = Cardinality(May(o, t))
           /\ j \in May(o, t) /\ j \notin May(o, t)' =>
                 Cardinality(May(o, t)') = Cardinality(May(o, t)) - 1
           /\ j \notin May(o, t) /\ j \in May(o, t)' =>
                 Cardinality(May(o, t)') = Cardinality(May(o, t)) + 1
<1>1. May(o, t) \subseteq Jobs /\ May(o, t)' \subseteq Jobs BY DEF May
<1>2. IsFiniteSet(May(o, t)) /\ IsFiniteSet(May(o, t)') BY <1>1, RollupAssumption, FS_Subset
<1>3. \A i \in Jobs : i # j => (i \in May(o, t)' <=> i \in May(o, t))
    BY DEF May, Ahead, Announcing
<1> DEFINE X == May(o, t)
           T == May(o, t)'
<1>4. X \subseteq Jobs /\ T \subseteq Jobs /\ IsFiniteSet(X) /\ IsFiniteSet(T)
      /\ \A i \in Jobs : i # j => (i \in T <=> i \in X)
    BY <1>1, <1>2, <1>3
<1> SUFFICES /\ Cardinality(X) \in Nat /\ Cardinality(T) \in Nat
             /\ (j \in X <=> j \in T) => Cardinality(T) = Cardinality(X)
             /\ j \in X /\ j \notin T => Cardinality(T) = Cardinality(X) - 1
             /\ j \notin X /\ j \in T => Cardinality(T) = Cardinality(X) + 1
    OBVIOUS
<1> HIDE DEF X, T
<1>5. Cardinality(X) \in Nat /\ Cardinality(T) \in Nat BY <1>4, FS_CardinalityType
<1>6. ASSUME j \in X <=> j \in T PROVE Cardinality(T) = Cardinality(X)
    <2>1. T = X BY <1>4, <1>6
    <2>2. QED BY <2>1
<1>7. ASSUME j \in X, j \notin T PROVE Cardinality(T) = Cardinality(X) - 1
    <2>1. T = X \ {j} BY <1>4, <1>7
    <2>2. QED BY <1>4, <1>7, <2>1, FS_RemoveElement
<1>8. ASSUME j \notin X, j \in T PROVE Cardinality(T) = Cardinality(X) + 1
    <2>1. T = X \cup {j} BY <1>4, <1>8
    <2>2. QED BY <1>4, <1>8, <2>1, FS_AddElement
<1>9. QED BY <1>5, <1>6, <1>7, <1>8

\* What a step of run j may do to the count.
LEMMA OnceKept ==
    ASSUME RollTypes, RollTypes', NEW j \in Jobs, \A i \in Jobs : i # j => job'[i] = job[i],
           NEW o \in Orgs, NEW t \in {1, 2}, Once(o, t),
           \/ /\ Times(o, t)' = Times(o, t) /\ (Again(o, t)' => Again(o, t)) /\ repeats' >= repeats
              /\ j \in May(o, t)' => j \in May(o, t)
           \/ /\ Times(o, t)' = Times(o, t) /\ j \in May(o, t)' /\ repeats' >= repeats
              /\ ~Again(o, t)' /\ Again(o, t)
           \/ /\ Times(o, t)' = Times(o, t) /\ repeats' >= repeats
              /\ j \in May(o, t) /\ j \notin May(o, t)'
           \/ /\ Times(o, t)' = Times(o, t) + 1 /\ repeats' >= repeats
              /\ j \in May(o, t) /\ j \notin May(o, t)' /\ (Again(o, t)' => Again(o, t))
           \/ /\ Times(o, t)' = Times(o, t) /\ repeats' = repeats + 1
              /\ (Again(o, t)' => Again(o, t)) \/ (j \in May(o, t)' => j \in May(o, t))
    PROVE  Once(o, t)'
<1>1. Times(o, t) \in Nat /\ repeats \in Nat /\ Times(o, t)' \in Nat /\ repeats' \in Nat
    BY DEF RollTypes, Times
<1>2. /\ Cardinality(May(o, t)) \in Nat /\ Cardinality(May(o, t)') \in Nat
      /\ (j \in May(o, t) <=> j \in May(o, t)') =>
            Cardinality(May(o, t)') = Cardinality(May(o, t))
      /\ j \in May(o, t) /\ j \notin May(o, t)' =>
            Cardinality(May(o, t)') = Cardinality(May(o, t)) - 1
      /\ j \notin May(o, t) /\ j \in May(o, t)' =>
            Cardinality(May(o, t)') = Cardinality(May(o, t)) + 1
    BY MayChanges
<1> DEFINE c == Cardinality(May(o, t))
           d == Cardinality(May(o, t)')
           n == IF Again(o, t) THEN 1 ELSE 0
           m == IF Again(o, t)' THEN 1 ELSE 0
<1>3. c \in Nat /\ d \in Nat /\ n \in {0, 1} /\ m \in {0, 1} BY <1>2
<1>4. Times(o, t) + c + n <= 1 + repeats BY DEF Once
<1>5. Once(o, t)' <=> Times(o, t)' + d + m <= 1 + repeats' BY DEF Once
<1>6. (Again(o, t)' => Again(o, t)) => m <= n OBVIOUS
<1>7. (~Again(o, t)' /\ Again(o, t)) => m = 0 /\ n = 1 OBVIOUS
<1>8. /\ d = c \/ d = c - 1 \/ d = c + 1
      /\ (j \in May(o, t)' => j \in May(o, t)) => d <= c
      /\ j \in May(o, t) /\ j \notin May(o, t)' => d = c - 1
    BY <1>2
<1> HIDE DEF c, d, m, n
<1>9. QED BY <1>1, <1>3, <1>4, <1>5, <1>6, <1>7, <1>8

\* The other runs keep what Again and Announced say of them.
LEMMA OthersKeep ==
    ASSUME NEW j \in Jobs, \A i \in Jobs : i # j => job'[i] = job[i], NEW i \in Jobs, i # j,
           NEW o, NEW t
    PROVE  /\ Active(i)' <=> Active(i)
           /\ Ahead(i, o, t)' <=> Ahead(i, o, t)
           /\ Forgets(i, o, t)' <=> Forgets(i, o, t)
BY DEF Active, Ahead, Forgets

\* While the level of o stays, Again rests on run j alone.
LEMMA AgainKept ==
    ASSUME NEW j \in Jobs, \A i \in Jobs : i # j => job'[i] = job[i], NEW o, NEW t,
           usage'[o] = usage[o], Active(j), Active(j)',
           ~Ahead(j, o, t)' /\ (usage[o] < t \/ Forgets(j, o, t)') =>
              ~Ahead(j, o, t) /\ (usage[o] < t \/ Forgets(j, o, t))
    PROVE  Again(o, t)' => Again(o, t)
BY OthersKeep DEF Again

\* Usage rises or falls while runs are at work.
LEMMA UseStep ==
    ASSUME RollInv, NEW p \in Orgs, NEW level \in U!Levels, U!Use(p, level)
    PROVE  RollInv'
<1>0. RollTypes /\ OneAtATime /\ Announced /\ \A o \in Orgs : Once(o, 1) /\ Once(o, 2)
    BY DEF RollInv
<1>1. UNCHANGED <<state, job, warned, exceeded, silent>> /\ usage' = [usage EXCEPT ![p] = level]
    BY DEF U!Use
<1>2. usage[p] \in 0 .. 3 /\ level \in 0 .. 3 /\ repeats \in Nat BY <1>0 DEF RollTypes, U!Levels
<1>3. \/ level < usage[p] /\ repeats' = repeats + 1
      \/ ~(level < usage[p]) /\ repeats' = repeats
    BY DEF U!Use
<1>4. RollTypes' BY <1>0, <1>1, <1>2, <1>3 DEF RollTypes
<1>5. OneAtATime' /\ Announced' BY <1>0, <1>1 DEF OneAtATime, Announced, KnownOf
<1>6. ASSUME NEW o \in Orgs, NEW t \in {1, 2}, Once(o, t) PROVE Once(o, t)'
    <2>1. Times(o, t)' = Times(o, t) /\ May(o, t)' = May(o, t)
        BY <1>1 DEF Times, May, Ahead, Announcing
    <2>2. IsFiniteSet(May(o, t)) BY RollupAssumption, FS_Subset DEF May
    <2>3. Cardinality(May(o, t)) \in Nat /\ Times(o, t) \in Nat
        BY <1>0, <2>2, FS_CardinalityType DEF RollTypes, Times
    <2>4. CASE repeats' = repeats + 1
        BY <1>2, <1>6, <2>1, <2>3, <2>4 DEF Once
    <2>5. CASE repeats' = repeats /\ ~(level < usage[p])
        <3>1. usage'[o] < t => usage[o] < t BY <1>0, <1>1, <1>2, <2>5 DEF RollTypes, U!Levels
        <3>2. Again(o, t)' => Again(o, t)
            BY <1>1, <3>1 DEF Again, Active, Ahead, Forgets
        <3>3. QED BY <1>2, <1>6, <2>1, <2>3, <2>5, <3>2 DEF Once
    <2>6. QED BY <1>3, <2>4, <2>5
<1>7. QED BY <1>0, <1>4, <1>5, <1>6 DEF RollInv

\* A run loads the state file, or starts with none (_load_state).
LEMMA LoadStep ==
    ASSUME RollInv, NEW j \in Jobs, U!Load(j)
    PROVE  RollInv'
<1>0. RollTypes /\ OneAtATime /\ Announced /\ \A o \in Orgs : Once(o, 1) /\ Once(o, 2)
    BY DEF RollInv
<1> DEFINE new == [U!Idle EXCEPT !.stage = "next", !.left = Orgs, !.copy = state]
<1>1. /\ UNCHANGED <<usage, state, warned, exceeded, silent>> /\ job' = [job EXCEPT ![j] = new]
      /\ job[j].stage = "idle"
      /\ IF \E i \in Jobs : Active(i) THEN repeats' = repeats + 1 ELSE repeats' = repeats
    BY DEF U!Load, Active
<1>2. /\ new \in RunsOfJob /\ new.stage = "next" /\ new.left = Orgs /\ new.org = {}
      /\ new.copy = state
    <2>1. U!Idle \in RunsOfJob /\ U!Idle.org = {} BY DEF U!Idle, RunsOfJob, U!Levels
    <2>2. state \in [Orgs -> U!Levels] BY <1>0 DEF RollTypes
    <2>3. /\ new.stage = "next" /\ new.left = Orgs /\ new.org = U!Idle.org /\ new.copy = state
        BY <2>1, <2>2 DEF RunsOfJob
    <2>4. new \in RunsOfJob
        BY <2>1, <2>2 DEF RunsOfJob
    <2>5. QED BY <2>1, <2>3, <2>4
<1> HIDE DEF new
<1>3. RollTypes' BY <1>0, <1>1, <1>2 DEF RollTypes
<1>4. job'[j] = new /\ \A i \in Jobs : i # j => job'[i] = job[i] BY <1>0, <1>1 DEF RollTypes
<1>5. OneAtATime' BY <1>0, <1>2, <1>4 DEF OneAtATime
<1>6. Announced' BY <1>0, <1>1, <1>2, <1>4 DEF Announced, KnownOf
<1>7. ASSUME NEW o \in Orgs, NEW t \in {1, 2}, Once(o, t) PROVE Once(o, t)'
    <2>1. job[j].left = {} /\ job[j].org = {} BY <1>0, <1>1 DEF OneAtATime
    <2>2. ~Active(j) /\ j \notin May(o, t) BY <1>1, <2>1 DEF Active, May, Ahead, Announcing
    <2>3. Active(j)' /\ (j \in May(o, t)' <=> state[o] < t) /\ (Ahead(j, o, t)' <=> state[o] < t)
          /\ ~Forgets(j, o, t)'
        BY <1>1, <1>2, <1>4 DEF Active, May, Ahead, Announcing, Forgets
    <2>4. Times(o, t)' = Times(o, t) /\ usage' = usage /\ repeats \in Nat
        BY <1>0, <1>1 DEF Times, RollTypes
    <2>5. \A i \in Jobs : i # j => /\ Active(i)' <=> Active(i)
                                   /\ Ahead(i, o, t)' <=> Ahead(i, o, t)
                                   /\ Forgets(i, o, t)' <=> Forgets(i, o, t)
        BY <1>4, OthersKeep
    <2>6. CASE \E i \in Jobs : Active(i)
        <3>1. repeats' = repeats + 1 BY <1>1, <2>6
        <3>2. state[o] < t => (Again(o, t)' => Again(o, t))
            BY <2>3, <2>4, <2>5, <2>6 DEF Again
        <3>3. (Again(o, t)' => Again(o, t)) \/ (j \in May(o, t)' => j \in May(o, t))
            BY <2>3, <3>2
        <3>4. QED BY <1>0, <1>3, <1>4, <1>7, <2>4, <3>1, <3>3, OnceKept
    <2>7. CASE ~\E i \in Jobs : Active(i)
        <3>1. repeats' = repeats BY <1>1, <2>7
        <3>2. repeats' >= repeats BY <2>4, <3>1
        <3>3. CASE state[o] < t
            <4>1. ~Again(o, t)' /\ Again(o, t)
                BY <2>3, <2>5, <2>7, <3>3 DEF Again
            <4>2. QED BY <1>0, <1>3, <1>4, <1>7, <2>3, <2>4, <3>2, <3>3, <4>1, OnceKept
        <3>4. CASE ~(state[o] < t)
            <4>1. Again(o, t)' => Again(o, t)
                BY <2>3, <2>4, <2>5, <2>7 DEF Again
            <4>2. QED BY <1>0, <1>3, <1>4, <1>7, <2>3, <2>4, <3>2, <3>4, <4>1, OnceKept
        <3>5. QED BY <3>3, <3>4
    <2>8. QED BY <2>6, <2>7
<1>8. QED BY <1>0, <1>3, <1>5, <1>6, <1>7 DEF RollInv

\* A run takes the next organisation (run_once).
LEMMA TakeStep ==
    ASSUME RollInv, NEW j \in Jobs, NEW p \in Orgs, U!Take(j, p)
    PROVE  RollInv'
<1>0. RollTypes /\ OneAtATime /\ Announced /\ \A o \in Orgs : Once(o, 1) /\ Once(o, 2)
    BY DEF RollInv
<1>1. /\ UNCHANGED <<usage, state, warned, exceeded, silent, repeats>>
      /\ job[j].stage = "next" /\ p \in job[j].left
      /\ job' = [job EXCEPT ![j].stage = "warn", ![j].left = @ \ {p}, ![j].org = {p},
                            ![j].level = usage[p]]
    BY DEF U!Take
<1>2. /\ job[j] \in RunsOfJob /\ job[j].org = {} /\ repeats \in Nat /\ usage[p] \in U!Levels
    BY <1>0, <1>1 DEF RollTypes, OneAtATime
<1>3. \A i \in Jobs : i # j => job'[i] = job[i] BY <1>0, <1>1 DEF RollTypes
<1>4. /\ job'[j].stage = "warn" /\ job'[j].left = job[j].left \ {p} /\ job'[j].org = {p}
      /\ job'[j].level = usage[p] /\ job'[j].copy = job[j].copy
    BY <1>0, <1>1, <1>2 DEF RollTypes, RunsOfJob
<1>5. job' \in [Jobs -> RunsOfJob]
    BY <1>0, <1>1, <1>2 DEF RollTypes, RunsOfJob
<1>6. RollTypes' BY <1>0, <1>1, <1>5 DEF RollTypes
<1>7. OneAtATime'
    <2>1. ASSUME NEW i \in Jobs, i # j
          PROVE  job'[i] = job[i]
        BY <1>3, <2>1
    <2>2. p \notin job'[j].left BY <1>4
    <2>3. ASSUME NEW i \in Jobs
          PROVE  /\ job'[i].stage \in {"idle", "next"} => job'[i].org = {}
                 /\ job'[i].stage \in {"warn", "exceed"} =>
                       \E o \in Orgs : job'[i].org = {o} /\ o \notin job'[i].left
                 /\ job'[i].stage = "idle" => job'[i].left = {}
        <3>1. CASE i = j BY <1>4, <2>2, <3>1
        <3>2. CASE i # j BY <1>0, <2>1, <3>2 DEF OneAtATime
        <3>3. QED BY <3>1, <3>2
    <2>4. QED BY <2>3 DEF OneAtATime
<1>8. Announced'
    <2>1. \A i \in Jobs : job'[i].copy = job[i].copy BY <1>3, <1>4
    <2>2. \A i \in Jobs : job'[i].stage = "exceed" => job'[i] = job[i] BY <1>3, <1>4
    <2>3. QED BY <1>0, <1>1, <2>1, <2>2 DEF Announced, KnownOf
<1>9. ASSUME NEW o \in Orgs, NEW t \in {1, 2}, Once(o, t) PROVE Once(o, t)'
    <2>1. Active(j) /\ Active(j)' BY <1>1, <1>4 DEF Active
    <2>2. Times(o, t)' = Times(o, t) /\ repeats' >= repeats /\ usage' = usage
        BY <1>1, <1>2 DEF Times
    <2>3. CASE o # p
        <3>1. /\ j \in May(o, t)' <=> j \in May(o, t)
              /\ Ahead(j, o, t)' <=> Ahead(j, o, t)
              /\ Forgets(j, o, t)' <=> Forgets(j, o, t)
            BY <1>2, <1>4, <2>3 DEF May, Ahead, Announcing, Forgets
        <3>2. Again(o, t)' => Again(o, t) BY <1>3, <2>1, <2>2, <3>1, AgainKept
        <3>3. QED BY <1>0, <1>3, <1>6, <1>9, <2>2, <3>1, <3>2, OnceKept
    <2>4. CASE o = p /\ job[j].copy[o] < t /\ usage[o] < t
        <3>1. j \in May(o, t) BY <1>1, <2>4 DEF May, Ahead
        <3>2. j \notin May(o, t)'
            BY <1>2, <1>4, <2>4 DEF May, Ahead, Announcing, U!Levels
        <3>3. QED BY <1>0, <1>3, <1>6, <1>9, <2>2, <3>1, <3>2, OnceKept
    <2>5. CASE o = p /\ ~(job[j].copy[o] < t /\ usage[o] < t)
        <3>1. /\ j \in May(o, t)' => j \in May(o, t)
              /\ ~Ahead(j, o, t)' /\ (Forgets(j, o, t)' <=> usage[o] < t)
              /\ Ahead(j, o, t) <=> job[j].copy[o] < t
              /\ Forgets(j, o, t) => job[j].copy[o] < t
            BY <1>1, <1>2, <1>4, <2>5 DEF May, Ahead, Announcing, Forgets
        <3>2. Again(o, t)' => Again(o, t) BY <1>3, <2>1, <2>2, <2>5, <3>1, AgainKept
        <3>3. QED BY <1>0, <1>3, <1>6, <1>9, <2>2, <3>1, <3>2, OnceKept
    <2>6. QED BY <2>3, <2>4, <2>5
<1>10. QED BY <1>0, <1>6, <1>7, <1>8, <1>9 DEF RollInv

\* A run announces the first threshold, or sees nothing to announce.
LEMMA WarnStep ==
    ASSUME RollInv, NEW j \in Jobs, NEW p \in Orgs, U!Warn(j, p)
    PROVE  RollInv'
<1>0. RollTypes /\ OneAtATime /\ Announced /\ \A o \in Orgs : Once(o, 1) /\ Once(o, 2)
    BY DEF RollInv
<1>1. /\ UNCHANGED <<usage, state, exceeded, silent, repeats>>
      /\ job[j].stage = "warn" /\ job[j].org = {p}
      /\ job' = [job EXCEPT ![j].stage = "exceed"]
      /\ warned' = IF U!Crosses(j, p, 1) THEN [warned EXCEPT ![p] = @ + 1] ELSE warned
    BY DEF U!Warn
<1>2. /\ job[j] \in RunsOfJob /\ repeats \in Nat /\ warned \in [Orgs -> Nat]
    BY <1>0 DEF RollTypes
<1>3. \A i \in Jobs : i # j => job'[i] = job[i] BY <1>0, <1>1 DEF RollTypes
<1>4. /\ job'[j].stage = "exceed" /\ job'[j].left = job[j].left /\ job'[j].org = job[j].org
      /\ job'[j].level = job[j].level /\ job'[j].copy = job[j].copy
    BY <1>0, <1>1, <1>2 DEF RollTypes, RunsOfJob
<1>5. job' \in [Jobs -> RunsOfJob]
    BY <1>0, <1>1, <1>2 DEF RollTypes, RunsOfJob
<1>6. /\ warned' \in [Orgs -> Nat]
      /\ \A o \in Orgs : warned'[o] = IF U!Crosses(j, p, 1) /\ o = p THEN warned[o] + 1 ELSE warned[o]
    BY <1>1, <1>2
<1>7. RollTypes' BY <1>0, <1>1, <1>5, <1>6 DEF RollTypes
<1>8. OneAtATime' BY <1>0, <1>1, <1>3, <1>4 DEF OneAtATime
<1>9. Announced'
    <2>1. \A o \in Orgs : warned[o] >= 1 => warned'[o] >= 1 BY <1>2, <1>6
    <2>2. ASSUME NEW o \in Orgs, NEW level, KnownOf(o, level) PROVE KnownOf(o, level)'
        BY <1>1, <2>1, <2>2 DEF KnownOf
    <2>3. job[j].level >= 1 => warned'[p] >= 1
        <3>1. job[j].copy[p] >= 1 => warned[p] >= 1 BY <1>0 DEF Announced, KnownOf
        <3>2. job[j].copy[p] \in 0 .. 3 /\ job[j].level \in 0 .. 3 BY <1>2 DEF RunsOfJob, U!Levels
        <3>3. QED BY <1>2, <1>6, <3>1, <3>2 DEF U!Crosses
    <2>4. ASSUME NEW o \in Orgs
          PROVE  /\ KnownOf(o, state[o])'
                 /\ \A i \in Jobs :
                       /\ KnownOf(o, job[i].copy[o])'
                       /\ (job[i].stage = "exceed" /\ job[i].org = {o} /\ job[i].level >= 1
                             => warned[o] >= 1)'
        <3>1. KnownOf(o, state[o])' BY <1>0, <1>1, <2>1 DEF Announced, KnownOf
        <3>2. ASSUME NEW i \in Jobs PROVE KnownOf(o, job[i].copy[o])'
            <4>1. job'[i].copy = job[i].copy BY <1>3, <1>4
            <4>2. QED BY <1>0, <1>1, <2>1, <4>1 DEF Announced, KnownOf
        <3>3. ASSUME NEW i \in Jobs, job'[i].stage = "exceed", job'[i].org = {o}, job'[i].level >= 1
              PROVE  warned'[o] >= 1
            <4>1. CASE i = j BY <1>1, <1>4, <2>3, <3>3, <4>1
            <4>2. CASE i # j BY <1>0, <1>3, <2>1, <3>3, <4>2 DEF Announced
            <4>3. QED BY <4>1, <4>2
        <3>4. QED BY <3>1, <3>2, <3>3
    <2>5. QED BY <2>4 DEF Announced
<1>10. ASSUME NEW o \in Orgs, NEW t \in {1, 2}, Once(o, t) PROVE Once(o, t)'
    <2>1. Active(j) /\ Active(j)' BY <1>1, <1>4 DEF Active
    <2>2. repeats' >= repeats /\ usage' = usage
        BY <1>1, <1>2
    <2>3. /\ Ahead(j, o, t)' <=> Ahead(j, o, t)
          /\ Forgets(j, o, t)' <=> Forgets(j, o, t)
        BY <1>4 DEF Ahead, Forgets
    <2>4. Again(o, t)' => Again(o, t) BY <1>3, <2>1, <2>2, <2>3, AgainKept
    <2>5. p \notin job[j].left BY <1>0, <1>1 DEF OneAtATime
    <2>6. CASE o = p /\ t = 1 /\ U!Crosses(j, p, 1)
        <3>1. j \in May(o, t) BY <1>1, <2>6 DEF May, Announcing, U!Crosses
        <3>2. j \notin May(o, t)' BY <1>4, <2>5, <2>6 DEF May, Announcing, Ahead
        <3>3. Times(o, t)' = Times(o, t) + 1 BY <1>6, <2>6 DEF Times
        <3>4. QED BY <1>0, <1>3, <1>7, <1>10, <2>2, <2>4, <3>1, <3>2, <3>3, OnceKept
    <2>7. CASE ~(o = p /\ t = 1 /\ U!Crosses(j, p, 1))
        <3>1. Times(o, t)' = Times(o, t) BY <1>1, <1>6, <2>7 DEF Times
        <3>2. j \in May(o, t)' => j \in May(o, t)
            BY <1>1, <1>4 DEF May, Announcing, Ahead
        <3>3. QED BY <1>0, <1>3, <1>7, <1>10, <2>2, <2>4, <3>1, <3>2, OnceKept
    <2>8. QED BY <2>6, <2>7
<1>11. QED BY <1>0, <1>7, <1>8, <1>9, <1>10 DEF RollInv

\* A run announces the second threshold, or suppresses it.
LEMMA ExceedStep ==
    ASSUME RollInv, NEW j \in Jobs, NEW p \in Orgs, U!Exceed(j, p)
    PROVE  RollInv'
<1>0. RollTypes /\ OneAtATime /\ Announced /\ \A o \in Orgs : Once(o, 1) /\ Once(o, 2)
    BY DEF RollInv
<1>1. /\ UNCHANGED <<usage, state, warned, repeats>>
      /\ job[j].stage = "exceed" /\ job[j].org = {p}
      /\ job' = [job EXCEPT ![j].stage = "next", ![j].org = {}, ![j].level = 0,
                            ![j].copy[p] = job[j].level]
      /\ exceeded' = IF U!Crosses(j, p, 2) /\ job[j].level < 3
                     THEN [exceeded EXCEPT ![p] = @ + 1] ELSE exceeded
      /\ silent' = IF U!Crosses(j, p, 2) /\ job[j].level = 3 THEN silent \cup {p} ELSE silent
    BY DEF U!Exceed
<1>2. /\ job[j] \in RunsOfJob /\ repeats \in Nat /\ exceeded \in [Orgs -> Nat]
      /\ silent \subseteq Orgs
    BY <1>0 DEF RollTypes
<1>3. \A i \in Jobs : i # j => job'[i] = job[i] BY <1>0, <1>1 DEF RollTypes
<1>4. /\ job'[j].stage = "next" /\ job'[j].left = job[j].left /\ job'[j].org = {}
      /\ job'[j].level = 0 /\ job'[j].copy = [job[j].copy EXCEPT ![p] = job[j].level]
    BY <1>0, <1>1, <1>2 DEF RollTypes, RunsOfJob
<1>5. job' \in [Jobs -> RunsOfJob]
    <2>1. /\ [job[j].copy EXCEPT ![p] = job[j].level] \in [Orgs -> U!Levels] /\ job[j].left \subseteq Orgs
        BY <1>2 DEF RunsOfJob
    <2>2. \A r \in RunsOfJob : \A c \in [Orgs -> U!Levels] : [r EXCEPT !.copy = c] \in RunsOfJob
        BY DEF RunsOfJob
    <2>3. /\ \A r \in RunsOfJob : [r EXCEPT !.stage = "next"] \in RunsOfJob
          /\ \A r \in RunsOfJob : [r EXCEPT !.org = {}] \in RunsOfJob
          /\ \A r \in RunsOfJob : [r EXCEPT !.level = 0] \in RunsOfJob
        BY DEF RunsOfJob, U!Levels
    <2>4. job'[j] = [[[[job[j] EXCEPT !.stage = "next"] EXCEPT !.org = {}] EXCEPT !.level = 0]
                        EXCEPT !.copy = [job[j].copy EXCEPT ![p] = job[j].level]]
        BY <1>0, <1>1, <1>2 DEF RollTypes, RunsOfJob
    <2>7. [[[job[j] EXCEPT !.stage = "next"] EXCEPT !.org = {}] EXCEPT !.level = 0] \in RunsOfJob
        BY <1>2, <2>3
    <2> DEFINE r == [[[job[j] EXCEPT !.stage = "next"] EXCEPT !.org = {}] EXCEPT !.level = 0]
               c == [job[j].copy EXCEPT ![p] = job[j].level]
    <2>8. r \in RunsOfJob /\ c \in [Orgs -> U!Levels] /\ job'[j] = [r EXCEPT !.copy = c]
        BY <2>1, <2>4, <2>7
    <2> HIDE DEF r, c
    <2>5. job'[j] \in RunsOfJob
        BY <2>2, <2>8
    <2>6. QED BY <1>0, <1>1, <1>3, <2>5 DEF RollTypes
<1>6. /\ exceeded' \in [Orgs -> Nat]
      /\ \A o \in Orgs : exceeded'[o] = IF U!Crosses(j, p, 2) /\ job[j].level < 3 /\ o = p
                                        THEN exceeded[o] + 1 ELSE exceeded[o]
      /\ silent' \subseteq Orgs
      /\ \A o \in silent : o \in silent'
    BY <1>1, <1>2
<1>7. RollTypes' BY <1>0, <1>1, <1>5, <1>6 DEF RollTypes
<1>8. OneAtATime' BY <1>0, <1>1, <1>3, <1>4 DEF OneAtATime
<1>c. job[j].level \in 0 .. 3 /\ \A o \in Orgs : job[j].copy[o] \in 0 .. 3
      /\ job'[j].copy[o] = IF o = p THEN job[j].level ELSE job[j].copy[o]
    BY <1>2, <1>4 DEF RunsOfJob, U!Levels
<1>9. Announced'
    <2>1. \A o \in Orgs : exceeded[o] >= 1 => exceeded'[o] >= 1 BY <1>2, <1>6
    <2>3. ASSUME NEW level, level = job[j].level PROVE KnownOf(p, level)'
        <3>1. job[j].level >= 1 => warned[p] >= 1 BY <1>0, <1>1 DEF Announced
        <3>2. job[j].copy[p] >= 2 => exceeded[p] >= 1 \/ p \in silent BY <1>0 DEF Announced, KnownOf
        <3>3. ASSUME job[j].level >= 2 PROVE exceeded'[p] >= 1 \/ p \in silent'
            <4>1. CASE job[j].copy[p] >= 2 BY <1>6, <2>1, <3>2, <4>1
            <4>2. CASE job[j].copy[p] < 2
                <5>1. U!Crosses(j, p, 2) BY <3>3, <4>2 DEF U!Crosses
                <5>2. CASE job[j].level = 3 BY <1>1, <5>1, <5>2
                <5>3. CASE job[j].level < 3 BY <1>2, <1>6, <5>1, <5>3
                <5>4. QED BY <1>c, <5>2, <5>3
            <4>3. QED BY <1>c, <4>1, <4>2
        <3>4. job'[j].level = 0 /\ warned' = warned BY <1>1, <1>4
        <3>5. /\ job[j].level >= 1 => warned'[p] >= 1
              /\ job[j].level >= 2 => exceeded'[p] >= 1 \/ p \in silent'
            BY <3>1, <3>3, <3>4
        <3>6. QED BY <2>3, <3>5 DEF KnownOf
    <2>4. ASSUME NEW o \in Orgs
          PROVE  /\ KnownOf(o, state[o])'
                 /\ \A i \in Jobs :
                       /\ KnownOf(o, job[i].copy[o])'
                       /\ (job[i].stage = "exceed" /\ job[i].org = {o} /\ job[i].level >= 1
                             => warned[o] >= 1)'
        <3>1. KnownOf(o, state[o])' BY <1>0, <1>1, <1>6, <2>1 DEF Announced, KnownOf
        <3>2. ASSUME NEW i \in Jobs PROVE KnownOf(o, job[i].copy[o])'
            <4>1. CASE i = j /\ o = p
                <5>1. job'[i].copy[o] = job[j].level BY <1>c, <4>1
                <5>2. QED BY <2>3, <4>1, <5>1 DEF KnownOf
            <4>2. CASE ~(i = j /\ o = p)
                <5>1. job'[i].copy[o] = job[i].copy[o] BY <1>3, <1>c, <4>2
                <5>2. QED BY <1>0, <1>1, <1>6, <2>1, <5>1 DEF Announced, KnownOf
            <4>3. QED BY <4>1, <4>2
        <3>3. ASSUME NEW i \in Jobs, job'[i].stage = "exceed", job'[i].org = {o}, job'[i].level >= 1
              PROVE  warned'[o] >= 1
            <4>1. i # j BY <1>4, <3>3
            <4>2. job'[i] = job[i] BY <1>3, <4>1
            <4>3. QED BY <1>0, <1>1, <3>3, <4>2 DEF Announced
        <3>4. QED BY <3>1, <3>2, <3>3
    <2>5. QED BY <2>4 DEF Announced
<1>10. ASSUME NEW o \in Orgs, NEW t \in {1, 2}, Once(o, t) PROVE Once(o, t)'
    <2>1. Active(j) /\ Active(j)' BY <1>1, <1>4 DEF Active
    <2>2. repeats' >= repeats /\ usage' = usage
        BY <1>1, <1>2
    <2>5. p \notin job[j].left BY <1>0, <1>1 DEF OneAtATime
    <2>3. /\ Ahead(j, o, t)' <=> Ahead(j, o, t)
          /\ Forgets(j, o, t)' <=> Forgets(j, o, t)
        <3>1. CASE o = p BY <1>1, <1>4, <1>c, <2>5, <3>1 DEF Ahead, Forgets
        <3>2. CASE o # p
            <4>1. job'[j].copy[o] = job[j].copy[o] /\ job'[j].org # {o} /\ job[j].org # {o}
                BY <1>1, <1>4, <1>c, <3>2
            <4>2. job'[j].left = job[j].left BY <1>4
            <4>3. QED BY <4>1, <4>2 DEF Ahead, Forgets
        <3>3. QED BY <3>1, <3>2
    <2>4. Again(o, t)' => Again(o, t) BY <1>3, <2>1, <2>2, <2>3, AgainKept
    <2>9. j \in May(o, t)' => j \in May(o, t)
        BY <1>4, <2>3 DEF May, Announcing
    <2>6. CASE o = p /\ t = 2 /\ U!Crosses(j, p, 2) /\ job[j].level < 3
        <3>1. j \in May(o, t) BY <1>1, <2>6 DEF May, Announcing, U!Crosses
        <3>2. j \notin May(o, t)' BY <1>4, <2>5, <2>6 DEF May, Announcing, Ahead
        <3>3. Times(o, t)' = Times(o, t) + 1 BY <1>6, <2>6 DEF Times
        <3>4. QED BY <1>0, <1>3, <1>7, <1>10, <2>2, <2>4, <3>1, <3>2, <3>3, OnceKept
    <2>7. CASE ~(o = p /\ t = 2 /\ U!Crosses(j, p, 2) /\ job[j].level < 3)
        <3>1. Times(o, t)' = Times(o, t) BY <1>1, <1>6, <2>7 DEF Times
        <3>3. QED BY <1>0, <1>3, <1>7, <1>10, <2>2, <2>4, <3>1, <2>9, OnceKept
    <2>8. QED BY <2>6, <2>7
<1>11. QED BY <1>0, <1>7, <1>8, <1>9, <1>10 DEF RollInv

\* A run writes the state file over what another wrote (_save_state).
LEMMA SaveStep ==
    ASSUME RollInv, NEW j \in Jobs, U!Save(j)
    PROVE  RollInv'
<1>0. RollTypes /\ OneAtATime /\ Announced /\ \A o \in Orgs : Once(o, 1) /\ Once(o, 2)
    BY DEF RollInv
<1>1. /\ UNCHANGED <<usage, warned, exceeded, silent, repeats>> /\ job' = [job EXCEPT ![j] = U!Idle]
      /\ state' = job[j].copy /\ job[j].stage = "next" /\ job[j].left = {}
    BY DEF U!Save
<1>2. /\ U!Idle \in RunsOfJob /\ U!Idle.stage = "idle" /\ U!Idle.left = {} /\ U!Idle.org = {}
      /\ \A o \in Orgs : U!Idle.copy[o] = 0
    BY DEF U!Idle, RunsOfJob, U!Levels
<1>3. job'[j] = U!Idle /\ \A i \in Jobs : i # j => job'[i] = job[i]
    BY <1>0, <1>1 DEF RollTypes
<1>4. job[j].copy \in [Orgs -> U!Levels] BY <1>0 DEF RollTypes, RunsOfJob
<1>5. RollTypes' BY <1>0, <1>1, <1>2, <1>4 DEF RollTypes
<1>6. OneAtATime' BY <1>0, <1>2, <1>3 DEF OneAtATime
<1>7. Announced' BY <1>0, <1>1, <1>2, <1>3 DEF Announced, KnownOf
<1>8. ASSUME NEW o \in Orgs, NEW t \in {1, 2}, Once(o, t) PROVE Once(o, t)'
    <2>1. job[j].org = {} /\ Active(j) BY <1>0, <1>1 DEF OneAtATime, Active
    <2>2. ~Active(j)' /\ j \notin May(o, t)'
        BY <1>2, <1>3 DEF Active, May, Ahead, Announcing
    <2>3. Times(o, t)' = Times(o, t) /\ usage' = usage /\ repeats' = repeats /\ repeats \in Nat
        BY <1>0, <1>1 DEF Times, RollTypes
    <2>4. Again(o, t)' => Again(o, t)
        <3>1. CASE \E i \in Jobs : Active(i)'
            BY <1>3, <2>1, <2>2, <2>3, <3>1, OthersKeep DEF Again
        <3>2. CASE ~\E i \in Jobs : Active(i)'
            <4>1. ~Ahead(j, o, t) /\ (job[j].copy[o] < t => Forgets(j, o, t))
                BY <1>1, <2>1 DEF Ahead, Forgets
            <4>2. Again(o, t)' => usage[o] < t \/ job[j].copy[o] < t
                BY <1>1, <3>2 DEF Again
            <4>3. QED BY <2>1, <4>1, <4>2 DEF Again
        <3>3. QED BY <3>1, <3>2
    <2>5. repeats' >= repeats BY <2>3
    <2>6. QED BY <1>0, <1>3, <1>5, <1>8, <2>2, <2>3, <2>4, <2>5, OnceKept
<1>9. QED BY <1>0, <1>5, <1>6, <1>7, <1>8 DEF RollInv

\* A run dies, and what it announced is not in the file.
LEMMA DieStep ==
    ASSUME RollInv, NEW j \in Jobs, U!Die(j)
    PROVE  RollInv'
<1>0. RollTypes /\ OneAtATime /\ Announced /\ \A o \in Orgs : Once(o, 1) /\ Once(o, 2)
    BY DEF RollInv
<1>1. /\ UNCHANGED <<usage, state, warned, exceeded, silent>> /\ job' = [job EXCEPT ![j] = U!Idle]
      /\ repeats' = repeats + 1
    BY DEF U!Die
<1>2. /\ U!Idle \in RunsOfJob /\ U!Idle.stage = "idle" /\ U!Idle.left = {} /\ U!Idle.org = {}
      /\ \A o \in Orgs : U!Idle.copy[o] = 0
    BY DEF U!Idle, RunsOfJob, U!Levels
<1>3. job'[j] = U!Idle /\ \A i \in Jobs : i # j => job'[i] = job[i]
    BY <1>0, <1>1 DEF RollTypes
<1>5. RollTypes' BY <1>0, <1>1, <1>2 DEF RollTypes
<1>6. OneAtATime' BY <1>0, <1>2, <1>3 DEF OneAtATime
<1>7. Announced' BY <1>0, <1>1, <1>2, <1>3 DEF Announced, KnownOf
<1>8. ASSUME NEW o \in Orgs, NEW t \in {1, 2}, Once(o, t) PROVE Once(o, t)'
    <2>1. j \notin May(o, t)' BY <1>2, <1>3 DEF May, Ahead, Announcing
    <2>2. Times(o, t)' = Times(o, t) BY <1>1 DEF Times
    <2>3. QED BY <1>0, <1>1, <1>3, <1>5, <1>8, <2>1, <2>2, OnceKept
<1>9. QED BY <1>0, <1>5, <1>6, <1>7, <1>8 DEF RollInv

\* Every step keeps the invariant.
LEMMA RollStep == RollInv /\ [U!Next]_U!rollupVars => RollInv'
<1> SUFFICES ASSUME RollInv, [U!Next]_U!rollupVars PROVE RollInv'
    OBVIOUS
<1>1. CASE UNCHANGED U!rollupVars
    <2>1. UNCHANGED <<usage, state, job, warned, exceeded, silent, repeats>> BY <1>1 DEF U!rollupVars
    <2>2. RollTypes' /\ OneAtATime' BY <2>1 DEF RollInv, RollTypes, OneAtATime
    <2>3. Announced' BY <2>1 DEF RollInv, Announced, KnownOf
    <2>4. ASSUME NEW o \in Orgs, NEW t \in {1, 2}, Once(o, t) PROVE Once(o, t)'
        <3>1. May(o, t)' = May(o, t) BY <2>1 DEF May, Ahead, Announcing
        <3>2. Again(o, t)' <=> Again(o, t) BY <2>1 DEF Again, Active, Ahead, Forgets
        <3>3. Times(o, t)' = Times(o, t) BY <2>1 DEF Times
        <3>4. QED BY <2>1, <2>4, <3>1, <3>2, <3>3 DEF Once
    <2>5. QED BY <2>2, <2>3, <2>4 DEF RollInv
<1>2. ASSUME NEW o \in Orgs, NEW level \in U!Levels, U!Use(o, level) PROVE RollInv'
    BY <1>2, UseStep
<1>3. ASSUME NEW j \in Jobs, U!Load(j) \/ U!Save(j) \/ U!Die(j) PROVE RollInv'
    BY <1>3, LoadStep, SaveStep, DieStep
<1>4. ASSUME NEW j \in Jobs, NEW o \in Orgs, U!Take(j, o) \/ U!Warn(j, o) \/ U!Exceed(j, o) PROVE RollInv'
    BY <1>4, TakeStep, WarnStep, ExceedStep
<1>5. QED BY <1>1, <1>2, <1>3, <1>4 DEF U!Next

\* The invariant has all that CrossingsReported asks.
LEMMA RollReported == RollInv => U!CrossingsReported
<1> SUFFICES ASSUME RollInv, NEW o \in Orgs
             PROVE  /\ state[o] >= 1 => warned[o] >= 1
                    /\ state[o] >= 2 => exceeded[o] >= 1 \/ o \in silent
                    /\ warned[o] <= 1 + repeats /\ exceeded[o] <= 1 + repeats
    BY DEF U!CrossingsReported
<1>1. KnownOf(o, state[o]) BY DEF RollInv, Announced
<1>2. ASSUME NEW t \in {1, 2} PROVE Times(o, t) <= 1 + repeats
    <2>1. IsFiniteSet(May(o, t)) BY RollupAssumption, FS_Subset DEF May
    <2>2. Cardinality(May(o, t)) \in Nat /\ Times(o, t) \in Nat /\ repeats \in Nat
        BY <2>1, FS_CardinalityType DEF RollInv, RollTypes, Times
    <2>3. Once(o, t) BY DEF RollInv
    <2>4. QED BY <2>2, <2>3 DEF Once
<1>3. QED BY <1>1, <1>2 DEF KnownOf, Times

\* In the control plane Rollup moves as its module says, or not at all.
LEMMA RollupBeside == ControlPlaneSpec => U!Spec
  <1>1. ControlPlaneInit => U!Init
    BY DEF ControlPlaneInit
  <1>2. [ControlPlaneNext]_controlPlane => [U!Next]_U!rollupVars
    BY DEF ControlPlaneNext, MeteringStep, IdentityStep, BillingStep, RollupStep, LimiterStep, MemoryStep,
           RecordsStep, SchemaStep, MigrationsStep, PullsStep, controlPlane, rollup, U!rollupVars
  <1>. QED
    BY <1>1, <1>2, PTL DEF ControlPlaneSpec, U!Spec

\* CrossingsReported: a crossing that the state file knows of was announced,
\* but for a quota that passed 100 and 999 percent between two runs; and none
\* is announced more often than runs died, overlapped or met a quota that grew
\* (UsageRollupJob.run_once, _emit_crossings).
THEOREM CrossingsAreReported == ControlPlaneSpec => []CrossingsReported
  <1>1. U!Spec => []U!CrossingsReported
    BY RollInit, RollStep, RollReported, PTL DEF U!Spec
  <1>. QED
    BY <1>1, RollupBeside, PTL DEF CrossingsReported

----------------------------------------------------------------------------
(* Memory tiers (MemoryTiers) *)

AllIds == Ids \cup FreshIds
MemoryRows == [kind : M!Kinds \cup {"none"}, content : Nat, invalid : BOOLEAN, since : Nat]

MemoryTyped ==
    /\ items \in [AllIds -> MemoryRows] /\ adds \in Nat
    /\ clients \in [Clients -> [stage : {"idle", "add", "delete"}, id : AllIds \cup {"none"},
                                item : MemoryRows, ids : SUBSET AllIds]]

AddsInFlight ==
    \A c \in Clients : clients[c].stage = "add" =>
        /\ clients[c].id \in AllIds /\ clients[c].item.kind \in M!Kinds /\ clients[c].item.content <= adds
        /\ clients[c].item.kind = "append" =>
              \/ items[clients[c].id] = M!NoItem
              \/ clients[c].item.content <= items[clients[c].id].since

MemoryInv == MemoryTyped /\ AddsInFlight

----------------------------------------------------------------------------
\* A free identifier is a row of no kind.
LEMMA NoItemRow == M!NoItem \in MemoryRows /\ M!NoItem.kind = "none"
  BY DEF M!NoItem, M!Item, MemoryRows

\* The initial states.
LEMMA MemoryInit == M!Init => MemoryInv
  BY NoItemRow DEF M!Init, MemoryInv, MemoryTyped, AddsInFlight, M!Idle, AllIds

\* An add finds its identifier free, or draws a free one (add).
LEMMA AddKept ==
    ASSUME MemoryInv, NEW c \in Clients, NEW id \in Ids, NEW kind \in M!Kinds, NEW invalid \in BOOLEAN,
           M!Add(c, id, kind, invalid)
    PROVE  MemoryInv'
  <1>1. PICK target \in M!Target(id, kind) :
           clients' = [clients EXCEPT ![c] = [M!Idle EXCEPT !.stage = "add", !.id = target,
                                                          !.item = M!Item(kind, adds + 1, invalid)]]
    BY DEF M!Add
  <1> DEFINE new == [M!Idle EXCEPT !.stage = "add", !.id = target, !.item = M!Item(kind, adds + 1, invalid)]
  <1>2. target \in AllIds /\ (kind = "append" => items[target] = M!NoItem)
    BY DEF M!Target, M!Unused, AllIds
  <1>3. /\ M!Item(kind, adds + 1, invalid) \in MemoryRows
        /\ M!Item(kind, adds + 1, invalid).kind = kind
        /\ M!Item(kind, adds + 1, invalid).content = adds + 1
    BY DEF M!Item, MemoryRows, MemoryInv, MemoryTyped
  <1>4. /\ new.stage = "add" /\ new.id = target /\ new.item = M!Item(kind, adds + 1, invalid)
        /\ new.ids = {} /\ new \in [stage : {"idle", "add", "delete"}, id : AllIds \cup {"none"},
                                    item : MemoryRows, ids : SUBSET AllIds]
    BY <1>2, <1>3 DEF M!Idle
  <1> HIDE DEF new
  <1>5. clients' = [clients EXCEPT ![c] = new] /\ items' = items /\ adds' = adds + 1
    BY <1>1 DEF M!Add, new
  <1>6. MemoryTyped'
    BY <1>4, <1>5 DEF MemoryInv, MemoryTyped
  <1>7. AddsInFlight'
    <2> SUFFICES ASSUME NEW d \in Clients, clients'[d].stage = "add"
                 PROVE  /\ clients'[d].id \in AllIds /\ clients'[d].item.kind \in M!Kinds
                        /\ clients'[d].item.content <= adds'
                        /\ clients'[d].item.kind = "append" =>
                              \/ items'[clients'[d].id] = M!NoItem
                              \/ clients'[d].item.content <= items'[clients'[d].id].since
      BY DEF AddsInFlight
    <2>1. CASE d = c
      BY <1>2, <1>3, <1>4, <1>5, <2>1 DEF MemoryInv, MemoryTyped
    <2>2. CASE d # c
      <3>1. clients'[d] = clients[d]
        BY <1>5, <2>2 DEF MemoryInv, MemoryTyped
      <3> QED
        BY <1>5, <3>1 DEF MemoryInv, MemoryTyped, AddsInFlight, MemoryRows
    <2> QED
      BY <2>1, <2>2
  <1> QED
    BY <1>6, <1>7 DEF MemoryInv

\* A row that is written is younger than every add in flight (add).
LEMMA InsertKept == ASSUME MemoryInv, NEW c \in Clients, M!Insert(c) PROVE MemoryInv'
  <1> DEFINE row == [clients[c].item EXCEPT !.since = adds]
  <1>1. row \in MemoryRows /\ row.since = adds /\ clients[c].id \in AllIds
    BY DEF M!Insert, MemoryInv, MemoryTyped, AddsInFlight, MemoryRows
  <1> HIDE DEF row
  <1>2. /\ items' = [items EXCEPT ![clients[c].id] = row] /\ adds' = adds
        /\ clients' = [clients EXCEPT ![c] = M!Idle]
    BY DEF M!Insert, row
  <1>3. M!Idle.stage = "idle" /\ M!Idle \in [stage : {"idle", "add", "delete"}, id : AllIds \cup {"none"},
                                         item : MemoryRows, ids : SUBSET AllIds]
    BY NoItemRow DEF M!Idle
  <1>4. MemoryTyped'
    BY <1>1, <1>2, <1>3 DEF MemoryInv, MemoryTyped
  <1>5. AddsInFlight'
    BY <1>1, <1>2, <1>3 DEF MemoryInv, MemoryTyped, AddsInFlight
  <1> QED
    BY <1>4, <1>5 DEF MemoryInv

\* Removing rows frees identifiers (invalidate_changed, clear_tier).
LEMMA RemovalKept ==
    ASSUME MemoryInv, NEW gone \in SUBSET AllIds, adds' = adds,
           items' = [i \in DOMAIN items |-> IF i \in gone THEN M!NoItem ELSE items[i]],
           clients' = clients \/ \E c \in Clients : clients' = [clients EXCEPT ![c] = M!Idle]
    PROVE  MemoryInv'
  <1>1. M!Idle.stage = "idle" /\ M!Idle \in [stage : {"idle", "add", "delete"}, id : AllIds \cup {"none"},
                                         item : MemoryRows, ids : SUBSET AllIds]
    BY NoItemRow DEF M!Idle
  <1>2. \A c \in Clients : clients'[c] = clients[c] \/ clients'[c] = M!Idle
    BY DEF MemoryInv, MemoryTyped
  <1>3. MemoryTyped'
    BY <1>1, NoItemRow DEF MemoryInv, MemoryTyped
  <1>4. AddsInFlight'
    BY <1>1, <1>2 DEF MemoryInv, MemoryTyped, AddsInFlight
  <1> QED
    BY <1>3, <1>4 DEF MemoryInv

\* Every step of every process keeps the invariant.
LEMMA MemoryKept == MemoryInv /\ [M!Next]_M!memoryVars => MemoryInv'
  <1> SUFFICES ASSUME MemoryInv, [M!Next]_M!memoryVars PROVE MemoryInv'
    OBVIOUS
  <1>1. CASE UNCHANGED M!memoryVars
    BY <1>1 DEF M!memoryVars, MemoryInv, MemoryTyped, AddsInFlight
  <1>2. ASSUME NEW c \in Clients, M!Collect(c) PROVE MemoryInv'
    <2> DEFINE ids == {i \in DOMAIN items : items[i].kind = "checked" /\ items[i].invalid}
               new == [M!Idle EXCEPT !.stage = "delete", !.ids = ids]
    <2>1. ids \subseteq AllIds
      BY DEF MemoryInv, MemoryTyped
    <2>2. new.stage = "delete" /\ new \in [stage : {"idle", "add", "delete"}, id : AllIds \cup {"none"},
                                           item : MemoryRows, ids : SUBSET AllIds]
      BY <2>1, NoItemRow DEF M!Idle
    <2>3. clients' = [clients EXCEPT ![c] = new] /\ UNCHANGED <<items, adds>>
      BY <1>2 DEF M!Collect
    <2> HIDE DEF new
    <2> QED
      BY <2>2, <2>3 DEF MemoryInv, MemoryTyped, AddsInFlight
  <1>3. ASSUME NEW c \in Clients, M!Delete(c) PROVE MemoryInv'
    <2>1. clients[c].ids \in SUBSET AllIds
      BY DEF MemoryInv, MemoryTyped
    <2> QED
      BY <1>3, <2>1, RemovalKept DEF M!Delete
  <1>4. ASSUME NEW kind \in M!Kinds, M!ClearTier(kind) PROVE MemoryInv'
    <2> DEFINE gone == {i \in DOMAIN items : items[i].kind = kind}
    <2>1. gone \in SUBSET AllIds
      BY DEF MemoryInv, MemoryTyped
    <2>2. /\ items' = [i \in DOMAIN items |-> IF i \in gone THEN M!NoItem ELSE items[i]]
          /\ clients' = clients /\ adds' = adds
      BY <1>4 DEF M!ClearTier
    <2> HIDE DEF gone
    <2> QED
      BY <2>1, <2>2, RemovalKept
  <1> QED
    BY <1>1, <1>2, <1>3, <1>4, AddKept, InsertKept DEF M!Next

\* Every step treats the append-only rows as AppendOnlyKept says.
RowsKeptApart == \A i \in DOMAIN items :
          items[i].kind = "append" /\ items'[i] # items[i] =>
             \/ \A j \in DOMAIN items : items'[j].kind # "append"
             \/ items'[i] = M!NoItem /\ \E c \in Clients : i \in clients[c].ids
             \/ items'[i].kind \in {"checked", "plain"}
             \/ items'[i].kind = "append" /\ items'[i].content <= items[i].since

\* A step of a state of the invariant does what Kept says.
LEMMA MemoryStepKept == MemoryInv /\ [M!Next]_M!memoryVars => [RowsKeptApart]_M!memoryVars
  <1> SUFFICES ASSUME MemoryInv, M!Next, NEW i \in DOMAIN items, items[i].kind = "append", items'[i] # items[i]
               PROVE  \/ \A j \in DOMAIN items : items'[j].kind # "append"
                      \/ items'[i] = M!NoItem /\ \E c \in Clients : i \in clients[c].ids
                      \/ items'[i].kind \in {"checked", "plain"}
                      \/ items'[i].kind = "append" /\ items'[i].content <= items[i].since
    BY DEF RowsKeptApart
  <1>0. i \in AllIds /\ items[i] # M!NoItem
    BY NoItemRow DEF MemoryInv, MemoryTyped
  <1>1. ASSUME NEW c \in Clients, M!Insert(c)
        PROVE  \/ items'[i].kind \in {"checked", "plain"}
               \/ items'[i].kind = "append" /\ items'[i].content <= items[i].since
    <2> DEFINE row == [clients[c].item EXCEPT !.since = adds]
    <2>1. row.kind = clients[c].item.kind /\ row.content = clients[c].item.content
      BY DEF MemoryInv, MemoryTyped, MemoryRows
    <2> HIDE DEF row
    <2>2. items' = [items EXCEPT ![clients[c].id] = row]
      BY <1>1 DEF M!Insert, row
    <2>3. clients[c].id = i /\ items'[i] = row
      BY <1>0, <2>2 DEF MemoryInv, MemoryTyped
    <2> QED
      BY <1>0, <1>1, <2>1, <2>3 DEF M!Insert, MemoryInv, AddsInFlight, M!Kinds
  <1>2. ASSUME NEW c \in Clients, M!Delete(c)
        PROVE  items'[i] = M!NoItem /\ i \in clients[c].ids
    BY <1>2 DEF M!Delete
  <1>3. ASSUME NEW kind \in M!Kinds, M!ClearTier(kind)
        PROVE  \A j \in DOMAIN items : items'[j].kind # "append"
    BY <1>3, NoItemRow DEF M!ClearTier
  <1>4. ASSUME UNCHANGED items PROVE FALSE
    BY <1>4
  <1> QED
    BY <1>1, <1>2, <1>3, <1>4 DEF M!Next, M!Add, M!Collect

\* In the control plane Memory moves as its module says, or not at all.
LEMMA MemoryBeside == ControlPlaneSpec => M!Spec
  <1>1. ControlPlaneInit => M!Init
    BY DEF ControlPlaneInit
  <1>2. [ControlPlaneNext]_controlPlane => [M!Next]_M!memoryVars
    BY DEF ControlPlaneNext, MeteringStep, IdentityStep, BillingStep, RollupStep, LimiterStep, MemoryStep,
           RecordsStep, SchemaStep, MigrationsStep, PullsStep, controlPlane, memory, M!memoryVars
  <1>. QED
    BY <1>1, <1>2, PTL DEF ControlPlaneSpec, M!Spec

\* AppendOnlyKept: an append-only row that nobody cleared is replaced only by a
\* row of another tier, or by an add that looked for the id before the row was
\* written; and deleted only by an invalidation that read the id when another
\* row had it (TieredMemoryStore.add, invalidate_changed).
THEOREM AppendOnlyRowsAreKept == ControlPlaneSpec => AppendOnlyKept
  <1>1. M!Spec => M!AppendOnlyKept
    BY MemoryInit, MemoryKept, MemoryStepKept, PTL DEF M!Spec, M!AppendOnlyKept, RowsKeptApart
  <1>. QED
    BY <1>1, MemoryBeside DEF AppendOnlyKept

----------------------------------------------------------------------------
(* Schema of the SQLite stores (Schema) *)

\* A process that is at a migration found all before it; the column is there
\* without its version only while a process is between the two, or after one
\* died there.
OpenerTypes == [db : S!Databases, stage : {"closed", "migrate", "record", "open", "failed"}, next : 0 .. 4]
Between(o) == o.db = "memory" /\ o.stage = "record" /\ o.next = 3
BehindSchema ==
    \A p \in Openers :
        /\ opener[p].stage \in {"migrate", "record"} =>
              /\ opener[p].next \in 1 .. S!Last[opener[p].db]
              /\ \A v \in 1 .. 3 : v < opener[p].next => v \in versions[opener[p].db]
        /\ opener[p].stage = "record" => opener[p].next \in tables[opener[p].db]
SchemaInv ==
    /\ tables \in [S!Databases -> SUBSET (1 .. 3)] /\ versions \in [S!Databases -> SUBSET (1 .. 3)]
    /\ opener \in [Openers -> OpenerTypes] /\ deaths \in Seq(OpenerTypes)
    /\ \A db \in S!Databases :
          /\ versions[db] \subseteq tables[db] /\ tables[db] \subseteq 1 .. S!Last[db]
          /\ \A v \in versions[db], u \in 1 .. 3 : u < v => u \in versions[db]
    /\ BehindSchema
    /\ \A p \in Openers : opener[p].stage = "open" => versions[opener[p].db] = 1 .. S!Last[opener[p].db]
    /\ 3 \in tables["memory"] /\ 3 \notin versions["memory"] =>
          (\E p \in Openers : Between(opener[p])) \/ (\E i \in 1 .. Len(deaths) : Between(deaths[i]))

\* The two databases and their last versions.
LEMMA DatabasesOf == S!Databases = {"memory", "records"} /\ S!Last["memory"] = 3 /\ S!Last["records"] = 1
    /\ \A db \in S!Databases : S!Last[db] \in 1 .. 3
BY DEF S!Databases, S!Last

\* The newest version of a set without gaps.
LEMMA Newest ==
    ASSUME NEW X \in SUBSET (1 .. 3), \A v \in X, u \in 1 .. 3 : u < v => u \in X
    PROVE  /\ S!Max(X \cup {0}) \in 0 .. 3 /\ S!Max(X \cup {0}) \in X \cup {0}
           /\ \A v \in 1 .. 3 : v < S!Max(X \cup {0}) + 1 <=> v \in X
<1>1. ASSUME NEW m \in X \cup {0}, \A y \in X \cup {0} : m >= y PROVE
           /\ S!Max(X \cup {0}) \in X \cup {0} /\ \A y \in X \cup {0} : S!Max(X \cup {0}) >= y
    BY <1>1 DEF S!Max
<1>2. \E m \in X \cup {0} : \A y \in X \cup {0} : m >= y
    <2>1. CASE 3 \in X
        <3>1. \A y \in X \cup {0} : 3 >= y OBVIOUS
        <3>2. QED BY <2>1, <3>1
    <2>2. CASE 3 \notin X /\ 2 \in X
        <3>1. \A y \in X \cup {0} : 2 >= y BY <2>2
        <3>2. QED BY <2>2, <3>1
    <2>3. CASE 3 \notin X /\ 2 \notin X /\ 1 \in X
        <3>1. \A y \in X \cup {0} : 1 >= y BY <2>3
        <3>2. QED BY <2>3, <3>1
    <2>4. CASE 3 \notin X /\ 2 \notin X /\ 1 \notin X
        <3>1. \A y \in 1 .. 3 : y = 1 \/ y = 2 \/ y = 3 OBVIOUS
        <3>2. \A y \in X : FALSE BY <2>4, <3>1
        <3>3. \A y \in X \cup {0} : 0 >= y BY <3>2
        <3>4. QED BY <3>3
    <2>5. QED BY <2>1, <2>2, <2>3, <2>4
<1> DEFINE m == S!Max(X \cup {0})
<1>3. m \in X \cup {0} /\ \A y \in X \cup {0} : m >= y BY <1>1, <1>2
<1> HIDE DEF m
<1>4. m \in 0 .. 3 BY <1>3
<1>5. ASSUME NEW v \in 1 .. 3 PROVE v < m + 1 <=> v \in X
    <2>1. CASE v \in X BY <1>3, <1>4, <2>1
    <2>2. CASE v \notin X
        <3>1. ~(v < m + 1) BY <1>3, <1>4, <2>2
        <3>2. QED BY <2>2, <3>1
    <2>3. QED BY <2>1, <2>2
<1>6. QED BY <1>3, <1>4, <1>5 DEF m

\* Neither database is there.
LEMMA SchemaInit == S!Init => SchemaInv
<1> SUFFICES ASSUME S!Init PROVE SchemaInv
    OBVIOUS
<1>1. S!Closed \in OpenerTypes /\ S!Closed.stage = "closed" BY DatabasesOf DEF S!Closed, OpenerTypes
<1>2. \A p \in Openers : opener[p] = S!Closed BY DEF S!Init
<1>3. /\ tables = [db \in S!Databases |-> {}] /\ versions = [db \in S!Databases |-> {}] /\ deaths = <<>>
      /\ opener = [p \in Openers |-> S!Closed]
    BY DEF S!Init
<1>4. BehindSchema BY <1>1, <1>2 DEF BehindSchema
<1>5. tables["memory"] = {} BY <1>3, DatabasesOf
<1>6. deaths \in Seq(OpenerTypes) BY <1>3
<1>7. \A p \in Openers : opener[p].stage # "open" BY <1>1, <1>2
<1>8. QED BY <1>1, <1>3, <1>4, <1>5, <1>6, <1>7 DEF SchemaInv

\* A step of one process that leaves the databases as they are.
LEMMA StepAlone ==
    ASSUME SchemaInv, NEW p \in Openers, NEW o \in OpenerTypes, S!Step(p, o),
           UNCHANGED <<tables, versions>>,
           \/ deaths' = deaths
           \/ deaths' = Append(deaths, opener[p]),
           o.stage \in {"migrate", "record"} =>
              /\ o.next \in 1 .. S!Last[o.db]
              /\ \A v \in 1 .. 3 : v < o.next => v \in versions[o.db],
           o.stage = "record" => o.next \in tables[o.db],
           o.stage = "open" => versions[o.db] = 1 .. S!Last[o.db],
           Between(opener[p]) =>
              \/ Between(o) \/ deaths' = Append(deaths, opener[p]) \/ 3 \in versions["memory"]
    PROVE  SchemaInv'
<1>1. /\ opener' \in [Openers -> OpenerTypes] /\ opener'[p] = o
      /\ \A q \in Openers : q # p => opener'[q] = opener[q]
    BY DEF S!Step, SchemaInv
<1>2. BehindSchema' BY <1>1 DEF SchemaInv, BehindSchema
<1>3. \A q \in Openers : opener'[q].stage = "open" => versions'[opener'[q].db] = 1 .. S!Last[opener'[q].db]
    BY <1>1 DEF SchemaInv
<1>4. /\ deaths' \in Seq(OpenerTypes) /\ Len(deaths) \in Nat /\ Len(deaths') \in Nat
      /\ \A i \in 1 .. Len(deaths) : i \in 1 .. Len(deaths') /\ deaths'[i] = deaths[i]
      /\ deaths' = Append(deaths, opener[p]) =>
            Len(deaths') \in 1 .. Len(deaths') /\ deaths'[Len(deaths')] = opener[p]
    BY DEF SchemaInv
<1>5. ASSUME 3 \in tables'["memory"] /\ 3 \notin versions'["memory"]
      PROVE  (\E q \in Openers : Between(opener'[q])) \/ (\E i \in 1 .. Len(deaths') : Between(deaths'[i]))
    <2>1. (\E q \in Openers : Between(opener[q])) \/ (\E i \in 1 .. Len(deaths) : Between(deaths[i]))
        BY <1>5 DEF SchemaInv
    <2>2. CASE \E i \in 1 .. Len(deaths) : Between(deaths[i]) BY <1>4, <2>2
    <2>3. ASSUME NEW q \in Openers, Between(opener[q])
          PROVE  \/ \E r \in Openers : Between(opener'[r])
                 \/ \E i \in 1 .. Len(deaths') : Between(deaths'[i])
        <3>1. CASE q # p
            <4>1. Between(opener'[q]) BY <1>1, <2>3, <3>1
            <4>2. QED BY <4>1
        <3>2. CASE q = p /\ Between(o)
            <4>1. Between(opener'[p]) BY <1>1, <3>2
            <4>2. QED BY <4>1
        <3>3. CASE q = p /\ deaths' = Append(deaths, opener[p])
            <4>1. Between(deaths'[Len(deaths')]) BY <1>4, <2>3, <3>3
            <4>2. QED BY <1>4, <3>3, <4>1
        <3>4. QED BY <1>5, <2>3, <3>1, <3>2, <3>3
    <2>4. QED BY <2>1, <2>2, <2>3
<1>6. QED BY <1>1, <1>2, <1>3, <1>4, <1>5 DEF SchemaInv

\* A process opens a database and reads the newest version it records.
LEMMA OpenKept ==
    ASSUME SchemaInv, NEW p \in Openers, NEW db \in S!Databases, S!Open(p, db)
    PROVE  SchemaInv'
<1> DEFINE newest == S!Max(versions[db] \cup {0})
           o == [db |-> db, stage |-> IF newest < S!Last[db] THEN "migrate" ELSE "open", next |-> newest + 1]
<1>1. /\ newest \in 0 .. 3 /\ newest \in versions[db] \cup {0}
      /\ \A v \in 1 .. 3 : v < newest + 1 <=> v \in versions[db]
    BY Newest DEF SchemaInv
<1>2. S!Step(p, o) /\ opener[p].stage \in {"closed", "failed"} /\ UNCHANGED <<tables, versions, deaths>>
    BY DEF S!Open
<1> HIDE DEF newest
<1>3. newest <= S!Last[db] /\ S!Last[db] \in 1 .. 3
    BY <1>1, DatabasesOf DEF SchemaInv
<1>4. o \in OpenerTypes /\ o.db = db /\ o.next = newest + 1
      /\ (newest < S!Last[db] => o.stage = "migrate") /\ (~(newest < S!Last[db]) => o.stage = "open")
    BY <1>1 DEF OpenerTypes
<1> HIDE DEF o
<1>5. CASE newest < S!Last[db]
    BY <1>1, <1>2, <1>3, <1>4, <1>5, StepAlone DEF Between
<1>6. CASE ~(newest < S!Last[db])
    <2>1. newest = S!Last[db] BY <1>1, <1>3, <1>6
    <2>2. versions[db] \subseteq 1 .. S!Last[db] BY DEF SchemaInv
    <2>3. \A v \in 1 .. S!Last[db] : v \in versions[db] BY <1>1, <1>3, <2>1
    <2>4. versions[db] = 1 .. S!Last[db] BY <2>2, <2>3
    <2>5. QED BY <1>2, <1>4, <1>6, <2>4, StepAlone DEF Between
<1>7. QED BY <1>5, <1>6

\* A migration runs: its table or column is there, or the process fails.
LEMMA MigrateKept ==
    ASSUME SchemaInv, NEW p \in Openers, S!Migrate(p)
    PROVE  SchemaInv'
<1> DEFINE o == opener[p]
<1>1. o \in OpenerTypes /\ o.stage = "migrate" /\ o.db \in S!Databases /\ ~Between(o)
    BY DEF SchemaInv, S!Migrate, S!At, OpenerTypes, Between
<1>2. o.next \in 1 .. S!Last[o.db] /\ \A v \in 1 .. 3 : v < o.next => v \in versions[o.db]
    BY <1>1 DEF SchemaInv, BehindSchema
<1>3. CASE S!AddsColumn(o.db, o.next) /\ o.next \in tables[o.db]
    <2> DEFINE r == [o EXCEPT !.stage = "failed"]
    <2>1. S!Step(p, r) /\ UNCHANGED <<tables, versions, deaths>> BY <1>3 DEF S!Migrate
    <2>2. r \in OpenerTypes /\ r.stage = "failed" BY <1>1 DEF OpenerTypes
    <2> HIDE DEF r
    <2>3. QED BY <1>1, <2>1, <2>2, StepAlone
<1>4. CASE ~(S!AddsColumn(o.db, o.next) /\ o.next \in tables[o.db])
    <2> DEFINE r == [o EXCEPT !.stage = "record"]
    <2>1. S!Step(p, r) /\ tables' = [tables EXCEPT ![o.db] = @ \cup {o.next}] /\ UNCHANGED <<versions, deaths>>
        BY <1>4 DEF S!Migrate
    <2>2. r \in OpenerTypes /\ r.stage = "record" /\ r.db = o.db /\ r.next = o.next
        BY <1>1 DEF OpenerTypes
    <2>3. /\ opener' \in [Openers -> OpenerTypes] /\ opener'[p] = r
          /\ \A q \in Openers : q # p => opener'[q] = opener[q]
        BY <2>1, <2>2 DEF S!Step, SchemaInv
    <2> HIDE DEF r, o
    <2>4. S!Last[o.db] \in 1 .. 3 BY <1>1, DatabasesOf
    <2>5. /\ tables' \in [S!Databases -> SUBSET (1 .. 3)]
          /\ \A db \in S!Databases : tables'[db] = IF db = o.db THEN tables[db] \cup {o.next} ELSE tables[db]
        <3>1. o.next \in 1 .. 3 BY <1>2, <2>4
        <3>2. tables[o.db] \cup {o.next} \in SUBSET (1 .. 3) BY <1>1, <3>1 DEF SchemaInv
        <3>3. QED BY <1>1, <2>1, <3>2 DEF SchemaInv
    <2>6. \A db \in S!Databases : tables[db] \subseteq tables'[db] /\ tables'[db] \subseteq 1 .. S!Last[db]
        BY <1>2, <2>5 DEF SchemaInv
    <2>7. BehindSchema'
        <3> SUFFICES ASSUME NEW q \in Openers
                     PROVE  /\ opener'[q].stage \in {"migrate", "record"} =>
                                  /\ opener'[q].next \in 1 .. S!Last[opener'[q].db]
                                  /\ \A v \in 1 .. 3 : v < opener'[q].next => v \in versions'[opener'[q].db]
                            /\ opener'[q].stage = "record" => opener'[q].next \in tables'[opener'[q].db]
            BY DEF BehindSchema
        <3>1. CASE q = p BY <1>1, <1>2, <2>1, <2>2, <2>3, <2>5, <3>1
        <3>2. CASE q # p
            <4>1. opener'[q] = opener[q] /\ opener[q].db \in S!Databases
                BY <2>3, <3>2 DEF SchemaInv, OpenerTypes
            <4>2. QED BY <2>1, <2>6, <4>1 DEF SchemaInv, BehindSchema
        <3>3. QED BY <3>1, <3>2
    <2>8. \A q \in Openers : opener'[q].stage = "open" => versions'[opener'[q].db] = 1 .. S!Last[opener'[q].db]
        BY <2>1, <2>2, <2>3 DEF SchemaInv
    <2>9. ASSUME 3 \in tables'["memory"] /\ 3 \notin versions'["memory"]
          PROVE  (\E q \in Openers : Between(opener'[q])) \/ (\E i \in 1 .. Len(deaths') : Between(deaths'[i]))
        <3>1. CASE 3 \in tables["memory"]
            <4>1. (\E q \in Openers : Between(opener[q])) \/ (\E i \in 1 .. Len(deaths) : Between(deaths[i]))
                BY <2>1, <2>9, <3>1 DEF SchemaInv
            <4>2. \A q \in Openers : Between(opener[q]) => Between(opener'[q])
                BY <1>1, <2>3 DEF o
            <4>3. QED BY <2>1, <4>1, <4>2
        <3>2. CASE 3 \notin tables["memory"]
            <4>1. o.db = "memory" /\ o.next = 3 BY <2>5, <2>9, <3>2, DatabasesOf
            <4>2. Between(opener'[p]) BY <2>2, <2>3, <4>1 DEF Between
            <4>3. QED BY <4>2
        <3>3. QED BY <3>1, <3>2
    <2>10. QED BY <2>1, <2>3, <2>5, <2>6, <2>7, <2>8, <2>9 DEF SchemaInv
<1>5. QED BY <1>3, <1>4

\* The version of a migration that ran is recorded.
LEMMA RecordKept ==
    ASSUME SchemaInv, NEW p \in Openers, S!Record(p)
    PROVE  SchemaInv'
<1> DEFINE o == opener[p]
<1>1. o \in OpenerTypes /\ o.stage = "record" /\ o.db \in S!Databases
    BY DEF SchemaInv, S!Record, S!At, OpenerTypes
<1>2. o.next \in 1 .. S!Last[o.db] /\ o.next \in tables[o.db]
      /\ \A v \in 1 .. 3 : v < o.next => v \in versions[o.db]
    BY <1>1 DEF SchemaInv, BehindSchema
<1>3. CASE o.next \in versions[o.db]
    <2> DEFINE r == [o EXCEPT !.stage = "failed"]
    <2>1. S!Step(p, r) /\ UNCHANGED <<tables, versions, deaths>> BY <1>3 DEF S!Record
    <2>2. r \in OpenerTypes /\ r.stage = "failed" BY <1>1 DEF OpenerTypes
    <2>3. Between(o) => 3 \in versions["memory"] BY <1>3 DEF Between
    <2> HIDE DEF r
    <2>4. QED BY <1>1, <2>1, <2>2, <2>3, StepAlone
<1>4. CASE o.next \notin versions[o.db]
    <2> DEFINE r == IF o.next = S!Last[o.db] THEN [o EXCEPT !.stage = "open"]
                    ELSE [o EXCEPT !.stage = "migrate", !.next = @ + 1]
    <2>1. /\ S!Step(p, r) /\ versions' = [versions EXCEPT ![o.db] = @ \cup {o.next}]
          /\ UNCHANGED <<tables, deaths>>
        BY <1>4 DEF S!Record
    <2>4. S!Last[o.db] \in 1 .. 3 /\ o.next \in 1 .. 3 BY <1>1, <1>2, DatabasesOf
    <2>2. /\ r \in OpenerTypes /\ r.db = o.db
          /\ \/ o.next = S!Last[o.db] /\ r.stage = "open"
             \/ o.next # S!Last[o.db] /\ r.stage = "migrate" /\ r.next = o.next + 1
        <3>1. \A s \in {"open", "migrate"} : [o EXCEPT !.stage = s] \in OpenerTypes
            BY <1>1 DEF OpenerTypes
        <3>2. \A n \in 0 .. 4 : \A q \in OpenerTypes : [q EXCEPT !.next = n] \in OpenerTypes
            BY DEF OpenerTypes
        <3>3. o.next + 1 \in 0 .. 4 BY <2>4
        <3>4. CASE o.next = S!Last[o.db] BY <1>1, <3>1, <3>4 DEF OpenerTypes
        <3>5. CASE o.next # S!Last[o.db] BY <1>1, <3>1, <3>2, <3>3, <3>5 DEF OpenerTypes
        <3>6. QED BY <3>4, <3>5
    <2>3. /\ opener' \in [Openers -> OpenerTypes] /\ opener'[p] = r
          /\ \A q \in Openers : q # p => opener'[q] = opener[q]
        BY <2>1, <2>2 DEF S!Step, SchemaInv
    <2> HIDE DEF r, o
    <2>5. /\ versions' \in [S!Databases -> SUBSET (1 .. 3)]
          /\ \A db \in S!Databases : versions'[db] = IF db = o.db THEN versions[db] \cup {o.next} ELSE versions[db]
        BY <1>1, <2>1, <2>4 DEF SchemaInv
    <2>6. \A db \in S!Databases : /\ versions[db] \subseteq versions'[db] /\ versions'[db] \subseteq tables'[db]
                                /\ tables'[db] \subseteq 1 .. S!Last[db]
        BY <1>2, <2>1, <2>5 DEF SchemaInv
    <2>7. ASSUME NEW db \in S!Databases, NEW v \in versions'[db], NEW u \in 1 .. 3, u < v
          PROVE  u \in versions'[db]
        <3>1. CASE v \in versions[db] BY <2>6, <2>7, <3>1 DEF SchemaInv
        <3>2. CASE v \notin versions[db]
            <4>1. db = o.db /\ v = o.next BY <2>5, <3>2
            <4>2. QED BY <1>2, <2>6, <2>7, <4>1
        <3>3. QED BY <3>1, <3>2
    <2>8. \A v \in 1 .. 3 : v <= o.next => v \in versions'[o.db]
        BY <1>1, <1>2, <2>4, <2>5
    <2>9. BehindSchema'
        <3> SUFFICES ASSUME NEW q \in Openers
                     PROVE  /\ opener'[q].stage \in {"migrate", "record"} =>
                                  /\ opener'[q].next \in 1 .. S!Last[opener'[q].db]
                                  /\ \A v \in 1 .. 3 : v < opener'[q].next => v \in versions'[opener'[q].db]
                            /\ opener'[q].stage = "record" => opener'[q].next \in tables'[opener'[q].db]
            BY DEF BehindSchema
        <3>1. CASE q = p
            <4>1. r.stage = "migrate" => r.next \in 1 .. S!Last[o.db] /\ r.next = o.next + 1
                BY <1>2, <2>2, <2>4
            <4>2. r.stage = "migrate" => \A v \in 1 .. 3 : v < r.next => v \in versions'[o.db]
                BY <2>4, <2>8, <4>1
            <4>3. QED BY <2>2, <2>3, <3>1, <4>1, <4>2
        <3>2. CASE q # p
            <4>1. opener'[q] = opener[q] /\ opener[q].db \in S!Databases
                BY <2>3, <3>2 DEF SchemaInv, OpenerTypes
            <4>2. QED BY <2>1, <2>6, <4>1 DEF SchemaInv, BehindSchema
        <3>3. QED BY <3>1, <3>2
    <2>10. ASSUME NEW q \in Openers, opener'[q].stage = "open"
           PROVE  versions'[opener'[q].db] = 1 .. S!Last[opener'[q].db]
        <3>1. CASE q = p
            <4>1. o.next = S!Last[o.db] /\ r.db = o.db BY <2>2, <2>3, <2>10, <3>1
            <4>2. \A v \in 1 .. S!Last[o.db] : v \in versions'[o.db] BY <2>4, <2>8, <4>1
            <4>3. versions'[o.db] \subseteq 1 .. S!Last[o.db] BY <1>1, <2>6
            <4>4. QED BY <2>3, <3>1, <4>1, <4>2, <4>3
        <3>2. CASE q # p
            <4>1. opener[q] \in OpenerTypes /\ opener'[q] = opener[q] BY <2>3, <3>2 DEF SchemaInv
            <4>2. opener[q].db \in S!Databases /\ versions[opener[q].db] = 1 .. S!Last[opener[q].db]
                BY <2>10, <4>1 DEF SchemaInv, OpenerTypes
            <4>3. versions'[opener[q].db] \subseteq 1 .. S!Last[opener[q].db] BY <2>6, <4>2
            <4>4. QED BY <2>6, <4>1, <4>2, <4>3
        <3>3. QED BY <3>1, <3>2
    <2>11. ASSUME 3 \in tables'["memory"] /\ 3 \notin versions'["memory"]
           PROVE  (\E q \in Openers : Between(opener'[q])) \/ (\E i \in 1 .. Len(deaths') : Between(deaths'[i]))
        <3>1. 3 \notin versions["memory"] /\ ~(o.db = "memory" /\ o.next = 3)
            BY <2>5, <2>6, <2>11, DatabasesOf
        <3>2. (\E q \in Openers : Between(opener[q])) \/ (\E i \in 1 .. Len(deaths) : Between(deaths[i]))
            BY <2>1, <2>11, <3>1 DEF SchemaInv
        <3>3. \A q \in Openers : Between(opener[q]) => Between(opener'[q])
            BY <2>3, <3>1 DEF o, Between
        <3>4. QED BY <2>1, <3>2, <3>3
    <2>12. QED BY <2>1, <2>3, <2>5, <2>6, <2>7, <2>9, <2>10, <2>11 DEF SchemaInv
<1>5. QED BY <1>3, <1>4

\* Every step keeps the invariant.
LEMMA SchemaKept == SchemaInv /\ [S!Next]_S!schemaVars => SchemaInv'
<1> SUFFICES ASSUME SchemaInv, [S!Next]_S!schemaVars PROVE SchemaInv'
    OBVIOUS
<1>1. CASE UNCHANGED S!schemaVars
    BY <1>1 DEF S!schemaVars, SchemaInv, BehindSchema
<1>2. ASSUME NEW p \in Openers, NEW db \in S!Databases, S!Open(p, db) PROVE SchemaInv'
    BY <1>2, OpenKept
<1>3. ASSUME NEW p \in Openers, S!Migrate(p) \/ S!Record(p) PROVE SchemaInv'
    BY <1>3, MigrateKept, RecordKept
<1>4. ASSUME NEW p \in Openers, S!Close(p) \/ S!Die(p) PROVE SchemaInv'
    <2>1. S!Closed \in OpenerTypes /\ S!Closed.stage = "closed" BY DatabasesOf DEF S!Closed, OpenerTypes
    <2>2. CASE S!Close(p) BY <2>1, <2>2, StepAlone DEF S!Close, S!At, Between
    <2>3. CASE S!Die(p) BY <2>1, <2>3, StepAlone DEF S!Die
    <2>4. QED BY <1>4, <2>2, <2>3
<1>5. QED BY <1>1, <1>2, <1>3, <1>4 DEF S!Next

\* The invariant has all that SchemaComplete asks of the two databases.
LEMMA SchemaHolds == SchemaInv => S!SchemaComplete
<1> SUFFICES ASSUME SchemaInv PROVE S!SchemaComplete
    OBVIOUS
<1>1. ASSUME NEW db \in S!Databases, NEW v \in versions[db] PROVE 1 .. v \subseteq versions[db]
    <2>1. v \in 1 .. 3 BY DEF SchemaInv
    <2>2. \A u \in 1 .. v : u \in 1 .. 3 /\ (u < v \/ u = v) BY <2>1
    <2>3. QED BY <2>2 DEF SchemaInv
<1>2. ASSUME S!Stuck
      PROVE  \E i \in DOMAIN deaths : deaths[i] = [db |-> "memory", stage |-> "record", next |-> 3]
    <2>1. ~\E p \in Openers : Between(opener[p]) BY <1>2 DEF S!Stuck, S!At, Between
    <2>2. PICK i \in 1 .. Len(deaths) : Between(deaths[i]) BY <1>2, <2>1 DEF S!Stuck, SchemaInv
    <2>3. i \in DOMAIN deaths /\ deaths[i] \in OpenerTypes BY <2>2 DEF SchemaInv
    <2>4. \A o \in OpenerTypes : Between(o) => o = [db |-> "memory", stage |-> "record", next |-> 3]
        BY DEF OpenerTypes, Between
    <2>5. QED BY <2>2, <2>3, <2>4
<1>3. \A db \in S!Databases : versions[db] \subseteq tables[db] BY DEF SchemaInv
<1>4. \A p \in Openers : S!At(p, "open") => versions[opener[p].db] = 1 .. S!Last[opener[p].db]
    BY DEF SchemaInv, S!At
<1>5. QED BY <1>1, <1>2, <1>3, <1>4 DEF S!SchemaComplete

\* In the control plane Schema moves as its module says, or not at all.
LEMMA SchemaBeside == ControlPlaneSpec => S!Spec
  <1>1. ControlPlaneInit => S!Init
    BY DEF ControlPlaneInit
  <1>2. [ControlPlaneNext]_controlPlane => [S!Next]_S!schemaVars
    BY DEF ControlPlaneNext, MeteringStep, IdentityStep, BillingStep, RollupStep, LimiterStep, MemoryStep,
           RecordsStep, SchemaStep, MigrationsStep, PullsStep, controlPlane, schema, S!schemaVars
  <1>. QED
    BY <1>1, <1>2, PTL DEF ControlPlaneSpec, S!Spec

----------------------------------------------------------------------------
(* Migrations of the shared store (Migrations) *)

\* The files go at least to the one the store's tables need, and a process is
\* of one kind.
Deployed ==
    /\ LastFile \in Nat /\ LastFile >= 4
    /\ Stores \cap Scripts = {} /\ Shells \cap Scripts = {}

Sessions == [stage : {"closed", "failed", "created", "apply", "rollback", "open"},
             run : SUBSET G!Versions, stamp : SUBSET G!Versions, delete : SUBSET G!Versions]

MigrationsTyped ==
    /\ made \subseteq G!Versions /\ G!Recorded \subseteq made
    /\ session \in [G!Procs -> Sessions] /\ crossed \in BOOLEAN

\* pg_advisory_xact_lock excludes within each of the two locks.
OneHolder == \A p, q \in G!Procs : p # q /\ G!InTransaction(p) /\ G!InTransaction(q) => ~G!SameLock(p, q)

\* What a transaction read when it began still fits what is recorded.
PlansFit ==
    \A p \in G!Procs :
        /\ session[p].stage = "rollback" => p \notin Scripts
        /\ session[p].stage = "apply" /\ p \notin Scripts => G!Versions \subseteq G!Recorded \cup session[p].run
        /\ session[p].stage = "apply" /\ ~crossed =>
              \A v \in session[p].run : 1 .. v \subseteq G!Recorded \cup session[p].run
        /\ session[p].stage = "rollback" /\ ~crossed =>
              \A v \in session[p].delete, w \in G!Recorded : w >= v => w \in session[p].delete

MigrationsInv == MigrationsTyped /\ OneHolder /\ PlansFit /\ G!MigrationsWhole

----------------------------------------------------------------------------
\* A session that holds no transaction.
LEMMA OutsideSessions ==
    /\ G!Closed \in Sessions /\ G!Failed \in Sessions
    /\ G!Closed.stage = "closed" /\ G!Failed.stage = "failed"
    /\ \A s \in {"created", "open"} :
          [G!Closed EXCEPT !.stage = s] \in Sessions /\ [G!Closed EXCEPT !.stage = s].stage = s
  BY DEF G!Closed, G!Failed, Sessions

\* The initial states.
LEMMA MigrationsInit == Deployed /\ G!Init => MigrationsInv
  <1> SUFFICES ASSUME Deployed, G!Init PROVE MigrationsInv
    OBVIOUS
  <1>1. PICK last \in 0 .. LastFile : rows = [v \in 1 .. last |-> "legacy"] /\ made = 1 .. last
    BY DEF G!Init
  <1>2. G!Recorded = 1 .. last /\ 1 .. last \subseteq G!Versions
    BY <1>1 DEF G!Recorded, G!Versions, Deployed
  <1>3. \A v \in 1 .. last : 1 .. v \subseteq 1 .. last
    BY DEF Deployed
  <1>4. MigrationsTyped
    BY <1>1, <1>2, OutsideSessions DEF G!Init, MigrationsTyped
  <1>5. \A p \in G!Procs : session[p].stage = "closed"
    BY OutsideSessions DEF G!Init
  <1>6. OneHolder /\ PlansFit
    BY <1>5 DEF OneHolder, PlansFit, G!InTransaction
  <1>7. G!MigrationsWhole
    BY <1>2, <1>3, <1>4, <1>5 DEF G!MigrationsWhole, MigrationsTyped, G!Procs
  <1> QED
    BY <1>4, <1>6, <1>7 DEF MigrationsInv

\* A process leaves its transaction, or makes tables, and records nothing.
LEMMA OutsideKept ==
    ASSUME Deployed, MigrationsInv, NEW p \in G!Procs, NEW s \in Sessions,
           s.stage \notin {"apply", "rollback", "open"}, G!Goto(p, s),
           made \subseteq made', made' \subseteq G!Versions, rows' = rows, crossed => crossed', crossed' \in BOOLEAN
    PROVE  MigrationsInv'
  <1>1. /\ session'[p] = s /\ \A q \in G!Procs : q # p => session'[q] = session[q]
        /\ session' \in [G!Procs -> Sessions]
    BY DEF G!Goto, MigrationsInv, MigrationsTyped
  <1>2. MigrationsTyped'
    BY <1>1 DEF MigrationsInv, MigrationsTyped, G!Recorded
  <1>3. OneHolder'
    BY <1>1 DEF MigrationsInv, OneHolder, G!InTransaction, G!SameLock
  <1>4. PlansFit'
    BY <1>1 DEF MigrationsInv, PlansFit, G!Recorded
  <1>5. G!MigrationsWhole'
    BY <1>1 DEF MigrationsInv, MigrationsTyped, G!MigrationsWhole, G!Recorded, G!Procs
  <1> QED
    BY <1>2, <1>3, <1>4, <1>5 DEF MigrationsInv

\* The files up to a target, beside what is recorded (migrate,
\* apply_postgres_migrations).
LEMMA PlanFits ==
    ASSUME Deployed, MigrationsInv, NEW p \in G!Procs, NEW target \in 0 .. LastFile
    PROVE  \/ G!Plan(p, target) = G!Failed
           \/ /\ G!Plan(p, target) \in Sessions /\ G!Plan(p, target).stage = "apply"
              /\ target = LastFile => G!Versions \subseteq G!Recorded \cup G!Plan(p, target).run
              /\ ~crossed => \A v \in G!Plan(p, target).run : 1 .. v \subseteq G!Recorded \cup G!Plan(p, target).run
  <1> DEFINE s == [stage |-> "apply", run |-> (1 .. target) \ ((1 .. target) \cap G!Recorded),
                   stamp |-> {v \in (1 .. target) \cap G!Recorded : rows[v] = "legacy"}, delete |-> {}]
  <1>1. G!Plan(p, target) = G!Failed \/ G!Plan(p, target) = s
    BY DEF G!Plan
  <1>2. 1 .. target \subseteq G!Versions
    BY DEF G!Versions, Deployed
  <1>3. s \in Sessions /\ s.stage = "apply"
    BY <1>2 DEF Sessions
  <1>4. 1 .. target \subseteq G!Recorded \cup s.run
    OBVIOUS
  <1>5. \A v \in s.run : 1 .. v \subseteq 1 .. target
    BY DEF Deployed
  <1>6. target = LastFile => G!Versions \subseteq G!Recorded \cup s.run
    BY <1>4 DEF G!Versions
  <1> HIDE DEF s
  <1> QED
    BY <1>1, <1>3, <1>4, <1>5, <1>6

\* A transaction begins under its lock.
LEMMA BeginKept ==
    ASSUME Deployed, MigrationsInv, NEW p \in G!Procs, NEW s \in Sessions, G!Begins(p), G!Goto(p, s),
           UNCHANGED <<made, rows, crossed>>,
           s.stage \in {"apply", "rollback"},
           s.stage = "rollback" => p \notin Scripts,
           s.stage = "apply" /\ p \notin Scripts => G!Versions \subseteq G!Recorded \cup s.run,
           s.stage = "apply" /\ ~crossed => \A v \in s.run : 1 .. v \subseteq G!Recorded \cup s.run,
           s.stage = "rollback" => \A v \in s.delete, w \in G!Recorded : w >= v => w \in s.delete
    PROVE  MigrationsInv'
  <1>1. /\ session'[p] = s /\ \A q \in G!Procs : q # p => session'[q] = session[q]
        /\ session' \in [G!Procs -> Sessions]
    BY DEF G!Goto, MigrationsInv, MigrationsTyped
  <1>2. MigrationsTyped'
    BY <1>1 DEF MigrationsInv, MigrationsTyped, G!Recorded
  <1>3. OneHolder'
    BY <1>1 DEF MigrationsInv, OneHolder, G!InTransaction, G!SameLock, G!Begins
  <1>4. PlansFit'
    BY <1>1 DEF MigrationsInv, PlansFit, G!Recorded
  <1>5. G!MigrationsWhole'
    BY <1>1 DEF MigrationsInv, G!MigrationsWhole, G!Recorded, G!Procs
  <1> QED
    BY <1>2, <1>3, <1>4, <1>5 DEF MigrationsInv

\* apply_postgres_migrations and migrate commit.
LEMMA CommitApplyKept == ASSUME Deployed, MigrationsInv, NEW p \in G!Procs, G!CommitApply(p) PROVE MigrationsInv'
  <1> DEFINE s == session[p]
  <1>0. s \in Sessions /\ s.stage = "apply" /\ crossed' \in BOOLEAN /\ (crossed => crossed')
    BY DEF G!CommitApply, MigrationsInv, MigrationsTyped
  <1>1. CASE s.run \cap G!Recorded # {}
    BY <1>0, <1>1, OutsideSessions, OutsideKept DEF G!CommitApply, MigrationsInv, MigrationsTyped
  <1>2. CASE s.run \cap G!Recorded = {}
    <2> DEFINE n == IF p \in Stores THEN [G!Closed EXCEPT !.stage = "open"] ELSE G!Closed
    <2>1. /\ G!Recorded' = G!Recorded \cup s.run /\ made' = made \cup s.run
          /\ G!Goto(p, n)
      BY <1>2 DEF G!CommitApply, G!Recorded
    <2>2. n \in Sessions /\ (n.stage = "closed" \/ (n.stage = "open" /\ p \in Stores))
      BY OutsideSessions
    <2> HIDE DEF n
    <2>3. /\ session'[p] = n /\ \A q \in G!Procs : q # p => session'[q] = session[q]
          /\ session' \in [G!Procs -> Sessions]
      BY <2>1, <2>2 DEF G!Goto, MigrationsInv, MigrationsTyped
    <2>4. MigrationsTyped'
      BY <1>0, <2>1, <2>3 DEF MigrationsInv, MigrationsTyped, Sessions
    <2>5. OneHolder'
      BY <2>2, <2>3 DEF MigrationsInv, OneHolder, G!InTransaction, G!SameLock
    <2>6. PlansFit'
      <3> SUFFICES ASSUME NEW q \in G!Procs, q # p, session[q].stage \in {"apply", "rollback"}
                   PROVE  /\ session[q].stage = "rollback" => q \notin Scripts
                          /\ session[q].stage = "apply" /\ q \notin Scripts =>
                                G!Versions \subseteq G!Recorded' \cup session[q].run
                          /\ session[q].stage = "apply" /\ ~crossed' =>
                                \A v \in session[q].run : 1 .. v \subseteq G!Recorded' \cup session[q].run
                          /\ session[q].stage = "rollback" /\ ~crossed' =>
                                \A v \in session[q].delete, w \in G!Recorded' : w >= v => w \in session[q].delete
        BY <2>2, <2>3 DEF PlansFit
      <3>1. ~G!SameLock(p, q)
        BY <1>0 DEF MigrationsInv, OneHolder, G!InTransaction
      <3>2. session[q].stage = "rollback" => crossed'
        BY <1>0, <3>1 DEF G!CommitApply, G!Crossing, G!InTransaction
      <3> QED
        BY <1>0, <2>1, <3>2 DEF MigrationsInv, PlansFit
    <2>7. G!MigrationsWhole'
      <3>1. ~crossed' => \A v \in G!Recorded' : 1 .. v \subseteq G!Recorded'
        BY <1>0, <2>1 DEF MigrationsInv, PlansFit, G!MigrationsWhole
      <3>2. ASSUME NEW q \in Stores, session'[q].stage = "open" PROVE made' = G!Versions
        <4>1. CASE q = p
          <5>1. p \notin Scripts
            BY <3>2, <4>1 DEF Deployed
          <5>2. G!Versions \subseteq G!Recorded \cup s.run
            BY <1>0, <5>1 DEF MigrationsInv, PlansFit
          <5> QED
            BY <1>0, <2>1, <5>2 DEF MigrationsInv, MigrationsTyped, Sessions
        <4>2. CASE q # p
          BY <1>0, <2>1, <2>3, <3>2, <4>2 DEF MigrationsInv, MigrationsTyped, G!MigrationsWhole, Sessions, G!Procs
        <4> QED
          BY <4>1, <4>2
      <3> QED
        BY <2>4, <3>1, <3>2 DEF G!MigrationsWhole, MigrationsTyped
    <2> QED
      BY <2>4, <2>5, <2>6, <2>7 DEF MigrationsInv
  <1> QED
    BY <1>1, <1>2

\* rollback_postgres_migration commits.
LEMMA CommitRollbackKept == ASSUME Deployed, MigrationsInv, NEW p \in G!Procs, G!CommitRollback(p) PROVE MigrationsInv'
  <1> DEFINE s == session[p]
  <1>0. s \in Sessions /\ s.stage = "rollback" /\ crossed' \in BOOLEAN /\ (crossed => crossed')
    BY DEF G!CommitRollback, MigrationsInv, MigrationsTyped
  <1>1. G!Recorded' = G!Recorded \ s.delete /\ made' = made /\ G!Goto(p, G!Closed)
    BY DEF G!CommitRollback, G!Recorded
  <1>2. /\ session'[p] = G!Closed /\ \A q \in G!Procs : q # p => session'[q] = session[q]
        /\ session' \in [G!Procs -> Sessions]
    BY <1>1, OutsideSessions DEF G!Goto, MigrationsInv, MigrationsTyped
  <1>3. MigrationsTyped'
    BY <1>0, <1>1, <1>2 DEF MigrationsInv, MigrationsTyped
  <1>4. OneHolder'
    BY <1>2, OutsideSessions DEF MigrationsInv, OneHolder, G!InTransaction, G!SameLock
  <1>5. PlansFit'
    <2> SUFFICES ASSUME NEW q \in G!Procs, q # p, session[q].stage \in {"apply", "rollback"}
                 PROVE  session[q].stage = "apply" /\ q \in Scripts /\ crossed'
      BY <1>2, OutsideSessions DEF PlansFit
    <2>1. ~G!SameLock(p, q)
      BY <1>0 DEF MigrationsInv, OneHolder, G!InTransaction
    <2>2. p \notin Scripts
      BY <1>0 DEF MigrationsInv, PlansFit
    <2>3. q \in Scripts /\ session[q].stage = "apply"
      BY <2>1, <2>2 DEF G!SameLock, MigrationsInv, PlansFit
    <2> QED
      BY <1>0, <2>1, <2>3 DEF G!CommitRollback, G!Crossing, G!InTransaction
  <1>6. G!MigrationsWhole'
    <2>1. ~crossed' => \A v \in G!Recorded' : 1 .. v \subseteq G!Recorded'
      <3> SUFFICES ASSUME ~crossed', NEW v \in G!Recorded \ s.delete, NEW w \in 1 .. v
                   PROVE  w \in G!Recorded /\ w \notin s.delete
        BY <1>1
      <3>1. v \in G!Versions /\ w \in G!Recorded
        BY <1>0 DEF MigrationsInv, MigrationsTyped, G!MigrationsWhole
      <3>2. v >= w
        BY <3>1 DEF G!Versions, Deployed
      <3> QED
        BY <1>0, <3>1, <3>2 DEF MigrationsInv, PlansFit
    <2> QED
      BY <1>1, <1>2, <1>3, <2>1, OutsideSessions DEF MigrationsInv, MigrationsTyped, G!MigrationsWhole, G!Procs
  <1> QED
    BY <1>3, <1>4, <1>5, <1>6 DEF MigrationsInv

\* Each step of each process keeps the invariant.
LEMMA MigrationsKept ==
    ASSUME Deployed, MigrationsInv, [G!Next]_G!migrationVars
    PROVE  MigrationsInv'
  <1>1. CASE UNCHANGED G!migrationVars
    BY <1>1 DEF G!migrationVars, MigrationsInv, MigrationsTyped, OneHolder, PlansFit, G!MigrationsWhole, G!Recorded,
                G!InTransaction, G!SameLock
  <1>2. CASE G!Next
    <2>1. PICK p \in G!Procs :
              \/ G!CreateTables(p) \/ G!Apply(p) \/ G!CommitApply(p) \/ G!CommitRollback(p) \/ G!Abort(p)
              \/ \E target \in 0 .. LastFile : G!Migrate(p, target) \/ G!Rollback(p, target)
      BY <1>2 DEF G!Next
    <2>2. CASE G!CreateTables(p)
      <3>1. {1, 3, 4} \subseteq G!Versions
        BY DEF G!Versions, Deployed
      <3> QED
        BY <2>2, <3>1, OutsideSessions, OutsideKept DEF G!CreateTables, MigrationsInv, MigrationsTyped
    <2>3. CASE G!Apply(p)
      <3>1. LastFile \in 0 .. LastFile /\ p \notin Scripts /\ G!Goto(p, G!Plan(p, LastFile)) /\ UNCHANGED <<made, rows, crossed>>
        BY <2>3 DEF G!Apply, Deployed
      <3>2. G!Begins(p)
        BY <2>3 DEF G!Apply
      <3>3. CASE G!Plan(p, LastFile) = G!Failed
        BY <3>1, <3>3, OutsideSessions, OutsideKept DEF MigrationsInv, MigrationsTyped
      <3>4. CASE G!Plan(p, LastFile) # G!Failed
        BY <3>1, <3>2, <3>4, PlanFits, BeginKept
      <3> QED
        BY <3>3, <3>4
    <2>4. ASSUME NEW target \in 0 .. LastFile, G!Migrate(p, target) PROVE MigrationsInv'
      <3>1. p \in Scripts /\ G!Begins(p) /\ UNCHANGED <<made, rows, crossed>>
        BY <2>4 DEF G!Migrate
      <3>2. CASE G!Goto(p, G!Failed)
        BY <3>1, <3>2, OutsideSessions, OutsideKept DEF MigrationsInv, MigrationsTyped
      <3>3. CASE G!Goto(p, G!Plan(p, target)) /\ G!Plan(p, target) # G!Failed
        BY <3>1, <3>3, PlanFits, BeginKept
      <3> QED
        BY <2>4, <3>2, <3>3 DEF G!Migrate
    <2>5. ASSUME NEW target \in 0 .. LastFile, G!Rollback(p, target) PROVE MigrationsInv'
      <3> DEFINE s == [G!Closed EXCEPT !.stage = "rollback", !.delete = {v \in G!Recorded : v > target}]
      <3>1. /\ p \notin Scripts /\ G!Begins(p) /\ G!Goto(p, s) /\ UNCHANGED <<made, rows, crossed>>
        BY <2>5 DEF G!Rollback, Deployed
      <3>2. s \in Sessions /\ s.stage = "rollback" /\ s.delete = {v \in G!Recorded : v > target}
        BY DEF G!Closed, Sessions, MigrationsInv, MigrationsTyped
      <3> HIDE DEF s
      <3>3. \A v \in s.delete, w \in G!Recorded : w >= v => w \in s.delete
        <4>1. G!Recorded \subseteq Int /\ target \in Int
          BY DEF MigrationsInv, MigrationsTyped, G!Versions, Deployed
        <4>2. ASSUME NEW v \in s.delete, NEW w \in G!Recorded, w >= v PROVE w \in s.delete
          <5>1. v > target /\ v \in Int /\ w \in Int
            BY <3>2, <4>1
          <5>2. w > target
            BY <4>1, <4>2, <5>1
          <5> QED
            BY <3>2, <5>2
        <4> QED
          BY <4>2
      <3> QED
        BY <3>1, <3>2, <3>3, BeginKept
    <2>6. CASE G!Abort(p)
      BY <2>6, OutsideSessions, OutsideKept DEF G!Abort, MigrationsInv, MigrationsTyped
    <2>7. CASE G!CommitApply(p)
      BY <2>7, CommitApplyKept
    <2>8. CASE G!CommitRollback(p)
      BY <2>8, CommitRollbackKept
    <2> QED
      BY <2>1, <2>2, <2>3, <2>4, <2>5, <2>6, <2>7, <2>8
  <1> QED
    BY <1>1, <1>2

\* The deployment that ControlPlane assumes.
LEMMA IsDeployed == Deployed
  BY MigrationsAssumption DEF Deployed

\* In the control plane Migrations moves as its module says, or not at all.
LEMMA MigrationsBeside == ControlPlaneSpec => G!Spec
  <1>1. ControlPlaneInit => G!Init
    BY DEF ControlPlaneInit
  <1>2. [ControlPlaneNext]_controlPlane => [G!Next]_G!migrationVars
    BY DEF ControlPlaneNext, MeteringStep, IdentityStep, BillingStep, RollupStep, LimiterStep, MemoryStep,
           RecordsStep, SchemaStep, MigrationsStep, PullsStep, controlPlane, migrations, G!migrationVars
  <1>. QED
    BY <1>1, <1>2, PTL DEF ControlPlaneSpec, G!Spec

\* SchemaComplete: whatever processes race, die or abort, a version that a
\* SQLite store records ran with all before it, an open store has every one,
\* and the memory store gets stuck only by a process that died between the new
\* column and its version; and in the shared store a recorded version ran, the
\* versions have no gap unless a rollback crossed a script, and an open store
\* finds all that its release uses (_apply_migrations of both stores,
\* apply_postgres_migrations, rollback_postgres_migration,
\* postgres_migrate.migrate).
THEOREM SchemaIsComplete == ControlPlaneSpec => []SchemaComplete
  <1>1. S!Spec => []S!SchemaComplete
    BY SchemaInit, SchemaKept, SchemaHolds, PTL DEF S!Spec
  <1>2. G!Spec => []G!MigrationsWhole
    <2>1. G!Init => MigrationsInv
      BY IsDeployed, MigrationsInit
    <2>2. MigrationsInv /\ [G!Next]_G!migrationVars => MigrationsInv'
      BY IsDeployed, MigrationsKept
    <2>3. MigrationsInv => G!MigrationsWhole
      BY DEF MigrationsInv
    <2>. QED
      BY <2>1, <2>2, <2>3, PTL DEF G!Spec
  <1>. QED
    BY <1>1, <1>2, SchemaBeside, MigrationsBeside, PTL DEF SchemaComplete

----------------------------------------------------------------------------
(* Pull requests (PullRequests) *)

\* Calls under way, and those of a bot that were sent or not yet answered.
PrCalls == [stage : {"none", "post", "opened"}, bot : Bots \cup {"none"}]
Asked(bot) == {r \in FixRuns : call[r].bot = bot /\ call[r].stage = "post"}
Unanswered(bot) == {r \in FixRuns : call[r].bot = bot /\ call[r].stage = "opened"}

\* What the proof needs to know of the types.
PrTypes ==
    /\ counted \in [Bots -> Nat] /\ opened \in [Bots -> Nat] /\ unheard \in [Bots -> Nat]
    /\ call \in [FixRuns -> PrCalls]
    /\ applied \subseteq FixRuns /\ tree \subseteq FixRuns
    /\ localBranches \in [P!Branches \cup {"main"} -> (SUBSET FixRuns) \cup {P!Absent}]
    /\ remote \in [P!Branches -> (SUBSET FixRuns) \cup {P!Absent}]

\* Requests under way count against the limit, except where another went by.
Within(bot) ==
    /\ opened[bot] <= counted[bot] + unheard[bot] + Cardinality(Unanswered(bot))
    /\ opened[bot] + Cardinality(Asked(bot)) <= MaxOpenPrs + unheard[bot] + Cardinality(FixRuns) - 1

\* The contents of the branches form a chain, with all that was applied on top.
Chain ==
    /\ head \in P!Branches \cup {"main"} /\ localBranches[head] # P!Absent
    /\ tree \cup localBranches[head] = applied
    /\ \A b \in P!Branches : remote[b] \in {P!Absent, localBranches[b]}
    /\ \A b \in P!Branches \cup {"main"} : localBranches[b] # P!Absent => localBranches[b] \subseteq applied
    /\ \A a, b \in P!Branches \cup {"main"} :
          localBranches[a] # P!Absent /\ localBranches[b] # P!Absent => localBranches[a] \subseteq localBranches[b] \/ localBranches[b] \subseteq localBranches[a]
    /\ \A p \in prs : p.branch \in P!Branches /\ remote[p.branch] # P!Absent /\ p.runs = remote[p.branch]

PrInv == PrTypes /\ Chain /\ \A bot \in Bots : Within(bot)

\* The size of a set is the same seen from PullRequests.
LEMMA PullsSize == \A Z : P!Cardinality(Z) = Cardinality(Z)
  BY DEF P!Cardinality, Cardinality

\* Two sets that differ in one place at most.
LEMMA OnePlace ==
    ASSUME NEW X, NEW T, NEW x, IsFiniteSet(X), IsFiniteSet(T), \A y : y # x => (y \in X <=> y \in T)
    PROVE  /\ Cardinality(X) \in Nat /\ Cardinality(T) \in Nat
           /\ (x \in X <=> x \in T) => Cardinality(T) = Cardinality(X)
           /\ x \in X /\ x \notin T => Cardinality(T) = Cardinality(X) - 1
           /\ x \notin X /\ x \in T => Cardinality(T) = Cardinality(X) + 1
<1>1. Cardinality(X) \in Nat /\ Cardinality(T) \in Nat BY FS_CardinalityType
<1>2. ASSUME x \in X <=> x \in T PROVE Cardinality(T) = Cardinality(X)
    <2>1. T = X BY <1>2
    <2>2. QED BY <2>1
<1>3. ASSUME x \in X, x \notin T PROVE Cardinality(T) = Cardinality(X) - 1
    <2>1. T = X \ {x} BY <1>3
    <2>2. QED BY <1>3, <2>1, FS_RemoveElement
<1>4. ASSUME x \notin X, x \in T PROVE Cardinality(T) = Cardinality(X) + 1
    <2>1. T = X \cup {x} BY <1>4
    <2>2. QED BY <1>4, <2>1, FS_AddElement
<1>5. QED BY <1>1, <1>2, <1>3, <1>4

\* The requests of a bot, before and after a step of run r.
LEMMA CallChanges ==
    ASSUME NEW r \in FixRuns, \A q \in FixRuns : q # r => call'[q] = call[q], NEW b
    PROVE  /\ Cardinality(Asked(b)) \in Nat /\ Cardinality(Asked(b)') \in Nat
           /\ Cardinality(Unanswered(b)) \in Nat /\ Cardinality(Unanswered(b)') \in Nat
           /\ Cardinality(Asked(b)') + Cardinality(Unanswered(b)') <= Cardinality(FixRuns)
           /\ Cardinality(FixRuns) \in Nat
           /\ (r \in Asked(b) <=> r \in Asked(b)') => Cardinality(Asked(b)') = Cardinality(Asked(b))
           /\ r \in Asked(b) /\ r \notin Asked(b)' => Cardinality(Asked(b)') = Cardinality(Asked(b)) - 1
           /\ r \notin Asked(b) /\ r \in Asked(b)' => Cardinality(Asked(b)') = Cardinality(Asked(b)) + 1
           /\ (r \in Unanswered(b) <=> r \in Unanswered(b)') =>
                 Cardinality(Unanswered(b)') = Cardinality(Unanswered(b))
           /\ r \in Unanswered(b) /\ r \notin Unanswered(b)' =>
                 Cardinality(Unanswered(b)') = Cardinality(Unanswered(b)) - 1
           /\ r \notin Unanswered(b) /\ r \in Unanswered(b)' =>
                 Cardinality(Unanswered(b)') = Cardinality(Unanswered(b)) + 1
<1> DEFINE A == Asked(b)
           F == Asked(b)'
           C == Unanswered(b)
           D == Unanswered(b)'
<1>1. A \subseteq FixRuns /\ F \subseteq FixRuns /\ C \subseteq FixRuns /\ D \subseteq FixRuns /\ F \cap D = {}
    BY DEF Asked, Unanswered
<1>2. IsFiniteSet(A) /\ IsFiniteSet(F) /\ IsFiniteSet(C) /\ IsFiniteSet(D)
    BY <1>1, PullsAssumption, FS_Subset
<1>3. /\ \A y : y # r => (y \in A <=> y \in F)
      /\ \A y : y # r => (y \in C <=> y \in D)
    BY DEF Asked, Unanswered
<1>4. Cardinality(F) + Cardinality(D) <= Cardinality(FixRuns) /\ Cardinality(FixRuns) \in Nat
    <2> HIDE DEF A, F, C, D
    <2>1. Cardinality(F \cup D) <= Cardinality(FixRuns) BY <1>1, PullsAssumption, FS_Subset
    <2>2. Cardinality(F \cap D) = 0 BY <1>1, FS_EmptySet
    <2>3. Cardinality(F \cup D) = Cardinality(F) + Cardinality(D) - Cardinality(F \cap D)
        BY <1>2, FS_Union
    <2>4. Cardinality(F) \in Nat /\ Cardinality(D) \in Nat /\ Cardinality(FixRuns) \in Nat
        BY <1>2, PullsAssumption, FS_CardinalityType
    <2>5. QED BY <2>1, <2>2, <2>3, <2>4
<1> SUFFICES /\ Cardinality(A) \in Nat /\ Cardinality(F) \in Nat
             /\ Cardinality(C) \in Nat /\ Cardinality(D) \in Nat
             /\ Cardinality(F) + Cardinality(D) <= Cardinality(FixRuns)
             /\ Cardinality(FixRuns) \in Nat
             /\ (r \in A <=> r \in F) => Cardinality(F) = Cardinality(A)
             /\ r \in A /\ r \notin F => Cardinality(F) = Cardinality(A) - 1
             /\ r \notin A /\ r \in F => Cardinality(F) = Cardinality(A) + 1
             /\ (r \in C <=> r \in D) => Cardinality(D) = Cardinality(C)
             /\ r \in C /\ r \notin D => Cardinality(D) = Cardinality(C) - 1
             /\ r \notin C /\ r \in D => Cardinality(D) = Cardinality(C) + 1
    OBVIOUS
<1> HIDE DEF A, F, C, D
<1>5. /\ Cardinality(A) \in Nat /\ Cardinality(F) \in Nat
      /\ (r \in A <=> r \in F) => Cardinality(F) = Cardinality(A)
      /\ r \in A /\ r \notin F => Cardinality(F) = Cardinality(A) - 1
      /\ r \notin A /\ r \in F => Cardinality(F) = Cardinality(A) + 1
    BY <1>2, <1>3, OnePlace
<1>6. /\ Cardinality(C) \in Nat /\ Cardinality(D) \in Nat
      /\ (r \in C <=> r \in D) => Cardinality(D) = Cardinality(C)
      /\ r \in C /\ r \notin D => Cardinality(D) = Cardinality(C) - 1
      /\ r \notin C /\ r \in D => Cardinality(D) = Cardinality(C) + 1
    BY <1>2, <1>3, OnePlace
<1>7. QED BY <1>4, <1>5, <1>6

\* No request was sent and nothing was applied.
LEMMA PrInit == P!Init => PrInv
<1> SUFFICES ASSUME P!Init PROVE PrInv
    OBVIOUS
<1>1. P!NoCall \in PrCalls /\ P!NoCall.stage = "none" BY DEF P!NoCall, PrCalls
<1>2. \A r \in FixRuns : call[r] = P!NoCall BY DEF P!Init
<1>3. PrTypes
    <2>1. \A b : (IF b = "main" THEN {} ELSE P!Absent) \in (SUBSET FixRuns) \cup {P!Absent} OBVIOUS
    <2>2. localBranches \in [P!Branches \cup {"main"} -> (SUBSET FixRuns) \cup {P!Absent}] BY <2>1 DEF P!Init
    <2>3. call \in [FixRuns -> PrCalls] /\ remote \in [P!Branches -> (SUBSET FixRuns) \cup {P!Absent}] BY <1>1 DEF P!Init
    <2>4. QED BY <2>2, <2>3 DEF P!Init, PrTypes
<1>4. P!Absent # {} BY DEF P!Absent
<1>5. /\ head = "main" /\ localBranches["main"] = {} /\ applied = {} /\ tree = {} /\ prs = {}
      /\ \A b \in P!Branches : remote[b] = P!Absent
      /\ \A b \in P!Branches \cup {"main"} : localBranches[b] = {} \/ localBranches[b] = P!Absent
    BY DEF P!Init
<1>6. Chain BY <1>4, <1>5 DEF Chain
<1>7. ASSUME NEW bot \in Bots PROVE Within(bot)
    <2>1. Asked(bot) = {} /\ Unanswered(bot) = {} BY <1>1, <1>2 DEF Asked, Unanswered
    <2>2. Cardinality(Asked(bot)) = 0 /\ Cardinality(Unanswered(bot)) = 0 BY <2>1, FS_EmptySet
    <2>3. Cardinality(FixRuns) \in Nat BY PullsAssumption, FS_CardinalityType
    <2>4. counted[bot] = 0 /\ opened[bot] = 0 /\ unheard[bot] = 0 BY DEF P!Init
    <2>5. QED BY <2>2, <2>3, <2>4, PullsAssumption DEF Within
<1>8. QED BY <1>3, <1>6, <1>7 DEF PrInv

\* A step of run r that asks for one more pull request.
LEMMA AskKept ==
    ASSUME PrInv, NEW r \in FixRuns, NEW bot \in Bots, P!Below(bot), call[r] = P!NoCall,
           call' = [call EXCEPT ![r] = [stage |-> "post", bot |-> bot]],
           UNCHANGED <<counted, opened, unheard>>
    PROVE  call' \in [FixRuns -> PrCalls] /\ \A b \in Bots : Within(b)'
<1> DEFINE c == [stage |-> "post", bot |-> bot]
<1>1. c \in PrCalls /\ c.stage = "post" /\ c.bot = bot BY DEF PrCalls
<1> HIDE DEF c
<1>2. /\ call' \in [FixRuns -> PrCalls] /\ call'[r] = c
      /\ \A q \in FixRuns : q # r => call'[q] = call[q]
    BY <1>1 DEF c, PrInv, PrTypes
<1>3. ASSUME NEW b \in Bots PROVE Within(b)'
    <2>1. /\ counted[b] \in Nat /\ opened[b] \in Nat /\ unheard[b] \in Nat /\ Within(b)
        BY DEF PrInv, PrTypes
    <2>2. r \notin Asked(b) /\ r \notin Unanswered(b) BY DEF P!NoCall, Asked, Unanswered
    <2>3. r \notin Unanswered(b)' /\ (r \in Asked(b)' <=> b = bot)
        BY <1>1, <1>2 DEF Asked, Unanswered
    <2>4. /\ Cardinality(Asked(b)) \in Nat /\ Cardinality(Asked(b)') \in Nat
          /\ Cardinality(Unanswered(b)) \in Nat /\ Cardinality(Unanswered(b)') = Cardinality(Unanswered(b))
          /\ b # bot => Cardinality(Asked(b)') = Cardinality(Asked(b))
          /\ Cardinality(Asked(b)') + Cardinality(Unanswered(b)') <= Cardinality(FixRuns)
          /\ Cardinality(FixRuns) \in Nat
        BY <1>2, <2>2, <2>3, CallChanges
    <2>5. b = bot => counted[b] < MaxOpenPrs BY DEF P!Below
    <2>6. QED BY <2>1, <2>4, <2>5, PullsAssumption DEF Within
<1>4. QED BY <1>2, <1>3

\* A run commits to its branch and pushes it (the branches stay a chain).
LEMMA CommitKept ==
    ASSUME PrInv, NEW r \in FixRuns, NEW bot \in Bots, P!CommitAndPush(r, bot)
    PROVE  PrInv'
<1> DEFINE b == BranchOf[r]
           content == localBranches[head] \cup tree
<1>1. /\ call[r] = P!NoCall /\ P!Below(bot) /\ localBranches[b] = P!Absent
      /\ localBranches' = [localBranches EXCEPT ![b] = content] /\ head' = b /\ tree' = {}
      /\ UNCHANGED <<applied, prs, counted, opened, unheard>>
    BY DEF P!CommitAndPush
<1>2. \/ /\ remote' = [remote EXCEPT ![b] = content]
         /\ call' = [call EXCEPT ![r] = [stage |-> "post", bot |-> bot]]
      \/ remote' = remote /\ call' = call
    BY DEF P!CommitAndPush
<1>3. b \in P!Branches BY DEF P!Branches
<1>4. content = applied /\ applied \subseteq FixRuns BY DEF PrInv, PrTypes, Chain
<1>5. applied # P!Absent BY <1>4, PullsAssumption DEF P!Absent
<1> HIDE DEF b, content
<1>6. /\ localBranches' \in [P!Branches \cup {"main"} -> (SUBSET FixRuns) \cup {P!Absent}]
      /\ \A a \in P!Branches \cup {"main"} : localBranches'[a] = IF a = b THEN applied ELSE localBranches[a]
    BY <1>1, <1>3, <1>4 DEF PrInv, PrTypes
<1>7. remote[b] = P!Absent BY <1>1, <1>3 DEF PrInv, Chain
<1>8. /\ remote' \in [P!Branches -> (SUBSET FixRuns) \cup {P!Absent}]
      /\ \A a \in P!Branches : a # b => remote'[a] = remote[a]
      /\ remote'[b] \in {P!Absent, applied}
    BY <1>2, <1>3, <1>4, <1>7 DEF PrInv, PrTypes
<1>9. call' \in [FixRuns -> PrCalls] /\ \A a \in Bots : Within(a)'
    <2>1. CASE call' = call
        BY <1>1, <2>1 DEF PrInv, PrTypes, Within, Asked, Unanswered
    <2>2. CASE call' = [call EXCEPT ![r] = [stage |-> "post", bot |-> bot]]
        BY <1>1, <2>2, AskKept
    <2>3. QED BY <1>2, <2>1, <2>2
<1>10. PrTypes' BY <1>1, <1>6, <1>8, <1>9 DEF PrInv, PrTypes
<1>11. Chain'
    <2>1. head' \in P!Branches \cup {"main"} /\ localBranches'[head'] = applied BY <1>1, <1>3, <1>6
    <2>2. \A a \in P!Branches \cup {"main"} : localBranches'[a] # P!Absent => localBranches'[a] \subseteq applied'
        BY <1>1, <1>6 DEF PrInv, Chain
    <2>3. ASSUME NEW a \in P!Branches \cup {"main"}, NEW d \in P!Branches \cup {"main"},
                 localBranches'[a] # P!Absent, localBranches'[d] # P!Absent
          PROVE  localBranches'[a] \subseteq localBranches'[d] \/ localBranches'[d] \subseteq localBranches'[a]
        <3>1. CASE a = b \/ d = b BY <1>1, <1>6, <2>2, <2>3, <3>1
        <3>2. CASE a # b /\ d # b BY <1>6, <2>3, <3>2 DEF PrInv, Chain
        <3>3. QED BY <3>1, <3>2
    <2>4. \A p \in prs' : p.branch \in P!Branches /\ remote'[p.branch] # P!Absent /\ p.runs = remote'[p.branch]
        BY <1>1, <1>7, <1>8 DEF PrInv, Chain
    <2>5. \A a \in P!Branches : remote'[a] \in {P!Absent, localBranches'[a]}
        BY <1>3, <1>6, <1>8 DEF PrInv, Chain
    <2>6. tree' \cup localBranches'[head'] = applied' /\ localBranches'[head'] # P!Absent BY <1>1, <1>5, <2>1
    <2>7. QED BY <2>1, <2>2, <2>3, <2>4, <2>5, <2>6 DEF Chain
<1>12. QED BY <1>9, <1>10, <1>11 DEF PrInv

\* A step of a request that was asked for.
LEMMA AnswerKept ==
    ASSUME PrInv, NEW r \in FixRuns, NEW c \in PrCalls, call' = [call EXCEPT ![r] = c],
           call[r].stage # "none", c.stage # "post", c.bot = call[r].bot \/ c.stage = "none",
           c.stage = "opened" => call[r].stage = "post",
           NEW n \in {0, 1}, NEW m \in {0, 1}, NEW k \in {0, 1},
           opened' = [opened EXCEPT ![call[r].bot] = @ + n],
           counted' = [counted EXCEPT ![call[r].bot] = @ + m],
           unheard' = [unheard EXCEPT ![call[r].bot] = @ + k],
           n = 1 => c.stage = "opened",
           call[r].stage = "opened" => c.stage = "none" /\ m + k = 1
    PROVE  /\ call' \in [FixRuns -> PrCalls] /\ \A b \in Bots : Within(b)'
           /\ counted' \in [Bots -> Nat] /\ opened' \in [Bots -> Nat] /\ unheard' \in [Bots -> Nat]
<1>1. /\ call' \in [FixRuns -> PrCalls] /\ call'[r] = c
      /\ \A q \in FixRuns : q # r => call'[q] = call[q]
    BY DEF PrInv, PrTypes
<1>2. /\ counted \in [Bots -> Nat] /\ opened \in [Bots -> Nat] /\ unheard \in [Bots -> Nat]
    BY DEF PrInv, PrTypes
<1>3. /\ counted' \in [Bots -> Nat] /\ opened' \in [Bots -> Nat] /\ unheard' \in [Bots -> Nat]
    <2>1. ASSUME NEW f \in [Bots -> Nat], NEW x, NEW e \in {0, 1}
          PROVE  [f EXCEPT ![x] = @ + e] \in [Bots -> Nat]
        <3>1. CASE x \in Bots
            <4>1. f[x] + e \in Nat BY <3>1
            <4>2. QED BY <3>1, <4>1
        <3>2. CASE x \notin Bots BY <3>2
        <3>3. QED BY <3>1, <3>2
    <2>2. QED BY <1>2, <2>1
<1>4. ASSUME NEW b \in Bots PROVE Within(b)'
    <2>1. /\ counted[b] \in Nat /\ opened[b] \in Nat /\ unheard[b] \in Nat /\ Within(b)
        BY <1>2 DEF PrInv
    <2>2. /\ r \in Asked(b) <=> call[r].bot = b /\ call[r].stage = "post"
          /\ r \in Unanswered(b) <=> call[r].bot = b /\ call[r].stage = "opened"
          /\ r \notin Asked(b)'
          /\ r \in Unanswered(b)' <=> c.bot = b /\ c.stage = "opened"
        BY <1>1 DEF Asked, Unanswered
    <2> DEFINE p == Cardinality(Asked(b))
               p2 == Cardinality(Asked(b)')
               q == Cardinality(Unanswered(b))
               q2 == Cardinality(Unanswered(b)')
    <2>3. /\ p \in Nat /\ p2 \in Nat /\ q \in Nat /\ q2 \in Nat
          /\ Cardinality(FixRuns) \in Nat
          /\ (r \in Asked(b) <=> r \in Asked(b)') => p2 = p
          /\ r \in Asked(b) /\ r \notin Asked(b)' => p2 = p - 1
          /\ (r \in Unanswered(b) <=> r \in Unanswered(b)') => q2 = q
          /\ r \in Unanswered(b) /\ r \notin Unanswered(b)' => q2 = q - 1
          /\ r \notin Unanswered(b) /\ r \in Unanswered(b)' => q2 = q + 1
        BY <1>1, CallChanges
    <2>4. Within(b)' <=> /\ opened'[b] <= counted'[b] + unheard'[b] + q2
                         /\ opened'[b] + p2 <= MaxOpenPrs + unheard'[b] + Cardinality(FixRuns) - 1
        BY DEF Within
    <2>5. /\ opened[b] <= counted[b] + unheard[b] + q
          /\ opened[b] + p <= MaxOpenPrs + unheard[b] + Cardinality(FixRuns) - 1
        BY <2>1 DEF Within
    <2> HIDE DEF p, p2, q, q2
    <2>6. CASE call[r].bot # b
        <3>1. counted'[b] = counted[b] /\ opened'[b] = opened[b] /\ unheard'[b] = unheard[b]
            BY <1>2, <2>6
        <3>2. p2 = p /\ q2 = q BY <2>2, <2>3, <2>6
        <3>3. QED BY <2>4, <2>5, <3>1, <3>2
    <2>7. CASE call[r].bot = b
        <3>1. counted'[b] = counted[b] + m /\ opened'[b] = opened[b] + n /\ unheard'[b] = unheard[b] + k
            BY <1>2, <2>7
        <3>2. CASE call[r].stage = "opened"
            <4>1. n = 0 /\ p2 = p /\ q2 = q - 1 BY <2>2, <2>3, <2>7, <3>2
            <4>2. QED BY <2>1, <2>3, <2>4, <2>5, <3>1, <3>2, <4>1, PullsAssumption
        <3>3. CASE call[r].stage = "post" /\ c.stage = "opened"
            <4>1. p2 = p - 1 /\ q2 = q + 1 BY <2>2, <2>3, <2>7, <3>3
            <4>2. QED BY <2>1, <2>3, <2>4, <2>5, <3>1, <4>1, PullsAssumption
        <3>4. CASE call[r].stage = "post" /\ c.stage # "opened"
            <4>1. n = 0 /\ p2 = p - 1 /\ q2 = q BY <2>2, <2>3, <2>7, <3>4
            <4>2. QED BY <2>1, <2>3, <2>4, <2>5, <3>1, <4>1, PullsAssumption
        <3>5. call[r].stage \in {"post", "opened"} BY DEF PrInv, PrTypes, PrCalls
        <3>6. QED BY <3>2, <3>3, <3>4, <3>5
    <2>8. QED BY <2>6, <2>7
<1>5. QED BY <1>1, <1>3, <1>4

\* So does one that is over.
LEMMA AnswerEnds ==
    ASSUME PrInv, NEW r \in FixRuns, call' = [call EXCEPT ![r] = P!NoCall], call[r].stage # "none",
           NEW m \in {0, 1}, NEW k \in {0, 1},
           opened' = [opened EXCEPT ![call[r].bot] = @ + 0],
           counted' = [counted EXCEPT ![call[r].bot] = @ + m],
           unheard' = [unheard EXCEPT ![call[r].bot] = @ + k],
           call[r].stage = "opened" => m + k = 1
    PROVE  /\ call' \in [FixRuns -> PrCalls] /\ \A b \in Bots : Within(b)'
           /\ counted' \in [Bots -> Nat] /\ opened' \in [Bots -> Nat] /\ unheard' \in [Bots -> Nat]
<1> DEFINE c == P!NoCall
           n == 0
<1>1. /\ c \in PrCalls /\ c.stage = "none" /\ call' = [call EXCEPT ![r] = c]
      /\ n \in {0, 1} /\ n # 1 /\ opened' = [opened EXCEPT ![call[r].bot] = @ + n]
    BY DEF P!NoCall, PrCalls
<1> HIDE DEF c, n
<1>2. QED BY <1>1, AnswerKept

\* Every step keeps the invariant.
LEMMA PrStep == PrInv /\ [P!Next]_P!vars => PrInv'
<1> SUFFICES ASSUME PrInv, [P!Next]_P!vars PROVE PrInv'
    OBVIOUS
<1>0. /\ counted \in [Bots -> Nat] /\ opened \in [Bots -> Nat] /\ unheard \in [Bots -> Nat]
      /\ call \in [FixRuns -> PrCalls]
    BY DEF PrInv, PrTypes
<1>n. P!NoCall \in PrCalls /\ P!NoCall.stage = "none" BY DEF P!NoCall, PrCalls
<1>b. 0 \in {0, 1} /\ 1 \in {0, 1} /\ 0 + 1 = 1 /\ 1 + 0 = 1 OBVIOUS
<1>z. \A f \in [Bots -> Nat] : \A x : [f EXCEPT ![x] = @ + 0] = f OBVIOUS
<1>1. CASE UNCHANGED P!vars
    BY <1>1 DEF P!vars, P!clone, P!github, PrInv, PrTypes, Chain, Within, Asked, Unanswered
<1>2. ASSUME NEW r \in FixRuns, P!ApplyPatch(r) PROVE PrInv'
    <2>1. /\ applied' = applied \cup {r} /\ tree' = tree \cup {r}
          /\ UNCHANGED <<head, localBranches, remote, prs, call, counted, opened, unheard>>
        BY <1>2 DEF P!ApplyPatch, P!github
    <2>2. PrTypes' BY <2>1 DEF PrInv, PrTypes
    <2>3. Chain' BY <2>1 DEF PrInv, Chain
    <2>4. \A b \in Bots : Within(b)' BY <2>1 DEF PrInv, Within, Asked, Unanswered
    <2>5. QED BY <2>2, <2>3, <2>4 DEF PrInv
<1>3. ASSUME NEW bot \in Bots, P!PreparePr(bot) PROVE PrInv'
    <2>1. /\ counted' = [counted EXCEPT ![bot] = @ + 1]
          /\ UNCHANGED <<applied, tree, head, localBranches, remote, prs, call, opened, unheard>>
        BY <1>3 DEF P!PreparePr, P!clone, P!github
    <2>2. counted' \in [Bots -> Nat] /\ \A b \in Bots : counted'[b] >= counted[b] BY <1>0, <2>1
    <2>3. PrTypes' /\ Chain' BY <2>1, <2>2 DEF PrInv, PrTypes, Chain
    <2>4. ASSUME NEW b \in Bots PROVE Within(b)'
        <3>1. Asked(b)' = Asked(b) /\ Unanswered(b)' = Unanswered(b) BY <2>1 DEF Asked, Unanswered
        <3>2. IsFiniteSet(Unanswered(b)) BY PullsAssumption, FS_Subset DEF Unanswered
        <3>3. /\ Cardinality(Unanswered(b)) \in Nat /\ counted[b] \in Nat /\ counted'[b] \in Nat
              /\ unheard[b] \in Nat /\ opened[b] \in Nat
            BY <1>0, <2>2, <3>2, FS_CardinalityType
        <3>4. Within(b) BY DEF PrInv
        <3>5. QED BY <2>1, <2>2, <3>1, <3>3, <3>4 DEF Within
    <2>5. QED BY <2>3, <2>4 DEF PrInv
<1>4. ASSUME NEW r \in FixRuns, NEW bot \in Bots, P!Ask(r, bot) PROVE PrInv'
    <2>1. call' \in [FixRuns -> PrCalls] /\ \A b \in Bots : Within(b)'
        BY <1>4, AskKept DEF P!Ask
    <2>2. UNCHANGED <<applied, tree, head, localBranches, remote, prs, counted, opened, unheard>>
        BY <1>4 DEF P!Ask, P!clone, P!github
    <2>3. PrTypes' /\ Chain' BY <2>1, <2>2 DEF PrInv, PrTypes, Chain
    <2>4. QED BY <2>1, <2>3 DEF PrInv
<1>5. ASSUME NEW r \in FixRuns, NEW bot \in Bots, P!CommitAndPush(r, bot) PROVE PrInv'
    BY <1>5, CommitKept
<1>6. ASSUME NEW r \in FixRuns, P!Open(r) PROVE PrInv'
    <2>1. call[r] \in PrCalls /\ call[r].stage = "post" BY <1>0, <1>6 DEF P!Open
    <2>2. /\ counted' = [counted EXCEPT ![call[r].bot] = @ + 0]
          /\ unheard' = [unheard EXCEPT ![call[r].bot] = @ + 0]
          /\ UNCHANGED <<applied, tree, head, localBranches, remote>>
        BY <1>0, <1>6, <1>z DEF P!Open, P!clone
    <2>3. CASE remote[BranchOf[r]] = P!Absent \/ \E p \in prs : p.branch = BranchOf[r]
        <3>1. call' = [call EXCEPT ![r] = P!NoCall] /\ prs' = prs /\ opened' = [opened EXCEPT ![call[r].bot] = @ + 0]
            BY <1>0, <1>6, <1>z, <2>3 DEF P!Open
        <3>2. /\ call' \in [FixRuns -> PrCalls] /\ \A b \in Bots : Within(b)'
              /\ counted' \in [Bots -> Nat] /\ opened' \in [Bots -> Nat] /\ unheard' \in [Bots -> Nat]
            BY <1>n, <2>1, <2>2, <3>1, <1>b, AnswerEnds
        <3>3. PrTypes' /\ Chain' BY <2>2, <3>1, <3>2 DEF PrInv, PrTypes, Chain
        <3>4. QED BY <3>2, <3>3 DEF PrInv
    <2>4. CASE ~(remote[BranchOf[r]] = P!Absent \/ \E p \in prs : p.branch = BranchOf[r])
        <3> DEFINE c == [call[r] EXCEPT !.stage = "opened"]
                   pr == [branch |-> BranchOf[r], runs |-> remote[BranchOf[r]]]
        <3>1. /\ call' = [call EXCEPT ![r] = c] /\ prs' = prs \cup {pr}
              /\ opened' = [opened EXCEPT ![call[r].bot] = @ + 1]
            BY <1>0, <1>6, <2>4 DEF P!Open
        <3>2. c \in PrCalls /\ c.stage = "opened" /\ c.bot = call[r].bot BY <2>1 DEF PrCalls
        <3>3. /\ pr.branch = BranchOf[r] /\ pr.runs = remote[BranchOf[r]] /\ BranchOf[r] \in P!Branches
            BY DEF P!Branches
        <3> HIDE DEF c, pr
        <3>4. /\ call' \in [FixRuns -> PrCalls] /\ \A b \in Bots : Within(b)'
              /\ counted' \in [Bots -> Nat] /\ opened' \in [Bots -> Nat] /\ unheard' \in [Bots -> Nat]
            BY <2>1, <2>2, <3>1, <3>2, AnswerKept
        <3>5. Chain' BY <2>2, <2>4, <3>1, <3>3 DEF PrInv, Chain
        <3>6. PrTypes' BY <2>2, <3>4 DEF PrInv, PrTypes
        <3>7. QED BY <3>4, <3>5, <3>6 DEF PrInv
    <2>5. QED BY <2>3, <2>4
<1>7. ASSUME NEW r \in FixRuns, P!Answered(r) PROVE PrInv'
    <2>1. call[r] \in PrCalls /\ call[r].stage = "opened" BY <1>0, <1>7 DEF P!Answered
    <2>2. /\ counted' = [counted EXCEPT ![call[r].bot] = @ + 1]
          /\ unheard' = [unheard EXCEPT ![call[r].bot] = @ + 0]
          /\ opened' = [opened EXCEPT ![call[r].bot] = @ + 0]
          /\ call' = [call EXCEPT ![r] = P!NoCall]
          /\ UNCHANGED <<applied, tree, head, localBranches, remote, prs>>
        BY <1>0, <1>7, <1>z DEF P!Answered, P!clone, P!github
    <2>3. /\ call' \in [FixRuns -> PrCalls] /\ \A b \in Bots : Within(b)'
          /\ counted' \in [Bots -> Nat] /\ opened' \in [Bots -> Nat] /\ unheard' \in [Bots -> Nat]
        BY <1>n, <2>1, <2>2, <1>b, AnswerEnds
    <2>4. PrTypes' /\ Chain' BY <2>2, <2>3 DEF PrInv, PrTypes, Chain
    <2>5. QED BY <2>3, <2>4 DEF PrInv
<1>8. ASSUME NEW r \in FixRuns, P!Lost(r) PROVE PrInv'
    <2> DEFINE k == IF call[r].stage = "opened" THEN 1 ELSE 0
    <2>1. call[r] \in PrCalls /\ call[r].stage \in {"post", "opened"} BY <1>0, <1>8 DEF P!Lost
    <2>2. /\ counted' = [counted EXCEPT ![call[r].bot] = @ + 0]
          /\ unheard' = [unheard EXCEPT ![call[r].bot] = @ + k]
          /\ opened' = [opened EXCEPT ![call[r].bot] = @ + 0]
          /\ call' = [call EXCEPT ![r] = P!NoCall]
          /\ UNCHANGED <<applied, tree, head, localBranches, remote, prs>>
        BY <1>0, <1>8, <1>z DEF P!Lost, P!clone, P!github
    <2>3. k \in {0, 1} /\ (call[r].stage = "opened" => 0 + k = 1) OBVIOUS
    <2> HIDE DEF k
    <2>4. /\ call' \in [FixRuns -> PrCalls] /\ \A b \in Bots : Within(b)'
          /\ counted' \in [Bots -> Nat] /\ opened' \in [Bots -> Nat] /\ unheard' \in [Bots -> Nat]
        BY <1>n, <2>1, <2>2, <2>3, <1>b, AnswerEnds
    <2>5. PrTypes' /\ Chain' BY <2>2, <2>4 DEF PrInv, PrTypes, Chain
    <2>6. QED BY <2>4, <2>5 DEF PrInv
<1>9. ASSUME NEW p \in prs, P!Close(p) PROVE PrInv'
    <2>1. /\ prs' = prs \ {p}
          /\ UNCHANGED <<applied, tree, head, localBranches, remote, call, counted, opened, unheard>>
        BY <1>9 DEF P!Close, P!clone
    <2>2. PrTypes' BY <2>1 DEF PrInv, PrTypes
    <2>3. Chain' BY <2>1 DEF PrInv, Chain
    <2>4. \A b \in Bots : Within(b)' BY <2>1 DEF PrInv, Within, Asked, Unanswered
    <2>5. QED BY <2>2, <2>3, <2>4 DEF PrInv
<1>10. QED BY <1>1, <1>2, <1>3, <1>4, <1>5, <1>6, <1>7, <1>8, <1>9 DEF P!Next

\* The invariant has all that PrsAccounted asks.
LEMMA PrHolds == PrInv => P!PrsAccounted
<1> SUFFICES ASSUME PrInv PROVE P!PrsAccounted
    OBVIOUS
<1>1. P!LimitKept
    <2> SUFFICES ASSUME NEW bot \in Bots
                 PROVE  /\ opened[bot] <= MaxOpenPrs + unheard[bot] + Cardinality(FixRuns) - 1
                        /\ opened[bot] <= counted[bot] + unheard[bot]
                              + Cardinality({r \in FixRuns : call[r].bot = bot /\ call[r].stage = "opened"})
        BY PullsSize DEF P!LimitKept
    <2>1. Within(bot) BY DEF PrInv
    <2>2. IsFiniteSet(Asked(bot)) BY PullsAssumption, FS_Subset DEF Asked
    <2>3. /\ Cardinality(Asked(bot)) \in Nat /\ Cardinality(FixRuns) \in Nat
          /\ unheard[bot] \in Nat /\ opened[bot] \in Nat
        BY <2>2, PullsAssumption, FS_CardinalityType DEF PrInv, PrTypes
    <2>4. opened[bot] <= MaxOpenPrs + unheard[bot] + Cardinality(FixRuns) - 1
        BY <2>1, <2>3, PullsAssumption DEF Within
    <2>5. QED BY <2>1, <2>4 DEF Within, Unanswered
<1>2. P!Stacked
    <2>1. ASSUME NEW p \in prs, NEW q \in prs PROVE p.runs \subseteq q.runs \/ q.runs \subseteq p.runs
        <3>1. /\ p.branch \in P!Branches /\ p.runs = localBranches[p.branch] /\ p.runs # P!Absent
              /\ q.branch \in P!Branches /\ q.runs = localBranches[q.branch] /\ q.runs # P!Absent
            BY DEF PrInv, Chain
        <3>2. QED BY <3>1 DEF PrInv, Chain
    <2>2. QED BY <2>1 DEF P!Stacked, PrInv, Chain
<1>3. QED BY <1>1, <1>2 DEF P!PrsAccounted

\* In the control plane Pulls moves as its module says, or not at all.
LEMMA PullsBeside == ControlPlaneSpec => P!Spec
  <1>1. ControlPlaneInit => P!Init
    BY DEF ControlPlaneInit
  <1>2. [ControlPlaneNext]_controlPlane => [P!Next]_P!vars
    BY DEF ControlPlaneNext, MeteringStep, IdentityStep, BillingStep, RollupStep, LimiterStep, MemoryStep,
           RecordsStep, SchemaStep, MigrationsStep, PullsStep, controlPlane, pulls, P!vars, P!clone, P!github
  <1>. QED
    BY <1>1, <1>2, PTL DEF ControlPlaneSpec, P!Spec

\* PrsAccounted: a bot opens no more pull requests than its limit, but for
\* answers it never heard and for requests under way beside the last one; and
\* the requests are stacked, the clone holds every patch ever applied, and a
\* branch that was pushed is never changed (CIBot.create_pr,
\* GitHubAPIClient.commit_and_push_patch).
THEOREM PrsAreAccounted == ControlPlaneSpec => []PrsAccounted
  <1>1. P!Spec => []P!PrsAccounted
    BY PrInit, PrStep, PrHolds, PTL DEF P!Spec
  <1>. QED
    BY <1>1, PullsBeside, PTL DEF PrsAccounted

----------------------------------------------------------------------------
(* Billing: what a run costs is a sum over its entries, what the month       *)
(* costs a sum over its runs, and sums only grow with their terms.         *)

\* Of a ledger: the entries of a run, what they add up to, the credits of a
\* run, and all that is consumed.
EntriesIn(table, r) == {i \in DOMAIN table : table[i].run = r}
TokensIn(table, of) == B!MapThenSumSet(LAMBDA i : table[i].tokens, of)
SecondsIn(table, of) == B!MapThenSumSet(LAMBDA i : table[i].seconds, of)
CreditsIn(table, r) ==
    1 + (IF \E i \in EntriesIn(table, r) : table[i].attempt > 1 + RetriesPerStep THEN 1 ELSE 0)
      + B!Blocks(TokensIn(table, EntriesIn(table, r)), TokensPerCredit)
      + B!Blocks(SecondsIn(table, EntriesIn(table, r)), SecondsPerCredit)
RunsIn(table) == {table[i].run : i \in DOMAIN table}
CreditsOf(table, of) == B!MapThenSumSet(LAMBDA r : CreditsIn(table, r), of)
ConsumedIn(table) == CreditsOf(table, RunsIn(table))

Ledger == [run : BilledRuns, step : BilledSteps, attempt : Nat, tokens : Nat, seconds : Nat]

\* That is what the organisation's own ledger is billed for.
LEMMA ConsumedOf == B!ConsumedCredits = ConsumedIn(billEntries)
  BY DEF B!ConsumedCredits, ConsumedIn, CreditsOf, RunsIn, B!CreditsForRun, CreditsIn, EntriesIn, B!EntriesOf,
        B!RetriesExceeded, B!Total, B!RunTokens, B!Seconds, TokensIn, SecondsIn

\* The tokens of some entries are a sum.
LEMMA TokensSum ==
    ASSUME NEW table, NEW of, IsFiniteSet(of), NEW g, g = [i \in of |-> table[i].tokens],
           \A i \in of : g[i] \in Nat
    PROVE  \E h : Sums(of, g, h) /\ TokensIn(table, of) = h[of]
<1> DEFINE Is(h) == h = [s \in SUBSET of |-> IF s = {} THEN 0
                          ELSE table[(CHOOSE x \in s : TRUE)].tokens + h[s \ {CHOOSE x \in s : TRUE}]]
           iter == CHOOSE h : Is(h)
<1>1. TokensIn(table, of) = iter[of]
  BY DEF TokensIn, B!MapThenSumSet, B!MapThenFoldSet
<1>2. \A h : Sums(of, g, h) <=> Is(h)
  BY DEF Sums
<1>3. \E h : Sums(of, g, h)
  BY SumsExist
<1> HIDE DEF Is
<1>4. Is(iter)
  BY <1>2, <1>3
<1> HIDE DEF iter
<1> QED
  BY <1>1, <1>2, <1>4

\* So are their seconds.
LEMMA SecondsSum ==
    ASSUME NEW table, NEW of, IsFiniteSet(of), NEW g, g = [i \in of |-> table[i].seconds],
           \A i \in of : g[i] \in Nat
    PROVE  \E h : Sums(of, g, h) /\ SecondsIn(table, of) = h[of]
<1> DEFINE Is(h) == h = [s \in SUBSET of |-> IF s = {} THEN 0
                          ELSE table[(CHOOSE x \in s : TRUE)].seconds + h[s \ {CHOOSE x \in s : TRUE}]]
           iter == CHOOSE h : Is(h)
<1>1. SecondsIn(table, of) = iter[of]
  BY DEF SecondsIn, B!MapThenSumSet, B!MapThenFoldSet
<1>2. \A h : Sums(of, g, h) <=> Is(h)
  BY DEF Sums
<1>3. \E h : Sums(of, g, h)
  BY SumsExist
<1> HIDE DEF Is
<1>4. Is(iter)
  BY <1>2, <1>3
<1> HIDE DEF iter
<1> QED
  BY <1>1, <1>2, <1>4

\* And the credits of some runs.
LEMMA CreditsSum ==
    ASSUME NEW table, NEW of, IsFiniteSet(of), NEW g, g = [i \in of |-> CreditsIn(table, i)],
           \A i \in of : g[i] \in Nat
    PROVE  \E h : Sums(of, g, h) /\ CreditsOf(table, of) = h[of]
<1> DEFINE Is(h) == h = [s \in SUBSET of |-> IF s = {} THEN 0
                          ELSE CreditsIn(table, (CHOOSE x \in s : TRUE)) + h[s \ {CHOOSE x \in s : TRUE}]]
           iter == CHOOSE h : Is(h)
<1>1. CreditsOf(table, of) = iter[of]
  BY DEF CreditsOf, B!MapThenSumSet, B!MapThenFoldSet
<1>2. \A h : Sums(of, g, h) <=> Is(h)
  BY DEF Sums
<1>3. \E h : Sums(of, g, h)
  BY SumsExist
<1> HIDE DEF Is
<1>4. Is(iter)
  BY <1>2, <1>3
<1> HIDE DEF iter
<1> QED
  BY <1>1, <1>2, <1>4

\* More tokens or seconds are as many blocks or more.
LEMMA BlocksGrow ==
    ASSUME NEW size \in Nat \ {0}, NEW used \in Nat, NEW more \in Nat, used <= more
    PROVE  /\ B!Blocks(used, size) \in Nat /\ B!Blocks(more, size) \in Nat
           /\ B!Blocks(used, size) <= B!Blocks(more, size)
<1>1. used \div size \in Nat /\ more \div size \in Nat /\ used \div size <= more \div size
  OBVIOUS
<1> QED
  BY <1>1 DEF B!Blocks

\* Entries of a ledger are a finite set, and one more leaves the others.
LEMMA OneEntryMore ==
    ASSUME NEW table \in Seq(Ledger), NEW e \in Ledger, NEW r
    PROVE  /\ IsFiniteSet(EntriesIn(table, r)) /\ EntriesIn(table, r) \subseteq DOMAIN table
           /\ EntriesIn(table, r) \subseteq EntriesIn(Append(table, e), r)
           /\ \A i \in DOMAIN table : /\ table[i] \in Ledger /\ Append(table, e)[i] = table[i]
                                      /\ i \in DOMAIN Append(table, e)
           /\ Append(table, e) \in Seq(Ledger)
<1>1. DOMAIN table = 1 .. Len(table) /\ Len(table) \in Nat
  OBVIOUS
<1>2. IsFiniteSet(DOMAIN table)
  BY <1>1, FS_Interval
<1>3. EntriesIn(table, r) \subseteq DOMAIN table
  BY DEF EntriesIn
<1>4. IsFiniteSet(EntriesIn(table, r))
  BY <1>2, <1>3, FS_Subset
<1>5. /\ Append(table, e) \in Seq(Ledger)
      /\ \A i \in DOMAIN table : table[i] \in Ledger /\ Append(table, e)[i] = table[i] /\ i \in DOMAIN Append(table, e)
  BY <1>1
<1> QED
  BY <1>3, <1>4, <1>5 DEF EntriesIn

\* Each run's tokens, seconds and credits only grow.
LEMMA CreditsGrow ==
    ASSUME NEW table \in Seq(Ledger), NEW e \in Ledger, NEW r
    PROVE  CreditsIn(table, r) \in Nat /\ CreditsIn(table, r) <= CreditsIn(Append(table, e), r)
<1> DEFINE longer == Append(table, e)
           S0 == EntriesIn(table, r)
           T0 == EntriesIn(longer, r)
<1>1. /\ IsFiniteSet(S0) /\ S0 \subseteq T0 /\ S0 \subseteq DOMAIN table
      /\ \A i \in S0 : table[i] \in Ledger /\ longer[i] = table[i]
      /\ longer \in Seq(Ledger)
  BY OneEntryMore
<1> HIDE DEF longer
<1>2. IsFiniteSet(T0) /\ \A i \in T0 : longer[i] \in Ledger
  BY <1>1, OneEntryMore
<1> HIDE DEF S0, T0
<1>3. TokensIn(table, S0) \in Nat /\ TokensIn(longer, T0) \in Nat /\ TokensIn(table, S0) <= TokensIn(longer, T0)
  <2> DEFINE g == [i \in S0 |-> table[i].tokens]
             k == [i \in T0 |-> longer[i].tokens]
  <2>1. (\A i \in S0 : g[i] \in Nat /\ g[i] <= k[i]) /\ \A i \in T0 : k[i] \in Nat
    BY <1>1, <1>2 DEF Ledger
  <2>2. PICK h : Sums(S0, g, h) /\ TokensIn(table, S0) = h[S0]
    BY <1>1, <2>1, TokensSum
  <2>3. PICK m : Sums(T0, k, m) /\ TokensIn(longer, T0) = m[T0]
    BY <1>2, <2>1, TokensSum
  <2> HIDE DEF g, k
  <2>4. h[S0] <= m[T0]
    BY <1>1, <1>2, <2>1, <2>2, <2>3, SumsGrow
  <2>5. h \in [SUBSET S0 -> Nat]
    BY <1>1, <2>1, <2>2, SumsTyped
  <2>6. m \in [SUBSET T0 -> Nat]
    BY <1>2, <2>1, <2>3, SumsTyped
  <2> QED
    BY <2>2, <2>3, <2>4, <2>5, <2>6
<1>4. SecondsIn(table, S0) \in Nat /\ SecondsIn(longer, T0) \in Nat /\ SecondsIn(table, S0) <= SecondsIn(longer, T0)
  <2> DEFINE g == [i \in S0 |-> table[i].seconds]
             k == [i \in T0 |-> longer[i].seconds]
  <2>1. (\A i \in S0 : g[i] \in Nat /\ g[i] <= k[i]) /\ \A i \in T0 : k[i] \in Nat
    BY <1>1, <1>2 DEF Ledger
  <2>2. PICK h : Sums(S0, g, h) /\ SecondsIn(table, S0) = h[S0]
    BY <1>1, <2>1, SecondsSum
  <2>3. PICK m : Sums(T0, k, m) /\ SecondsIn(longer, T0) = m[T0]
    BY <1>2, <2>1, SecondsSum
  <2> HIDE DEF g, k
  <2>4. h[S0] <= m[T0]
    BY <1>1, <1>2, <2>1, <2>2, <2>3, SumsGrow
  <2>5. h \in [SUBSET S0 -> Nat]
    BY <1>1, <2>1, <2>2, SumsTyped
  <2>6. m \in [SUBSET T0 -> Nat]
    BY <1>2, <2>1, <2>3, SumsTyped
  <2> QED
    BY <2>2, <2>3, <2>4, <2>5, <2>6
<1> DEFINE b0 == B!Blocks(TokensIn(table, S0), TokensPerCredit)
           b1 == B!Blocks(TokensIn(longer, T0), TokensPerCredit)
           c0 == B!Blocks(SecondsIn(table, S0), SecondsPerCredit)
           c1 == B!Blocks(SecondsIn(longer, T0), SecondsPerCredit)
           p0 == \E i \in S0 : table[i].attempt > 1 + RetriesPerStep
           p1 == \E i \in T0 : longer[i].attempt > 1 + RetriesPerStep
<1>5. b0 \in Nat /\ b1 \in Nat /\ b0 <= b1
  BY <1>3, BlocksGrow, BillingAssumption
<1>6. c0 \in Nat /\ c1 \in Nat /\ c0 <= c1
  BY <1>4, BlocksGrow, BillingAssumption
<1>7. p0 => p1
  BY <1>1
<1>8. /\ CreditsIn(table, r) = 1 + (IF p0 THEN 1 ELSE 0) + b0 + c0
      /\ CreditsIn(longer, r) = 1 + (IF p1 THEN 1 ELSE 0) + b1 + c1
  BY DEF CreditsIn, S0, T0
<1> HIDE DEF b0, b1, c0, c1, p0, p1
<1>9. CreditsIn(table, r) \in Nat /\ CreditsIn(table, r) <= CreditsIn(longer, r)
  BY <1>5, <1>6, <1>7, <1>8
<1> QED
  BY <1>9 DEF longer

\* And so does what is consumed.
LEMMA ConsumedGrows ==
    ASSUME NEW table \in Seq(Ledger), NEW e \in Ledger
    PROVE  /\ ConsumedIn(table) \in Nat /\ ConsumedIn(Append(table, e)) \in Nat
           /\ ConsumedIn(table) <= ConsumedIn(Append(table, e))
<1> DEFINE longer == Append(table, e)
           S0 == RunsIn(table)
           T0 == RunsIn(longer)
           g == [i \in S0 |-> CreditsIn(table, i)]
           k == [i \in T0 |-> CreditsIn(longer, i)]
<1>1. longer \in Seq(Ledger)
  OBVIOUS
<1>2. S0 \subseteq T0
  BY OneEntryMore DEF RunsIn
<1>3. IsFiniteSet(T0)
  <2> DEFINE runs == [i \in DOMAIN longer |-> longer[i].run]
  <2>1. IsFiniteSet(DOMAIN longer)
    BY <1>1, FS_Interval
  <2>2. RunsIn(longer) = {runs[i] : i \in DOMAIN longer}
    BY DEF RunsIn
  <2>3. runs \in Surjection(DOMAIN longer, T0)
    <3>1. runs \in [DOMAIN longer -> T0] /\ \A t \in T0 : \E i \in DOMAIN longer : runs[i] = t
      BY <2>2
    <3> HIDE DEF runs
    <3> QED
      BY <3>1 DEF Surjection
  <2> QED
    BY <2>1, <2>3, FS_Surjection
<1>4. \A i \in S0 : g[i] \in Nat /\ g[i] <= k[i]
  BY <1>2, CreditsGrow
<1> HIDE DEF longer
<1>5. \A i \in T0 : k[i] \in Nat
  BY <1>1, CreditsGrow
<1> HIDE DEF S0, T0
<1>6. IsFiniteSet(S0)
  BY <1>2, <1>3, FS_Subset
<1>7. PICK h : Sums(S0, g, h) /\ ConsumedIn(table) = h[S0]
  <2>1. \E h : Sums(S0, g, h) /\ CreditsOf(table, S0) = h[S0]
    BY <1>4, <1>6, CreditsSum
  <2> QED
    BY <2>1 DEF ConsumedIn, S0
<1>8. PICK m : Sums(T0, k, m) /\ ConsumedIn(longer) = m[T0]
  <2>1. \E m : Sums(T0, k, m) /\ CreditsOf(longer, T0) = m[T0]
    BY <1>3, <1>5, CreditsSum
  <2> QED
    BY <2>1 DEF ConsumedIn, T0
<1> HIDE DEF g, k
<1>9. h[S0] <= m[T0] /\ h[S0] \in Nat /\ m[T0] \in Nat
  <2>1. h \in [SUBSET S0 -> Nat] /\ m \in [SUBSET T0 -> Nat]
    BY <1>3, <1>4, <1>5, <1>6, <1>7, <1>8, SumsTyped
  <2> QED
    BY <1>2, <1>3, <1>4, <1>5, <1>7, <1>8, <2>1, SumsGrow
<1> QED
  BY <1>7, <1>8, <1>9 DEF longer

\* The larger and the smaller of two numbers.
LEMMA OfTwo ==
    ASSUME NEW x \in Int, NEW y \in Int
    PROVE  /\ B!Max({x, y}) = IF x >= y THEN x ELSE y
           /\ B!Min({x, y}) = IF x <= y THEN x ELSE y
<1>1. \E z \in {x, y} : \A w \in {x, y} : z >= w
  OBVIOUS
<1>2. \E z \in {x, y} : \A w \in {x, y} : z <= w
  OBVIOUS
<1>3. B!Max({x, y}) \in {x, y} /\ \A w \in {x, y} : B!Max({x, y}) >= w
  BY <1>1 DEF B!Max
<1>4. B!Min({x, y}) \in {x, y} /\ \A w \in {x, y} : B!Min({x, y}) <= w
  BY <1>2 DEF B!Min
<1> QED
  BY <1>3, <1>4

\* Tiers are known ones, and the ledger holds counted usage.
BillInv ==
    /\ org \in [tier : B!Tiers, status : {"unconfigured", "active", "grace", "canceled"},
                failedAt : Int, pending : B!Tiers \cup {B!NoTier}, effective : Int]
    /\ billEntries \in Seq(Ledger)

\* The cap of a tier.
LEMMA CapTyped == ASSUME NEW tier \in B!Tiers PROVE Included[tier] \in Nat /\ B!OverageRunCap(tier) \in Nat
<1> DEFINE multiplier == IF CapMultiplier = 0 THEN DefaultMultiplier ELSE CapMultiplier
<1>1. Included[tier] \in Nat /\ multiplier \in Nat /\ MultiplierParts \in Nat \ {0}
  BY BillingAssumption DEF B!Tiers
<1>2. \A x, y \in Nat : x * y \in Nat
  OBVIOUS
<1>3. \A x \in Nat, y \in Nat \ {0} : x \div y \in Nat
  OBVIOUS
<1>4. B!OverageRunCap(tier) = (Included[tier] * multiplier) \div MultiplierParts
  BY DEF B!OverageRunCap
<1> HIDE DEF multiplier
<1> QED
  BY <1>1, <1>2, <1>3, <1>4

\* The initial states.
LEMMA BillInit == B!Init => BillInv
  BY DEF B!Init, BillInv, B!Never, B!NoTier

\* An entry changes the ledger only, an event the plan only.
LEMMA BillKept == BillInv /\ [B!Next]_B!billingVars => BillInv' /\ (billEntries' # billEntries => org' = org /\ \E e \in Ledger : billEntries' = Append(billEntries, e))
<1> SUFFICES ASSUME BillInv, [B!Next]_B!billingVars
             PROVE  BillInv' /\ (billEntries' # billEntries => org' = org /\ \E e \in Ledger : billEntries' = Append(billEntries, e))
  OBVIOUS
<1>1. ASSUME NEW e \in B!BillingEvents, B!StripeWebhook(e) PROVE BillInv' /\ billEntries' = billEntries
  <2>1. org' = B!Apply(e) /\ billEntries' = billEntries
    BY <1>1 DEF B!StripeWebhook
  <2>2. /\ e.type \in {"paid", "failed", "deleted", "updated"}
        /\ e.type = "failed" => e.at \in Int
        /\ e.type = "updated" => e.tier \in B!Tiers \cup {B!NoTier} /\ e.effective \in Int
    BY DEF B!BillingEvents, B!Never
  <2>n. B!Never \in Int
    BY DEF B!Never
  <2>3. B!Apply(e) \in [tier : B!Tiers, status : {"unconfigured", "active", "grace", "canceled"},
                        failedAt : Int, pending : B!Tiers \cup {B!NoTier}, effective : Int]
    <3>1. CASE e.type = "paid"
      BY <2>2, <2>n, <3>1 DEF BillInv, B!Apply
    <3>2. CASE e.type = "failed"
      BY <2>2, <2>n, <3>2 DEF BillInv, B!Apply
    <3>3. CASE e.type = "deleted"
      BY <2>2, <2>n, <3>3 DEF BillInv, B!Apply
    <3>4. CASE e.type = "updated"
      <4>1. CASE e.tier = B!NoTier
        BY <2>2, <2>n, <3>4, <4>1 DEF BillInv, B!Apply
      <4>2. CASE e.tier # B!NoTier /\ e.effective # B!Never
        BY <2>2, <2>n, <3>4, <4>2 DEF BillInv, B!Apply
      <4>3. CASE e.tier # B!NoTier /\ e.effective = B!Never
        BY <2>2, <2>n, <3>4, <4>3 DEF BillInv, B!Apply
      <4> QED
        BY <4>1, <4>2, <4>3
    <3> QED
      BY <2>2, <2>n, <3>1, <3>2, <3>3, <3>4
  <2> QED
    BY <2>1, <2>3 DEF BillInv
<1>2. ASSUME NEW r \in BilledRuns, NEW step \in BilledSteps, NEW use \in Usage, B!Record(r, step, use)
      PROVE  BillInv' /\ org' = org /\ \E e \in Ledger : billEntries' = Append(billEntries, e)
  <2> DEFINE e == [run |-> r, step |-> step, attempt |-> use.attempt, tokens |-> use.tokens, seconds |-> use.seconds]
  <2>1. e \in Ledger
    BY BillingAssumption DEF Ledger
  <2>2. billEntries' = Append(billEntries, e) /\ org' = org
    BY <1>2 DEF B!Record
  <2> HIDE DEF e
  <2> QED
    BY <2>1, <2>2 DEF BillInv
<1>3. CASE B!SettlePendingPlanChange
  <2>1. B!Never \in Int
    BY DEF B!Never
  <2>2. org.pending \in B!Tiers
    BY <1>3 DEF B!SettlePendingPlanChange, BillInv
  <2>3. org' = [org EXCEPT !.tier = org.pending, !.pending = B!NoTier, !.effective = B!Never] /\ billEntries' = billEntries
    BY <1>3 DEF B!SettlePendingPlanChange
  <2> QED
    BY <2>1, <2>2, <2>3 DEF BillInv
<1>4. CASE B!Tick
  BY <1>4 DEF B!Tick, BillInv
<1>5. CASE UNCHANGED B!billingVars
  BY <1>5 DEF B!billingVars, BillInv
<1> QED
  BY <1>1, <1>2, <1>3, <1>4, <1>5 DEF B!Next

\* The invoice for so much consumption.
InvoiceFor(tier, consumed) ==
    LET overage == B!Max({0, consumed - Included[tier]})
        room == B!Max({0, B!OverageRunCap(tier) - Included[tier]})
    IN  [consumed |-> consumed, overage |-> overage,
         billable |-> B!Min({overage, room}), hardStop |-> overage > room]

\* That is the invoice, before and after a step.
LEMMA InvoiceOf ==
    /\ B!Invoice(org.tier) = InvoiceFor(org.tier, ConsumedIn(billEntries))
    /\ B!Invoice(org.tier)' = InvoiceFor(org'.tier, ConsumedIn(billEntries'))
<1>1. B!Invoice(org.tier) = InvoiceFor(org.tier, ConsumedIn(billEntries))
  BY ConsumedOf DEF InvoiceFor, B!Invoice
<1>2. B!Invoice(org.tier)' = InvoiceFor(org'.tier, B!ConsumedCredits')
  BY DEF InvoiceFor, B!Invoice, B!OverageRunCap
<1>3. B!ConsumedCredits' = ConsumedIn(billEntries')
  BY DEF B!ConsumedCredits, ConsumedIn, CreditsOf, RunsIn, B!CreditsForRun, CreditsIn, EntriesIn, B!EntriesOf,
        B!RetriesExceeded, B!Total, B!RunTokens, B!Seconds, TokensIn, SecondsIn,
        B!MapThenSumSet, B!MapThenFoldSet
<1> QED
  BY <1>1, <1>2, <1>3

\* What an invoice says, of what is consumed and of the numbers of the tier.
LEMMA InvoiceSays ==
    ASSUME NEW tier \in B!Tiers, NEW consumed \in Nat, NEW cap \in Nat, cap = B!OverageRunCap(tier)
    PROVE  LET overage == IF consumed > Included[tier] THEN consumed - Included[tier] ELSE 0
               room == IF cap > Included[tier] THEN cap - Included[tier] ELSE 0
           IN  /\ InvoiceFor(tier, consumed).consumed = consumed
               /\ InvoiceFor(tier, consumed).overage = overage
               /\ InvoiceFor(tier, consumed).billable = (IF overage <= room THEN overage ELSE room)
               /\ InvoiceFor(tier, consumed).hardStop = (overage > room)
<1> DEFINE inc == Included[tier]
           over == B!Max({0, consumed - inc})
           room == B!Max({0, cap - inc})
           bill == B!Min({over, room})
<1>1. inc \in Nat
  BY CapTyped
<1>2. over = IF 0 >= consumed - inc THEN 0 ELSE consumed - inc
  BY <1>1, OfTwo
<1>3. room = IF 0 >= cap - inc THEN 0 ELSE cap - inc
  BY <1>1, OfTwo
<1>4. InvoiceFor(tier, consumed) = [consumed |-> consumed, overage |-> over, billable |-> bill, hardStop |-> over > room]
  BY DEF InvoiceFor
<1> HIDE DEF inc, over, room
<1>5. over \in Nat /\ room \in Nat
  BY <1>1, <1>2, <1>3
<1>6. bill = IF over <= room THEN over ELSE room
  <2>1. over \in Int /\ room \in Int
    BY <1>5
  <2> QED
    BY <2>1, OfTwo
<1> HIDE DEF bill
<1> QED
  BY <1>1, <1>2, <1>3, <1>4, <1>6 DEF inc

\* Of a larger ledger the invoice is no smaller, and it bills up to the cap.
LEMMA BillingGrows ==
    ASSUME BillInv, [B!Next]_B!billingVars, billEntries' # billEntries
    PROVE  LET before == B!Invoice(org.tier)
               after == B!Invoice(org.tier)'
           IN  /\ after.consumed >= before.consumed /\ after.billable >= before.billable
               /\ Included[org.tier] + after.billable
                     <= B!Max({Included[org.tier], B!OverageRunCap(org.tier)})
               /\ after.hardStop <=> after.billable < after.overage
<1> DEFINE tier == org.tier
           inc == Included[org.tier]
           cap == B!OverageRunCap(org.tier)
           before == B!Invoice(org.tier)
           after == B!Invoice(org.tier)'
           used == ConsumedIn(billEntries)
           more == ConsumedIn(billEntries')
           Says(i, n) == LET overage == IF n > inc THEN n - inc ELSE 0
                             room == IF cap > inc THEN cap - inc ELSE 0
                         IN  /\ i.consumed = n
                             /\ i.overage = overage
                             /\ i.billable = (IF overage <= room THEN overage ELSE room)
                             /\ i.hardStop = (overage > room)
<1>1. org' = org /\ \E e \in Ledger : billEntries' = Append(billEntries, e)
  BY BillKept
<1>2. tier \in B!Tiers
  BY DEF BillInv
<1>3. inc \in Nat /\ cap \in Nat
  BY <1>2, CapTyped
<1>4. used \in Nat /\ more \in Nat /\ used <= more
  BY <1>1, ConsumedGrows DEF BillInv
<1>5. Says(before, used)
  BY <1>2, <1>3, <1>4, InvoiceOf, InvoiceSays
<1>6. Says(after, more)
  BY <1>1, <1>2, <1>3, <1>4, InvoiceOf, InvoiceSays
<1>7. B!Max({inc, cap}) = IF inc >= cap THEN inc ELSE cap
  BY <1>3, OfTwo
<1> HIDE DEF inc, cap, before, after, used, more
<1> DEFINE o0 == IF used > inc THEN used - inc ELSE 0
           o1 == IF more > inc THEN more - inc ELSE 0
           room == IF cap > inc THEN cap - inc ELSE 0
<1>a. before.consumed = used /\ before.billable = IF o0 <= room THEN o0 ELSE room
  BY <1>5
<1>b. /\ after.consumed = more /\ after.overage = o1 /\ after.billable = (IF o1 <= room THEN o1 ELSE room)
      /\ after.hardStop = (o1 > room)
  BY <1>6
<1>c. o0 \in Nat /\ o1 \in Nat /\ room \in Nat /\ o0 <= o1 /\ (inc + room = IF inc >= cap THEN inc ELSE cap)
  BY <1>3, <1>4
<1> HIDE DEF Says, o0, o1, room
<1>8. /\ after.consumed >= before.consumed /\ after.billable >= before.billable
      /\ inc + after.billable <= B!Max({inc, cap})
      /\ after.hardStop <=> after.billable < after.overage
  <2>1. after.consumed >= before.consumed
    BY <1>4, <1>a, <1>b
  <2>2. after.billable >= before.billable /\ after.billable \in Nat /\ after.billable <= room
    BY <1>a, <1>b, <1>c
  <2>3. inc + after.billable <= B!Max({inc, cap})
    BY <1>3, <1>7, <1>c, <2>2
  <2>4. after.hardStop <=> after.billable < after.overage
    <3>1. o1 > room <=> after.billable < after.overage
      BY <1>b, <1>c
    <3> QED
      BY <1>b, <3>1
  <2> QED
    BY <2>1, <2>2, <2>3, <2>4
<1> QED
  BY <1>8 DEF inc, cap, before, after

\* In the control plane Billing moves as its module says, or not at all.
LEMMA BillingBeside == ControlPlaneSpec => B!Spec
  <1>1. ControlPlaneInit => B!Init
    BY DEF ControlPlaneInit
  <1>2. [ControlPlaneNext]_controlPlane => [B!Next]_B!billingVars
    BY DEF ControlPlaneNext, MeteringStep, IdentityStep, BillingStep, RollupStep, LimiterStep, MemoryStep,
           RecordsStep, SchemaStep, MigrationsStep, PullsStep, controlPlane, billing, B!billingVars
  <1> QED
    BY <1>1, <1>2, PTL DEF ControlPlaneSpec, B!Spec

\* InvoiceGrows: no entry of the month makes the invoice smaller while the plan
\* stays, it never bills past the cap, and it reports a hard stop exactly where
\* something is left unbilled (credits_for_run, build_invoice).
THEOREM InvoiceOnlyGrows == ControlPlaneSpec => InvoiceGrows
  <1>1. B!Init => BillInv
    BY BillInit
  <1>2. BillInv /\ [B!Next]_B!billingVars => BillInv'
    BY BillKept
  <1> DEFINE Grows == billEntries' # billEntries =>
                 LET before == B!Invoice(org.tier)
                     after == B!Invoice(org.tier)'
                 IN  /\ after.consumed >= before.consumed /\ after.billable >= before.billable
                     /\ Included[org.tier] + after.billable
                           <= B!Max({Included[org.tier], B!OverageRunCap(org.tier)})
                     /\ after.hardStop <=> after.billable < after.overage
  <1>3. BillInv /\ [B!Next]_B!billingVars => [Grows]_B!billingVars
    BY BillingGrows
  <1> HIDE DEF BillInv
  <1>4. B!Spec => B!InvoiceGrows
    BY <1>1, <1>2, <1>3, PTL DEF B!Spec, B!InvoiceGrows
  <1> QED
    BY <1>4, BillingBeside DEF InvoiceGrows

----------------------------------------------------------------------------
(* Identity: a written revocation is final, but for the JSONL store with a *)
(* second process; a membership has a group that explains it; and a        *)
(* recorded deprovisioning left no token of the user active.               *)

\* The types that the proofs below rely on; the bounds of the counters are
\* not among them, and no assumption on a constant is needed.
OpType == [pc : {"idle", "revoke", "members", "task"}, user : Users \cup {NoUser}, before : SUBSET Tokens]

TokensTyped ==
    /\ procs \subseteq Servers /\ backend \in {"table", "file"}
    /\ stored \in [Tokens -> I!TokenStates] /\ cache \in [Servers -> [Tokens -> I!TokenStates]]
    /\ revoked \subseteq Tokens /\ idFaults \in Nat
    /\ op \in [Servers -> OpType]

ScimType == [users : [Users -> {"none", "active", "inactive"}],
             groups : [Groups -> SUBSET (Users \cup {NoUser})], tasks : SUBSET (Users \cup {NoUser})]

GroupsTyped ==
    /\ procs \subseteq Servers
    /\ scim \in [Servers -> ScimType] /\ disk \in ScimType
    /\ members \in [Servers -> SUBSET Users] /\ deleted \in [Servers -> SUBSET (Users \cup {NoUser})]

----------------------------------------------------------------------------
\* What a write leaves (ApiTokenStore): a row or a whole file from p's view,
\* or, when the write of the file fails, p's memory alone.
LEMMA WriteTyped ==
    ASSUME TokensTyped, NEW p \in procs, NEW new \in [Tokens -> I!TokenStates],
           NEW gone \in SUBSET Tokens, I!Write(p, new, gone)
    PROVE  /\ stored' \in [Tokens -> I!TokenStates] /\ cache' \in [Servers -> [Tokens -> I!TokenStates]]
           /\ revoked' \subseteq Tokens /\ idFaults' \in Nat
  BY DEF TokensTyped, I!Write

\* What a process sees of the tokens is typed (ApiTokenStore.list_tokens).
LEMMA ViewTyped == ASSUME TokensTyped, NEW p \in procs PROVE I!View(p) \in [Tokens -> I!TokenStates]
  BY DEF TokensTyped, I!View

\* Revoking a user's tokens is a write of the view with those revoked, or
\* nothing (ApiTokenStore.revoke, for every token of deprovision_user).
LEMMA RevokeAllWrites ==
    ASSUME TokensTyped, NEW p \in procs, NEW u, I!RevokeAll(p, u)
    PROVE  \/ UNCHANGED I!tokenVars /\ \A t \in I!Owned(u) : I!View(p)[t] # "active"
           \/ \E gone \in SUBSET I!Owned(u), new \in [Tokens -> I!TokenStates] :
                 /\ I!Write(p, new, gone)
                 /\ \A t \in Tokens : new[t] = IF t \in gone THEN "revoked" ELSE I!View(p)[t]
                 /\ \A t \in I!Owned(u) : new[t] # "active"
  <1> DEFINE gone == {t \in I!Owned(u) : I!View(p)[t] = "active"}
             new == [t \in Tokens |-> IF t \in gone THEN "revoked" ELSE I!View(p)[t]]
  <1>1. CASE gone = {}
    BY <1>1 DEF I!RevokeAll
  <1>2. CASE gone # {}
    <2>1. I!Write(p, new, gone)
      BY <1>2 DEF I!RevokeAll
    <2>2. new \in [Tokens -> I!TokenStates]
      BY ViewTyped DEF I!TokenStates
    <2>3. \A t \in I!Owned(u) : new[t] # "active"
      BY DEF I!Owned
    <2> QED
      BY <2>1, <2>2, <2>3
  <1> QED
    BY <1>1, <1>2

\* The actions of Next, one by one.
LEMMA NextCases ==
    ASSUME I!Next
    PROVE  \E p \in procs :
              \/ I!DeprovisionRevoke(p) \/ I!DeprovisionMembers(p) \/ I!DeprovisionTask(p)
              \/ \E t \in Tokens : I!Issue(p, t) \/ I!Revoke(p, t) \/ I!VerifyExpired(p, t)
              \/ \E u \in Users : I!DeleteUser(p, u)
              \/ \E u \in Users, active \in BOOLEAN : I!CreateUser(p, u, active) \/ I!UpdateUser(p, u, active)
              \/ \E g \in Groups, named \in SUBSET Users : I!SyncGroupMembers(p, g, named)
              \/ \E g \in Groups : I!DeleteGroup(p, g)
              \/ \E expired \in SUBSET Tokens : I!Restart(p, expired)
  BY DEF I!Next, I!Deprovision

Unknown(t) == t \notin revoked /\ stored[t] = "none" /\ \A q \in Servers : cache[q][t] = "none"

\* What a step does to the tokens: nothing; a write by one process, of a token
\* issued or of tokens revoked; the end of a token's life; or a restart, which
\* loads the file again.
TokensStep ==
    \/ UNCHANGED I!tokenVars
    \/ \E p \in procs, new \in [Tokens -> I!TokenStates], gone \in SUBSET Tokens :
          /\ I!Write(p, new, gone)
          /\ \A t \in gone : new[t] = "revoked"
          /\ \A t \in Tokens : new[t] = "active" => I!View(p)[t] = "active" \/ Unknown(t)
          /\ \A t \in Tokens : new[t] = "none" => I!View(p)[t] = "none"
          /\ \A t \in Tokens : I!View(p)[t] = "active" => new[t] = "active" \/ t \in gone
    \/ \E t \in Tokens :
          /\ stored' = [stored EXCEPT ![t] = "revoked"] /\ backend = "table"
          /\ UNCHANGED <<cache, revoked, idFaults>>
    \/ \E p \in procs, expired \in SUBSET Tokens :
          /\ backend = "file"
          /\ stored' = [t \in Tokens |-> IF t \in expired THEN "revoked" ELSE stored[t]]
          /\ cache' = [cache EXCEPT ![p] = stored']
          /\ op' = [op EXCEPT ![p] = I!NoOp]
          /\ UNCHANGED <<revoked, idFaults>>

\* Every step is one of these (ApiTokenStore, all its callers).
LEMMA TokensSteps == ASSUME TokensTyped, [I!Next]_I!vars PROVE TokensStep /\ UNCHANGED <<procs, backend>>
  <1>1. CASE UNCHANGED I!vars
    BY <1>1 DEF I!vars, I!setup, TokensStep
  <1>2. CASE I!Next
    <2>1. PICK p \in procs :
              \/ I!DeprovisionRevoke(p) \/ I!DeprovisionMembers(p) \/ I!DeprovisionTask(p)
              \/ \E t \in Tokens : I!Issue(p, t) \/ I!Revoke(p, t) \/ I!VerifyExpired(p, t)
              \/ \E u \in Users : I!DeleteUser(p, u)
              \/ \E u \in Users, active \in BOOLEAN : I!CreateUser(p, u, active) \/ I!UpdateUser(p, u, active)
              \/ \E g \in Groups, named \in SUBSET Users : I!SyncGroupMembers(p, g, named)
              \/ \E g \in Groups : I!DeleteGroup(p, g)
              \/ \E expired \in SUBSET Tokens : I!Restart(p, expired)
      BY <1>2, NextCases
    <2>2. I!View(p) \in [Tokens -> I!TokenStates]
      BY ViewTyped
    <2>3. CASE I!DeprovisionRevoke(p)
      <3>1. UNCHANGED I!setup
        BY <2>3 DEF I!DeprovisionRevoke
      <3>2. CASE UNCHANGED I!tokenVars
        BY <3>1, <3>2 DEF TokensStep, I!setup
      <3>3. CASE I!RevokeAll(p, op[p].user) /\ ~UNCHANGED I!tokenVars
        <4>1. PICK gone \in SUBSET I!Owned(op[p].user), new \in [Tokens -> I!TokenStates] :
                 /\ I!Write(p, new, gone)
                 /\ \A t \in Tokens : new[t] = IF t \in gone THEN "revoked" ELSE I!View(p)[t]
          BY <3>3, RevokeAllWrites
        <4>2. gone \in SUBSET Tokens
          BY DEF I!Owned
        <4>3. TokensStep
          BY <4>1, <4>2 DEF TokensStep
        <4> QED
          BY <3>1, <4>3 DEF I!setup
      <3> QED
        BY <2>3, <3>2, <3>3 DEF I!DeprovisionRevoke
    <2>4. CASE I!DeprovisionMembers(p) \/ I!DeprovisionTask(p)
      BY <2>4 DEF I!DeprovisionMembers, I!DeprovisionTask, TokensStep, I!setup
    <2>5. ASSUME NEW t \in Tokens, I!Issue(p, t)
          PROVE  TokensStep /\ UNCHANGED I!setup
      <3> DEFINE new == [I!View(p) EXCEPT ![t] = "active"]
      <3>1. new \in [Tokens -> I!TokenStates]
        BY <2>2 DEF I!TokenStates
      <3>2. I!Write(p, new, {}) /\ Unknown(t) /\ UNCHANGED I!setup
        BY <2>5 DEF I!Issue, Unknown
      <3>3. \A s \in Tokens : s # t => new[s] = I!View(p)[s]
        BY <2>2
      <3>4. new[t] = "active"
        BY <2>2
      <3> HIDE DEF new
      <3>5. \A s \in Tokens : new[s] = "none" => I!View(p)[s] = "none"
        BY <3>3, <3>4
      <3>6. \A s \in Tokens : new[s] = "active" => I!View(p)[s] = "active" \/ Unknown(s)
        BY <3>2, <3>3
      <3>7. \A s \in Tokens : I!View(p)[s] = "active" => new[s] = "active"
        BY <3>3, <3>4
      <3>8. TokensStep
        BY <3>1, <3>2, <3>5, <3>6, <3>7 DEF TokensStep
      <3> QED
        BY <3>2, <3>8
    <2>6. ASSUME NEW t \in Tokens, I!Revoke(p, t)
          PROVE  TokensStep /\ UNCHANGED I!setup
      <3> DEFINE new == [I!View(p) EXCEPT ![t] = "revoked"]
      <3>1. new \in [Tokens -> I!TokenStates]
        BY <2>2 DEF I!TokenStates
      <3>2. I!Write(p, new, {t}) /\ UNCHANGED I!setup
        BY <2>6 DEF I!Revoke
      <3>3. new[t] = "revoked" /\ \A s \in Tokens : s # t => new[s] = I!View(p)[s]
        BY <2>2
      <3> HIDE DEF new
      <3>4. \A s \in {t} : new[s] = "revoked"
        BY <3>3
      <3>5. \A s \in Tokens : new[s] = "none" => I!View(p)[s] = "none"
        BY <3>3
      <3>6. \A s \in Tokens : new[s] = "active" => I!View(p)[s] = "active" \/ Unknown(s)
        BY <3>3
      <3>7. \A s \in Tokens : I!View(p)[s] = "active" => new[s] = "active" \/ s \in {t}
        BY <3>3
      <3>8. TokensStep
        BY <3>1, <3>2, <3>4, <3>5, <3>6, <3>7 DEF TokensStep
      <3> QED
        BY <3>2, <3>8
    <2>7. ASSUME NEW t \in Tokens, I!VerifyExpired(p, t)
          PROVE  TokensStep /\ UNCHANGED I!setup
      BY <2>7 DEF I!VerifyExpired, TokensStep
    <2>8. ASSUME NEW u \in Users, NEW active \in BOOLEAN,
                 I!DeleteUser(p, u) \/ I!CreateUser(p, u, active) \/ I!UpdateUser(p, u, active)
          PROVE  TokensStep /\ UNCHANGED I!setup
      BY <2>8 DEF I!DeleteUser, I!CreateUser, I!UpdateUser, TokensStep
    <2>9. ASSUME NEW g \in Groups, NEW named \in SUBSET Users,
                 I!SyncGroupMembers(p, g, named) \/ I!DeleteGroup(p, g)
          PROVE  TokensStep /\ UNCHANGED I!setup
      BY <2>9 DEF I!SyncGroupMembers, I!DeleteGroup, TokensStep
    <2>10. ASSUME NEW expired \in SUBSET Tokens, I!Restart(p, expired)
           PROVE  TokensStep /\ UNCHANGED I!setup
      <3>1. CASE backend = "file"
        BY <2>10, <3>1 DEF I!Restart, TokensStep
      <3>2. CASE backend # "file"
        BY <2>10, <3>2 DEF I!Restart, TokensStep, I!tokenVars
      <3> QED
        BY <3>1, <3>2
    <2> QED
      BY <2>1, <2>3, <2>4, <2>5, <2>6, <2>7, <2>8, <2>9, <2>10 DEF I!setup
  <1> QED
    BY <1>1, <1>2

----------------------------------------------------------------------------
\* Starts and ends of a deprovisioning (update_user, delete_user,
\* deprovision_user).
OpStep ==
    \/ UNCHANGED op
    \/ \E p \in procs : op' = [op EXCEPT ![p] = I!NoOp]
    \/ \E p \in procs, u \in Users : I!Start(p, u) /\ UNCHANGED I!tokenVars
    \/ \E p \in procs :
          /\ op[p].pc = "revoke" /\ op' = [op EXCEPT ![p].pc = "members"]
          /\ I!RevokeAll(p, op[p].user)
    \/ \E p \in procs :
          /\ op[p].pc = "members" /\ op' = [op EXCEPT ![p].pc = "task"]
          /\ UNCHANGED I!tokenVars

\* Every step is one of these too (deprovision_user and its callers).
LEMMA OpSteps == [I!Next]_I!vars => OpStep
  <1>1. CASE UNCHANGED I!vars
    BY <1>1 DEF I!vars, OpStep
  <1>2. CASE I!Next
    <2>1. PICK p \in procs :
              \/ I!DeprovisionRevoke(p) \/ I!DeprovisionMembers(p) \/ I!DeprovisionTask(p)
              \/ \E t \in Tokens : I!Issue(p, t) \/ I!Revoke(p, t) \/ I!VerifyExpired(p, t)
              \/ \E u \in Users : I!DeleteUser(p, u)
              \/ \E u \in Users, active \in BOOLEAN : I!CreateUser(p, u, active) \/ I!UpdateUser(p, u, active)
              \/ \E g \in Groups, named \in SUBSET Users : I!SyncGroupMembers(p, g, named)
              \/ \E g \in Groups : I!DeleteGroup(p, g)
              \/ \E expired \in SUBSET Tokens : I!Restart(p, expired)
      BY <1>2, NextCases
    <2>2. CASE I!DeprovisionRevoke(p)
      BY <2>2, Zenon DEF I!DeprovisionRevoke, OpStep
    <2>3. CASE I!DeprovisionMembers(p) \/ I!DeprovisionTask(p)
      BY <2>3, Zenon DEF I!DeprovisionMembers, I!DeprovisionTask, OpStep
    <2>4. ASSUME NEW t \in Tokens, I!Issue(p, t) \/ I!Revoke(p, t) \/ I!VerifyExpired(p, t)
          PROVE  OpStep
      BY <2>4 DEF I!Issue, I!Revoke, I!VerifyExpired, OpStep
    <2>5. ASSUME NEW u \in Users, NEW active \in BOOLEAN,
                 I!DeleteUser(p, u) \/ I!CreateUser(p, u, active) \/ I!UpdateUser(p, u, active)
          PROVE  OpStep
      BY <2>5, Zenon DEF I!DeleteUser, I!CreateUser, I!UpdateUser, OpStep
    <2>6. ASSUME NEW g \in Groups, NEW named \in SUBSET Users,
                 I!SyncGroupMembers(p, g, named) \/ I!DeleteGroup(p, g)
          PROVE  OpStep
      BY <2>6 DEF I!SyncGroupMembers, I!DeleteGroup, OpStep
    <2>7. ASSUME NEW expired \in SUBSET Tokens, I!Restart(p, expired)
          PROVE  OpStep
      BY <2>7, Zenon DEF I!Restart, OpStep
    <2> QED
      BY <2>1, <2>2, <2>3, <2>4, <2>5, <2>6, <2>7
  <1> QED
    BY <1>1, <1>2

\* Tokens, their copies and the deprovisionings keep their types.
LEMMA TokensStayTyped == TokensTyped /\ [I!Next]_I!vars => TokensTyped'
  <1> SUFFICES ASSUME TokensTyped, [I!Next]_I!vars
               PROVE  TokensTyped'
    OBVIOUS
  <1>1. TokensStep /\ UNCHANGED <<procs, backend>> /\ OpStep
    BY TokensSteps, OpSteps
  <1>2. op' \in [Servers -> OpType]
    <2>1. ASSUME NEW p \in procs, NEW u \in Users, I!Start(p, u)
          PROVE  op' \in [Servers -> OpType]
      <3>1. {t \in I!Owned(u) : I!View(p)[t] # "none"} \in SUBSET Tokens
        BY DEF I!Owned
      <3>2. [pc |-> "revoke", user |-> u, before |-> {t \in I!Owned(u) : I!View(p)[t] # "none"}] \in OpType
        BY <3>1 DEF OpType
      <3> QED
        BY <2>1, <3>2 DEF I!Start, TokensTyped
    <2>2. I!NoOp \in OpType
      BY DEF I!NoOp, OpType
    <2>3. ASSUME NEW p \in procs, NEW pc \in {"members", "task"}, op' = [op EXCEPT ![p].pc = pc]
          PROVE  op' \in [Servers -> OpType]
      BY <2>3 DEF TokensTyped, OpType
    <2> QED
      BY <1>1, <2>1, <2>2, <2>3 DEF OpStep, TokensTyped
  <1>3. /\ stored' \in [Tokens -> I!TokenStates] /\ cache' \in [Servers -> [Tokens -> I!TokenStates]]
        /\ revoked' \subseteq Tokens /\ idFaults' \in Nat
    <2>1. CASE UNCHANGED I!tokenVars
      BY <2>1 DEF TokensTyped, I!tokenVars
    <2>2. ASSUME NEW p \in procs, NEW new \in [Tokens -> I!TokenStates], NEW gone \in SUBSET Tokens,
                 I!Write(p, new, gone)
          PROVE  /\ stored' \in [Tokens -> I!TokenStates] /\ cache' \in [Servers -> [Tokens -> I!TokenStates]]
                 /\ revoked' \subseteq Tokens /\ idFaults' \in Nat
      BY <2>2, WriteTyped
    <2> QED
      BY <1>1, <2>1, <2>2 DEF TokensStep, TokensTyped, I!TokenStates
  <1> QED
    BY <1>1, <1>2, <1>3 DEF TokensTyped

----------------------------------------------------------------------------
(* A written revocation is final.                                          *)

\* Inductive as it stands: a token that is revoked is known, so nobody issues
\* it again, and what a process writes back it has in its memory.
LEMMA RevocationKept == TokensTyped /\ I!RevokedStaysRevoked /\ [I!Next]_I!vars => I!RevokedStaysRevoked'
  <1> SUFFICES ASSUME TokensTyped, I!RevokedStaysRevoked, [I!Next]_I!vars, NEW t \in revoked'
               PROVE  \/ stored'[t] # "active" /\ \A p \in procs' : I!View(p)'[t] # "active"
                      \/ backend' = "file" /\ \E p \in procs' : cache'[p][t] = "active" /\ procs' # {p}
    BY DEF I!RevokedStaysRevoked
  <1>0. TokensTyped' /\ TokensStep /\ procs' = procs /\ backend' = backend
    BY TokensSteps, TokensStayTyped
  <1>t. t \in Tokens
    BY <1>0 DEF TokensTyped
  <1>1. CASE UNCHANGED I!tokenVars
    BY <1>0, <1>1 DEF I!RevokedStaysRevoked, I!tokenVars, I!View
  <1>2. ASSUME NEW p \in procs, NEW new \in [Tokens -> I!TokenStates], NEW gone \in SUBSET Tokens,
               I!Write(p, new, gone),
               \A s \in gone : new[s] = "revoked",
               \A s \in Tokens : new[s] = "active" => I!View(p)[s] = "active" \/ Unknown(s),
               \A s \in Tokens : I!View(p)[s] = "active" => new[s] = "active" \/ s \in gone
        PROVE  \/ stored'[t] # "active" /\ \A q \in procs : I!View(q)'[t] # "active"
               \/ backend = "file" /\ \E q \in procs : cache'[q][t] = "active" /\ procs # {q}
    <2>1. CASE backend = "table"
      <3>1. stored' = new /\ revoked' = revoked \cup gone
        BY <1>2, <2>1 DEF I!Write
      <3>2. new[t] # "active"
        BY <1>2, <1>t, <2>1, <3>1 DEF I!RevokedStaysRevoked, I!View, Unknown
      <3> QED
        BY <1>0, <2>1, <3>1, <3>2 DEF I!View
    <2>2. CASE backend = "file" /\ stored' = new /\ revoked' = revoked \cup gone
      <3>1. cache' = [cache EXCEPT ![p] = new]
        BY <1>2, <2>2 DEF I!Write, TokensTyped
      <3>2. p \in Servers /\ cache'[p] = new /\ \A q \in procs : q # p => cache'[q] = cache[q]
        BY <3>1 DEF TokensTyped
      <3>3. new[t] = "active" => t \in revoked /\ cache[p][t] = "active"
        BY <1>2, <1>t, <2>2 DEF I!View, Unknown
      <3>4. CASE new[t] = "active"
        BY <2>2, <3>2, <3>3, <3>4 DEF I!RevokedStaysRevoked, I!View
      <3>5. CASE new[t] # "active"
        BY <1>0, <2>2, <3>2, <3>5 DEF I!View
      <3> QED
        BY <3>4, <3>5
    <2>3. CASE backend = "file" /\ cache' = [cache EXCEPT ![p] = new] /\ revoked' = revoked \ gone /\ UNCHANGED stored
      <3>2. p \in Servers /\ cache'[p] = new /\ \A q \in procs : q # p => cache'[q] = cache[q]
        BY <2>3 DEF TokensTyped
      <3>3. t \in revoked /\ (new[t] = "active" => cache[p][t] = "active")
        BY <1>2, <1>t, <2>3 DEF I!View, Unknown
      <3>5. cache[p][t] = "active" => new[t] = "active"
        BY <1>2, <1>t, <2>3 DEF I!View
      <3>4. stored[t] = "active" => \E q \in procs : cache[q][t] = "active" /\ procs # {q}
        BY <2>3, <3>3 DEF I!RevokedStaysRevoked
      <3> QED
        BY <1>0, <2>3, <3>2, <3>3, <3>4, <3>5 DEF I!RevokedStaysRevoked, I!View
    <2> QED
      BY <1>2, <2>1, <2>2, <2>3 DEF I!Write, TokensTyped
  <1>3. ASSUME NEW s \in Tokens, stored' = [stored EXCEPT ![s] = "revoked"], backend = "table",
               UNCHANGED <<cache, revoked, idFaults>>
        PROVE  stored'[t] # "active" /\ \A q \in procs : I!View(q)'[t] # "active"
    BY <1>0, <1>t, <1>3 DEF I!RevokedStaysRevoked, I!View, TokensTyped
  <1>4. ASSUME NEW p \in procs, NEW expired \in SUBSET Tokens, backend = "file",
               stored' = [s \in Tokens |-> IF s \in expired THEN "revoked" ELSE stored[s]],
               cache' = [cache EXCEPT ![p] = stored'],
               UNCHANGED <<revoked, idFaults>>
        PROVE  \/ stored'[t] # "active" /\ \A q \in procs : I!View(q)'[t] # "active"
               \/ \E q \in procs : cache'[q][t] = "active" /\ procs # {q}
    <2>1. cache'[p] = stored' /\ \A q \in procs : q # p => cache'[q] = cache[q]
      BY <1>4 DEF TokensTyped
    <2>2. stored'[t] = "active" => stored[t] = "active"
      BY <1>4, <1>t
    <2>3. CASE \E q \in procs \ {p} : cache[q][t] = "active"
      BY <2>1, <2>3
    <2>4. CASE \A q \in procs \ {p} : cache[q][t] # "active"
      <3>1. CASE stored'[t] = "active"
        <4>1. t \in revoked /\ stored[t] = "active"
          BY <1>4, <2>2, <3>1
        <4>2. procs # {p}
          BY <2>4, <4>1 DEF I!RevokedStaysRevoked
        <4> QED
          BY <2>1, <3>1, <4>2
      <3>2. CASE stored'[t] # "active"
        BY <1>0, <1>4, <2>1, <2>4, <3>2 DEF I!View
      <3> QED
        BY <3>1, <3>2
    <2> QED
      BY <2>3, <2>4
  <1> QED
    BY <1>0, <1>1, <1>2, <1>3, <1>4 DEF TokensStep

\* The initial states.
LEMMA InitTyped == I!Init => TokensTyped /\ GroupsTyped /\ I!RevokedStaysRevoked /\ I!MembersListed
  <1> SUFFICES ASSUME I!Init PROVE TokensTyped /\ GroupsTyped /\ I!RevokedStaysRevoked /\ I!MembersListed
    OBVIOUS
  <1>1. I!NoOp \in OpType
    BY DEF I!NoOp, OpType
  <1>2. I!Empty \in ScimType
    BY DEF I!Empty, ScimType, I!NoGroup
  <1>3. TokensTyped
    BY <1>1 DEF I!Init, TokensTyped, I!TokenStates
  <1>4. GroupsTyped
    BY <1>2 DEF I!Init, GroupsTyped
  <1>5. I!RevokedStaysRevoked /\ I!MembersListed
    BY DEF I!Init, I!RevokedStaysRevoked, I!MembersListed
  <1> QED
    BY <1>3, <1>4, <1>5

\* In the control plane Identity moves as its module says, or not at all.
LEMMA IdentityBeside == ControlPlaneSpec => I!Spec
  <1>1. ControlPlaneInit => I!Init
    BY DEF ControlPlaneInit
  <1>2. [ControlPlaneNext]_controlPlane => [I!Next]_I!vars
    BY DEF ControlPlaneNext, MeteringStep, IdentityStep, BillingStep, RollupStep, LimiterStep, MemoryStep,
           RecordsStep, SchemaStep, MigrationsStep, PullsStep, controlPlane, identity, I!vars, I!setup, I!tokenVars, I!scimVars
  <1>. QED
    BY <1>1, <1>2, PTL DEF ControlPlaneSpec, I!Spec

\* RevokedStaysRevoked: whatever is issued, revoked, persisted or restarted
\* behind a written revocation, the token is accepted again only through a
\* second process of the JSONL store that has it active in its memory
\* (ApiTokenStore._persist).
THEOREM RevocationIsFinal == ControlPlaneSpec => []RevokedStaysRevoked
  <1>1. I!Init => TokensTyped /\ I!RevokedStaysRevoked
    BY InitTyped
  <1>2. TokensTyped /\ I!RevokedStaysRevoked /\ [I!Next]_I!vars => (TokensTyped /\ I!RevokedStaysRevoked)'
    BY TokensStayTyped, RevocationKept
  <1>3. I!Spec => []I!RevokedStaysRevoked
    BY <1>1, <1>2, PTL DEF I!Spec
  <1> QED
    BY <1>3, IdentityBeside, PTL DEF RevokedStaysRevoked

----------------------------------------------------------------------------
(* A recorded deprovisioning took the user's tokens away.                  *)

\* What a deprovisioning has seen and done, while it is under way; and a
\* single process whose writes all succeeded has in memory what is on file.
TaskInv ==
    /\ \A p \in procs : \A t \in op[p].before :
          /\ t \in I!Owned(op[p].user) /\ I!View(p)[t] # "none"
          /\ op[p].pc \in {"members", "task"} => I!View(p)[t] = "revoked"
    /\ \A p \in procs : procs = {p} /\ idFaults = 0 => stored = I!View(p)

\* A token that a process knows stays known to it, and stays revoked, until
\* the process is started again (ApiTokenStore).
LEMMA ViewKept ==
    ASSUME TokensTyped, TokensStep, UNCHANGED <<procs, backend>>,
           NEW p \in procs, NEW t \in Tokens, op'[p] # I!NoOp
    PROVE  /\ I!View(p)[t] # "none" => I!View(p)'[t] # "none"
           /\ I!View(p)[t] = "revoked" => I!View(p)'[t] = "revoked"
  <1>1. CASE UNCHANGED I!tokenVars
    BY <1>1 DEF I!tokenVars, I!View
  <1>2. ASSUME NEW q \in procs, NEW new \in [Tokens -> I!TokenStates], NEW gone \in SUBSET Tokens,
               I!Write(q, new, gone),
               \A s \in gone : new[s] = "revoked",
               \A s \in Tokens : new[s] = "active" => I!View(q)[s] = "active" \/ Unknown(s),
               \A s \in Tokens : new[s] = "none" => I!View(q)[s] = "none"
        PROVE  /\ I!View(p)[t] # "none" => I!View(p)'[t] # "none"
               /\ I!View(p)[t] = "revoked" => I!View(p)'[t] = "revoked"
    <2>1. I!View(p)' = I!View(p) \/ (I!View(p)' = new /\ I!View(p) = I!View(q))
      BY <1>2 DEF I!Write, I!View, TokensTyped
    <2>2. I!View(p) = I!View(q) => (I!View(q)[t] # "none" => ~Unknown(t))
      BY DEF I!View, Unknown, TokensTyped
    <2>3. new[t] \in I!TokenStates
      OBVIOUS
    <2> QED
      BY <1>2, <2>1, <2>2, <2>3 DEF I!TokenStates
  <1>3. ASSUME NEW s \in Tokens, stored' = [stored EXCEPT ![s] = "revoked"], backend = "table"
        PROVE  /\ I!View(p)[t] # "none" => I!View(p)'[t] # "none"
               /\ I!View(p)[t] = "revoked" => I!View(p)'[t] = "revoked"
    BY <1>3 DEF I!View, TokensTyped
  <1>4. ASSUME NEW q \in procs, backend = "file", cache' = [cache EXCEPT ![q] = stored'],
               op' = [op EXCEPT ![q] = I!NoOp]
        PROVE  I!View(p)' = I!View(p)
    BY <1>4 DEF I!View, TokensTyped
  <1> QED
    BY <1>1, <1>2, <1>3, <1>4 DEF TokensStep

\* As long as every write succeeds, a single process and the file agree
\* (ApiTokenStore._persist, _load).
LEMMA StaysSynced ==
    ASSUME TokensTyped, TokensStep, UNCHANGED <<procs, backend>>,
           NEW p \in procs, procs = {p}, idFaults' = 0, idFaults = 0 => stored = I!View(p)
    PROVE  stored' = I!View(p)'
  <1>1. idFaults' >= idFaults
    BY DEF TokensStep, I!Write, TokensTyped, I!tokenVars
  <1>2. idFaults = 0 /\ stored = I!View(p)
    BY <1>1 DEF TokensTyped
  <1>3. ASSUME NEW q \in procs, NEW new \in [Tokens -> I!TokenStates], NEW gone \in SUBSET Tokens,
               I!Write(q, new, gone)
        PROVE  stored' = I!View(p)'
    BY <1>2, <1>3 DEF I!Write, I!View, TokensTyped
  <1> QED
    BY <1>2, <1>3 DEF TokensStep, I!View, TokensTyped, I!tokenVars

\* Inductive with the types: see ViewKept and StaysSynced.
LEMMA TaskInvKept == TokensTyped /\ TaskInv /\ [I!Next]_I!vars => TaskInv'
  <1> SUFFICES ASSUME TokensTyped, TaskInv, [I!Next]_I!vars
               PROVE  TaskInv'
    OBVIOUS
  <1>0. TokensTyped' /\ TokensStep /\ UNCHANGED <<procs, backend>> /\ OpStep
    BY TokensSteps, TokensStayTyped, OpSteps
  <1>1. ASSUME NEW p \in procs, procs = {p}, idFaults' = 0
        PROVE  stored' = I!View(p)'
    BY <1>0, <1>1, StaysSynced DEF TaskInv
  <1>2. ASSUME NEW p \in procs, NEW t \in op'[p].before
        PROVE  /\ t \in I!Owned(op'[p].user) /\ I!View(p)'[t] # "none"
               /\ op'[p].pc \in {"members", "task"} => I!View(p)'[t] = "revoked"
    <2>0. p \in Servers /\ op'[p] # I!NoOp /\ t \in Tokens
      BY <1>0 DEF I!NoOp, TokensTyped, OpType
    <2>1. CASE op'[p] = op[p]
      BY <1>0, <2>0, <2>1, ViewKept DEF TaskInv
    <2>2. ASSUME NEW u \in Users, I!Start(p, u), UNCHANGED I!tokenVars
          PROVE  /\ t \in I!Owned(op'[p].user) /\ I!View(p)'[t] # "none"
                 /\ op'[p].pc \notin {"members", "task"}
      BY <1>0, <1>2, <2>0, <2>2 DEF I!Start, I!View, I!tokenVars, TokensTyped
    <2>3. CASE op[p].pc = "revoke" /\ op' = [op EXCEPT ![p].pc = "members"] /\ I!RevokeAll(p, op[p].user)
      <3>1. t \in op[p].before /\ op'[p].user = op[p].user
        BY <2>0, <2>3 DEF TokensTyped, OpType
      <3>2. t \in I!Owned(op[p].user) /\ I!View(p)[t] # "none"
        BY <3>1 DEF TaskInv
      <3>3. I!View(p)'[t] # "none" /\ I!View(p)'[t] # "active"
        <4>1. I!View(p)'[t] # "none"
          BY <1>0, <2>0, <3>2, ViewKept
        <4>2. CASE UNCHANGED I!tokenVars /\ \A s \in I!Owned(op[p].user) : I!View(p)[s] # "active"
          BY <1>0, <3>2, <4>2 DEF I!View, I!tokenVars
        <4>3. ASSUME NEW gone \in SUBSET I!Owned(op[p].user), NEW new \in [Tokens -> I!TokenStates],
                     I!Write(p, new, gone), \A s \in I!Owned(op[p].user) : new[s] # "active"
              PROVE  I!View(p)'[t] # "active"
          <5>1. I!View(p)' = new
            BY <1>0, <2>0, <4>3 DEF I!Write, I!View, TokensTyped
          <5> QED
            BY <3>2, <4>3, <5>1
        <4> QED
          BY <2>3, <4>1, <4>2, <4>3, RevokeAllWrites
      <3>4. I!View(p)'[t] \in I!TokenStates
        BY <1>0, <2>0 DEF I!View, TokensTyped
      <3> QED
        BY <3>1, <3>2, <3>3, <3>4 DEF I!TokenStates
    <2>4. CASE op[p].pc = "members" /\ op' = [op EXCEPT ![p].pc = "task"] /\ UNCHANGED I!tokenVars
      <3>1. t \in op[p].before /\ op'[p].user = op[p].user
        BY <2>0, <2>4 DEF TokensTyped, OpType
      <3>2. I!View(p)' = I!View(p)
        BY <1>0, <2>4 DEF I!View, I!tokenVars
      <3> QED
        BY <2>4, <3>1, <3>2 DEF TaskInv
    <2>5. op' # [op EXCEPT ![p] = I!NoOp]
      BY <2>0 DEF TokensTyped
    <2>6. ASSUME NEW q \in procs, q # p,
                 \/ op' = [op EXCEPT ![q] = I!NoOp]
                 \/ \E u \in Users : I!Start(q, u)
                 \/ \E pc \in {"members", "task"} : op' = [op EXCEPT ![q].pc = pc]
          PROVE  op'[p] = op[p]
      BY <2>0, <2>6 DEF I!Start, TokensTyped
    <2>7. UNCHANGED op => op'[p] = op[p]
      OBVIOUS
    <2> QED
      BY <1>0, <2>1, <2>2, <2>3, <2>4, <2>5, <2>6, <2>7 DEF OpStep
  <1> QED
    BY <1>0, <1>1, <1>2 DEF TaskInv

\* The step that records a task finds the user's tokens revoked.
LEMMA TaskStepOut ==
    ASSUME TokensTyped, TaskInv, NEW p \in procs, I!DeprovisionTask(p), NEW t \in op[p].before
    PROVE  /\ I!View(p)[t] # "active"
           /\ procs = {p} /\ idFaults = 0 => stored[t] # "active"
  <1>1. I!View(p)[t] = "revoked"
    BY DEF I!DeprovisionTask, TaskInv
  <1> QED
    BY <1>1 DEF TaskInv

----------------------------------------------------------------------------
(* No membership without a group.                                          *)

GroupsInv == GroupsTyped /\ I!MembersListed

\* A change of users or tasks that leaves groups and memberships alone.
LEMMA OthersKept ==
    ASSUME GroupsInv, UNCHANGED <<procs, members, deleted>>,
           NEW p \in procs, NEW new \in ScimType, new.groups = scim[p].groups,
           scim' = [scim EXCEPT ![p] = new], disk' = new \/ disk' = disk
    PROVE  GroupsInv'
  BY DEF GroupsInv, GroupsTyped, I!MembersListed

\* Inductive with the types alone: a synchronisation takes away what it drops
\* from its group, and a deleted group is remembered (_sync_group_members).
LEMMA GroupsKept == TokensTyped /\ GroupsInv /\ [I!Next]_I!vars => GroupsInv'
  <1> SUFFICES ASSUME TokensTyped, GroupsInv, [I!Next]_I!vars
               PROVE  GroupsInv'
    OBVIOUS
  <1>0. UNCHANGED <<procs, scim, disk, members, deleted>> => GroupsInv'
    BY DEF GroupsInv, GroupsTyped, I!MembersListed
  <1>1. CASE UNCHANGED I!vars
    BY <1>0, <1>1 DEF I!vars, I!setup, I!scimVars
  <1>2. CASE I!Next
    <2>1. PICK p \in procs :
              \/ I!DeprovisionRevoke(p) \/ I!DeprovisionMembers(p) \/ I!DeprovisionTask(p)
              \/ \E t \in Tokens : I!Issue(p, t) \/ I!Revoke(p, t) \/ I!VerifyExpired(p, t)
              \/ \E u \in Users : I!DeleteUser(p, u)
              \/ \E u \in Users, active \in BOOLEAN : I!CreateUser(p, u, active) \/ I!UpdateUser(p, u, active)
              \/ \E g \in Groups, named \in SUBSET Users : I!SyncGroupMembers(p, g, named)
              \/ \E g \in Groups : I!DeleteGroup(p, g)
              \/ \E expired \in SUBSET Tokens : I!Restart(p, expired)
      BY <1>2, NextCases
    <2>a. p \in Servers /\ scim[p] \in ScimType
      BY DEF GroupsInv, GroupsTyped
    <2>2. CASE I!DeprovisionRevoke(p)
      BY <1>0, <2>2 DEF I!DeprovisionRevoke, I!setup, I!scimVars
    <2>3. CASE I!DeprovisionMembers(p)
      BY <2>a, <2>3 DEF I!DeprovisionMembers, I!setup, I!scimVars, GroupsInv, GroupsTyped, I!MembersListed
    <2>4. ASSUME NEW t \in Tokens, I!Issue(p, t) \/ I!Revoke(p, t) \/ I!VerifyExpired(p, t)
          PROVE  GroupsInv'
      BY <1>0, <2>4 DEF I!Issue, I!Revoke, I!VerifyExpired, I!setup, I!scimVars
    <2>5. CASE I!DeprovisionTask(p)
      <3> DEFINE new == [scim[p] EXCEPT !.tasks = @ \cup {op[p].user}]
      <3>1. new \in ScimType /\ new.groups = scim[p].groups
        BY <2>a DEF ScimType, TokensTyped, OpType
      <3> QED
        BY <2>5, <3>1, OthersKept DEF I!DeprovisionTask, I!Persist, I!setup
    <2>6. ASSUME NEW u \in Users, NEW active \in BOOLEAN,
                 I!DeleteUser(p, u) \/ I!CreateUser(p, u, active) \/ I!UpdateUser(p, u, active)
          PROVE  GroupsInv'
      <3> DEFINE new(s) == [scim[p] EXCEPT !.users[u] = s]
      <3>1. \A s \in {"active", "inactive"} : new(s) \in ScimType /\ new(s).groups = scim[p].groups
        BY <2>a DEF ScimType
      <3>2. PICK s \in {"active", "inactive"} :
               scim' = [scim EXCEPT ![p] = new(s)] /\ (disk' = new(s) \/ disk' = disk)
        BY <2>6, <2>a DEF I!DeleteUser, I!CreateUser, I!UpdateUser, I!Persist, GroupsInv, GroupsTyped
      <3>3. UNCHANGED <<procs, members, deleted>>
        BY <2>6 DEF I!DeleteUser, I!CreateUser, I!UpdateUser, I!setup
      <3> QED
        BY <3>1, <3>2, <3>3, OthersKept
    <2>7. ASSUME NEW g \in Groups, NEW named \in SUBSET Users, I!SyncGroupMembers(p, g, named)
          PROVE  GroupsInv'
      <3> DEFINE known == {u \in named : scim[p].users[u] # "none"}
                 new == [scim[p] EXCEPT !.groups[g] = known]
      <3>1. /\ new \in ScimType /\ new.groups[g] = known
            /\ \A h \in Groups : h # g => new.groups[h] = scim[p].groups[h]
        BY <2>a DEF ScimType
      <3>2. /\ scim' = [scim EXCEPT ![p] = new] /\ disk' = new
            /\ members' = [members EXCEPT ![p] = (@ \cup known) \ (scim[p].groups[g] \ known)]
            /\ UNCHANGED <<procs, deleted>>
        BY <2>7 DEF I!SyncGroupMembers, I!Persist, I!setup
      <3>3. known \subseteq Users
        OBVIOUS
      <3> HIDE DEF new, known
      <3>4. GroupsTyped'
        BY <2>a, <3>1, <3>2, <3>3 DEF GroupsInv, GroupsTyped
      <3>5. ASSUME NEW q \in Servers, NEW u \in members'[q]
            PROVE  u \in deleted[q] \/ \E h \in Groups : u \in scim'[q].groups[h]
        <4>1. CASE q # p
          BY <2>a, <3>2, <3>5, <4>1 DEF GroupsInv, GroupsTyped, I!MembersListed
        <4>2. CASE q = p /\ u \in known
          BY <2>a, <3>1, <3>2, <4>2 DEF GroupsInv, GroupsTyped
        <4>3. CASE q = p /\ u \notin known
          <5>1. u \in members[p] /\ u \notin scim[p].groups[g] /\ scim'[p] = new
            BY <2>a, <3>2, <3>5, <4>3 DEF GroupsInv, GroupsTyped
          <5>2. u \in deleted[p] \/ \E h \in Groups : h # g /\ u \in scim[p].groups[h]
            BY <2>a, <5>1 DEF GroupsInv, I!MembersListed
          <5> QED
            BY <3>1, <4>3, <5>1, <5>2
        <4> QED
          BY <4>1, <4>2, <4>3
      <3> QED
        BY <3>2, <3>4, <3>5 DEF GroupsInv, I!MembersListed
    <2>8. ASSUME NEW g \in Groups, I!DeleteGroup(p, g)
          PROVE  GroupsInv'
      <3> DEFINE new == [scim[p] EXCEPT !.groups[g] = I!NoGroup]
      <3>1. /\ new \in ScimType
            /\ \A h \in Groups : h # g => new.groups[h] = scim[p].groups[h]
        BY <2>a DEF ScimType, I!NoGroup
      <3>2. /\ scim' = [scim EXCEPT ![p] = new] /\ disk' = new
            /\ deleted' = [deleted EXCEPT ![p] = @ \cup scim[p].groups[g]]
            /\ UNCHANGED <<procs, members>>
        BY <2>8 DEF I!DeleteGroup, I!Persist, I!setup
      <3>3. scim[p].groups[g] \subseteq Users \cup {NoUser}
        BY <2>a DEF ScimType
      <3> HIDE DEF new
      <3>4. GroupsTyped'
        BY <2>a, <3>1, <3>2, <3>3 DEF GroupsInv, GroupsTyped
      <3>5. ASSUME NEW q \in Servers, NEW u \in members[q]
            PROVE  u \in deleted'[q] \/ \E h \in Groups : u \in scim'[q].groups[h]
        BY <2>a, <3>1, <3>2 DEF GroupsInv, GroupsTyped, I!MembersListed
      <3> QED
        BY <3>2, <3>4, <3>5 DEF GroupsInv, I!MembersListed
    <2>9. ASSUME NEW expired \in SUBSET Tokens, I!Restart(p, expired)
          PROVE  GroupsInv'
      BY <2>a, <2>9 DEF I!Restart, I!setup, GroupsInv, GroupsTyped, I!MembersListed
    <2> QED
      BY <2>1, <2>2, <2>3, <2>4, <2>5, <2>6, <2>7, <2>8, <2>9
  <1> QED
    BY <1>1, <1>2

\* The initial states.
LEMMA InitTasks == I!Init => TaskInv /\ GroupsInv
  <1> SUFFICES ASSUME I!Init PROVE TaskInv /\ GroupsInv
    OBVIOUS
  <1>1. \A p \in procs : op[p] = I!NoOp /\ stored = I!View(p)
    BY DEF I!Init, I!View
  <1> QED
    BY <1>1, InitTyped DEF TaskInv, GroupsInv, I!NoOp

\* DeprovisionedIsOut: no deprovisioning and no synchronisation leaves a
\* membership that no group explains, but for a deleted group; and when a
\* deprovision task is recorded, no token the user had is accepted by the
\* process, nor by the file when it is the only process and its writes succeed
\* (deprovision_user, _sync_group_members).
THEOREM DeprovisioningIsComplete == ControlPlaneSpec => DeprovisionedIsOut
  <1> DEFINE Inv == TokensTyped /\ TaskInv /\ GroupsInv
             Out == \A p \in procs : I!DeprovisionTask(p) => \A t \in op[p].before :
                       /\ I!View(p)[t] # "active"
                       /\ procs = {p} /\ idFaults = 0 => stored[t] # "active"
  <1>1. I!Init => Inv
    BY InitTyped, InitTasks
  <1>2. Inv /\ [I!Next]_I!vars => Inv'
    BY TokensStayTyped, TaskInvKept, GroupsKept
  <1>3. Inv => I!MembersListed
    BY DEF GroupsInv
  <1>4. Inv /\ [I!Next]_I!vars => [Out]_I!vars
    BY TaskStepOut
  <1>5. I!Spec => I!DeprovisionedIsOut
    BY <1>1, <1>2, <1>3, <1>4, PTL DEF I!Spec, I!DeprovisionedIsOut, I!TaskMeansOut
  <1> QED
    BY <1>5, IdentityBeside DEF DeprovisionedIsOut
=============================================================================
