--------------------------- MODULE ApiProcessProofs --------------------------
(* What an API process answers for, with any number of requests, streams,   *)
(* commands, deliveries, failures and crashes: the usage ledger has one     *)
(* line per key, a repeated request gets its run, the quota holds, streams  *)
(* show what happened, commands are applied in order, and no delivery ends  *)
(* unaccounted for.                                                         *)
EXTENDS ApiProcess, DataInduction, SequenceTheorems, TLAPS

----------------------------------------------------------------------------
(* The ledger (UsageMetering) *)

Events == [run : Runs, step : Nat, attempt : Nat,
           ctx : Contexts \cup {NoContext}]
Stages == {"none", "queued", "agent", "append", "recorded", "settled"}
Execs == [pc : Stages, proc : Procs \cup {NoProc}, step : Nat, attempt : Nat,
          row : Events \cup {NoRun}]

Served == {"new", "evaluate", "existing", "denied", "reserve", "register", "created", "failed"}

LedgerTypes ==
    /\ ledger \in Seq(Events)
    /\ written \in [Procs -> SUBSET KeysOf(ledger)]
    /\ exec \in [Runs -> Execs]
    /\ done \in [Runs -> Nat]

\* A request being served has its process, an admitted one its run.
RequestTypes ==
    /\ request \in [Requests -> [pc : Served, api : Apis \cup {NoProc}, run : Runs \cup {NoRun}]]
    /\ idem \in [Keys -> Runs \cup {NoRun}]
    /\ \A q \in Requests :
          /\ request[q].pc # "new" => request[q].api \in Apis
          /\ request[q].pc \in {"reserve", "register", "created"} => request[q].run \in Runs

\* A row that is about to be appended belongs to its run, and no line of the
\* file has its key yet: only the executor of the run could have written one.
PendingIsNew ==
    \A r \in Runs :
        exec[r].pc = "append" =>
            /\ exec[r].row \in Events /\ exec[r].row.run = r
            /\ exec[r].proc \in Procs
            /\ DedupKey(exec[r].row) \notin KeysOf(ledger)

\* An agent is executed by a process.
Executed == \A r \in Runs : exec[r].pc \in {"agent", "append", "recorded"} => exec[r].proc \in Procs

LedgerInv == LedgerTypes /\ Executed /\ PendingIsNew /\ OneRowPerKey

\* The keys of a file grow by the key of the appended line.
LEMMA KeysOfAppend ==
    ASSUME NEW rows \in Seq(Events), NEW row \in Events
    PROVE  KeysOf(Append(rows, row)) = KeysOf(rows) \cup {DedupKey(row)}
<1> DEFINE longer == Append(rows, row)
<1>1. /\ Len(longer) = Len(rows) + 1 /\ Len(rows) \in Nat
      /\ \A i \in 1 .. Len(rows) : longer[i] = rows[i]
      /\ longer[Len(rows) + 1] = row
  OBVIOUS
<1> HIDE DEF longer
<1>2. 1 .. Len(longer) = (1 .. Len(rows)) \cup {Len(rows) + 1}
  BY <1>1
<1>3. KeysOf(longer) = KeysOf(rows) \cup {DedupKey(row)}
  BY <1>1, <1>2, Zenon DEF KeysOf
<1> QED  BY <1>3 DEF longer

\* Initially nothing is recorded.
LEMMA LedgerInit == Init => LedgerInv
<1> SUFFICES ASSUME Init PROVE LedgerInv
  OBVIOUS
<1>1. exec \in [Runs -> Execs]
  BY DEF Init, Idle, Execs, Stages
<1> QED
  BY <1>1 DEF Init, LedgerInv, LedgerTypes, Executed, PendingIsNew, OneRowPerKey, Idle

\* Steps that leave the ledger, its copies and the executions alone.
LEMMA LedgerQuiet ==
    ASSUME LedgerInv, UNCHANGED <<ledger, written, exec>>,
           done' \in [Runs -> Nat]
    PROVE  LedgerInv'
  BY DEF LedgerInv, LedgerTypes, Executed, PendingIsNew, OneRowPerKey, KeysOf, DedupKey

\* A step in which one run goes on to a stage other than "append" while the
\* file stays as it is.
LEMMA LedgerMoves ==
    ASSUME LedgerInv, NEW r \in Runs, NEW e \in Execs,
           UNCHANGED <<ledger, written>>,
           exec' = [exec EXCEPT ![r] = e],
           e.pc # "append",
           e.pc \in {"agent", "recorded"} => e.proc \in Procs,
           done' \in [Runs -> Nat]
    PROVE  LedgerInv'
<1>1. LedgerTypes'
  BY DEF LedgerInv, LedgerTypes
<1>2. \A x \in Runs : exec'[x] = IF x = r THEN e ELSE exec[x]
  BY DEF LedgerInv, LedgerTypes
<1>3. Executed'
  BY <1>2 DEF LedgerInv, Executed
<1>4. PendingIsNew'
  BY <1>2 DEF LedgerInv, PendingIsNew
<1> QED  BY <1>1, <1>3, <1>4 DEF LedgerInv, OneRowPerKey

\* Requests keep their types through every step.
LEMMA RequestTypesInit == Init => RequestTypes
  BY DEF Init, RequestTypes, Served

\* They do: an answered request keeps its run, and a key the run it names.
LEMMA RequestTypesStep ==
    ASSUME RequestTypes, [Next]_vars
    PROVE  RequestTypes'
<1> USE DEF RequestTypes, Served
<1>1. ASSUME NEW q \in Requests, NEW a \in Apis, Arrive(q, a) PROVE RequestTypes'
  <2> DEFINE known == ~Durable /\ KeyOf[q] # NoKey /\ idem[KeyOf[q]] # NoRun
  <2>1. known => KeyOf[q] \in Keys
    BY DEF Keys
  <2>2. (IF known THEN idem[KeyOf[q]] ELSE NoRun) \in Runs \cup {NoRun}
    BY <2>1
  <2>3. request' = [request EXCEPT ![q] =
               [pc |-> IF known THEN "existing" ELSE "evaluate", api |-> a,
                run |-> IF known THEN idem[KeyOf[q]] ELSE NoRun]]
    BY <1>1 DEF Arrive
  <2> HIDE DEF known
  <2>4. idem' = idem
    BY <1>1 DEF Arrive
  <2> QED  BY <2>2, <2>3, <2>4
<1>2. ASSUME NEW q \in Requests, Deny(q) \/ RequestFails(q) PROVE RequestTypes'
  BY <1>2 DEF Deny, RequestFails, At, Answer
<1>3. ASSUME NEW q \in Requests, NEW r \in Runs, Admit(q, r) PROVE RequestTypes'
  BY <1>3 DEF Admit, At, Answer
<1>4. ASSUME NEW q \in Requests, Reserve(q) PROVE RequestTypes'
  BY <1>4 DEF Reserve, At, Answer
<1>5. ASSUME NEW q \in Requests, Create(q) PROVE RequestTypes'
  BY <1>5 DEF Create, At, Answer
<1>6. ASSUME NEW p \in Procs, Restart(p) PROVE RequestTypes'
  <2>1. idem' = idem /\ request' = [q \in Requests |->
          IF request[q].api = p /\ request[q].pc \in {"evaluate", "reserve", "register"}
          THEN [request[q] EXCEPT !.pc = "failed"] ELSE request[q]]
    BY <1>6 DEF Restart
  <2> QED  BY <2>1
<1>7. ASSUME UNCHANGED <<request, idem>> PROVE RequestTypes'
  BY <1>7
<1>8. CASE UNCHANGED vars
  BY <1>8, <1>7 DEF vars, admission
<1>9. CASE \/ \E r \in Runs :
              \/ \E w \in Workers : Take(w, r)
              \/ \E c \in Contexts \cup {NoContext} : Record(r, c)
              \/ AppendRow(r) \/ AppendFails(r)
              \/ Advance(r) \/ Retry(r) \/ GiveUp(r)
  BY <1>9, <1>7 DEF Take, Record, AppendRow, AppendFails, Advance, Retry, GiveUp, admission
<1> QED
  BY <1>1, <1>2, <1>3, <1>4, <1>5, <1>6, <1>8, <1>9 DEF Next, Serve

\* Serving requests: only Create touches an execution, which it starts.
LEMMA RequestSteps ==
    ASSUME LedgerInv, RequestTypes, NEW q \in Requests, Serve(q) \/ RequestFails(q)
    PROVE  LedgerInv'
<1> USE DEF LedgerInv, LedgerTypes
<1>1. CASE \E a \in Apis : Arrive(q, a)
  BY <1>1, LedgerQuiet DEF Arrive, ledgers, execution
<1>2. CASE Deny(q)
  BY <1>2, LedgerQuiet DEF Deny, ledgers, execution
<1>3. CASE \E r \in Runs : Admit(q, r)
  BY <1>3, LedgerQuiet DEF Admit, ledgers, execution
<1>4. CASE Reserve(q)
  BY <1>4, LedgerQuiet DEF Reserve, ledgers, execution
<1>5. CASE RequestFails(q)
  BY <1>5, LedgerQuiet DEF RequestFails, ledgers, execution
<1>6. CASE Create(q)
  <2> DEFINE r == request[q].run
             e == IF Durable THEN [Idle EXCEPT !.pc = "queued"]
                  ELSE [Idle EXCEPT !.pc = "agent", !.proc = request[q].api]
  <2>1. r \in Runs /\ request[q].api \in Apis
    BY <1>6 DEF Create, At, RequestTypes
  <2>2. e \in Execs /\ e.pc # "append" /\ (e.pc \in {"agent", "recorded"} => e.proc \in Procs)
    BY <2>1 DEF Idle, Execs, Stages, Procs
  <2>3. exec' = [exec EXCEPT ![r] = e] /\ UNCHANGED <<ledger, written, done>>
    BY <1>6 DEF Create, ledgers
  <2> QED  BY <2>1, <2>2, <2>3, LedgerMoves
<1> QED  BY <1>1, <1>2, <1>3, <1>4, <1>5, <1>6 DEF Serve

\* Moves of a run that leave the file as it is.
LEMMA RunSteps ==
    ASSUME LedgerInv, NEW r \in Runs,
           \/ \E w \in Workers : Take(w, r)
           \/ AppendFails(r) \/ Advance(r) \/ Retry(r) \/ GiveUp(r)
    PROVE  LedgerInv'
<1> USE DEF LedgerInv, LedgerTypes
<1>0. exec[r] \in Execs /\ Idle \in Execs
  BY DEF Execs, Idle, Stages
<1>1. ASSUME NEW w \in Workers, Take(w, r) PROVE LedgerInv'
  <2> DEFINE e == [Idle EXCEPT !.pc = "agent", !.proc = w, !.step = done[r] + 1]
  <2>0. done[r] + 1 \in Nat
    OBVIOUS
  <2>1. e \in Execs /\ e.pc = "agent" /\ e.proc \in Procs
    BY <2>0 DEF Idle, Execs, Stages, Procs
  <2>2. exec' = [exec EXCEPT ![r] = e] /\ UNCHANGED <<ledger, written, done>>
    BY <1>1 DEF Take, ledgers
  <2> QED  BY <2>1, <2>2, LedgerMoves
<1>2. CASE AppendFails(r)
  <2> DEFINE e == [exec[r] EXCEPT !.pc = "recorded"]
  <2>1. e \in Execs /\ e.pc = "recorded" /\ e.proc \in Procs
    BY <1>0, <1>2 DEF AppendFails, Executed, Execs, Stages
  <2>2. exec' = [exec EXCEPT ![r] = e] /\ UNCHANGED <<ledger, written, done>>
    BY <1>2 DEF AppendFails, ledgers
  <2> QED  BY <2>1, <2>2, LedgerMoves
<1>3. CASE Advance(r)
  <2> DEFINE e == IF exec[r].step = Steps THEN [Idle EXCEPT !.pc = "settled"]
                  ELSE [exec[r] EXCEPT !.pc = "agent", !.step = exec[r].step + 1, !.attempt = 1]
  <2>0. exec[r].step + 1 \in Nat
    BY <1>0 DEF Execs
  <2>5. [exec[r] EXCEPT !.pc = "agent", !.step = exec[r].step + 1, !.attempt = 1] \in Execs
    BY <1>0, <2>0 DEF Execs, Stages
  <2>6. [Idle EXCEPT !.pc = "settled"] \in Execs
    BY DEF Execs, Stages, Idle
  <2>1. e \in Execs /\ e.pc \in {"agent", "settled"}
    BY <1>0, <2>5, <2>6 DEF Execs, Idle
  <2>2. e.pc = "agent" => e.proc \in Procs
    BY <1>0, <1>3 DEF Advance, Recorded, Executed, Execs, Idle
  <2>3. exec' = [exec EXCEPT ![r] = e] /\ UNCHANGED <<ledger, written>>
    <3>1. CASE exec[r].step = Steps
      BY <3>1, <1>3 DEF Advance, ledgers
    <3>2. CASE exec[r].step # Steps
      BY <3>2, <1>3 DEF Advance, ledgers
    <3> QED  BY <3>1, <3>2
  <2>4. done' \in [Runs -> Nat]
    BY <1>0, <1>3 DEF Advance, Execs
  <2> HIDE DEF e
  <2> QED  BY <2>1, <2>2, <2>3, <2>4, LedgerMoves
<1>4. CASE Retry(r)
  <2> DEFINE e == [exec[r] EXCEPT !.pc = "agent", !.attempt = exec[r].attempt + 1]
  <2>0. exec[r].attempt + 1 \in Nat
    BY <1>0 DEF Execs
  <2>1. e \in Execs /\ e.pc = "agent"
    BY <1>0, <2>0 DEF Execs, Stages
  <2>3. e.proc \in Procs
    BY <1>0, <1>4 DEF Retry, Recorded, Executed, Execs
  <2>2. exec' = [exec EXCEPT ![r] = e] /\ UNCHANGED <<ledger, written, done>>
    BY <1>0, <1>4 DEF Retry, ledgers, Execs
  <2> QED  BY <2>1, <2>2, <2>3, LedgerMoves
<1>5. CASE GiveUp(r)
  <2> DEFINE e == [Idle EXCEPT !.pc = "settled"]
  <2>1. e \in Execs /\ e.pc = "settled"
    BY DEF Idle, Execs, Stages
  <2>2. exec' = [exec EXCEPT ![r] = e] /\ UNCHANGED <<ledger, written, done>>
    BY <1>5 DEF GiveUp, ledgers
  <2> QED  BY <2>1, <2>2, LedgerMoves
<1> QED  BY <1>1, <1>2, <1>3, <1>4, <1>5

\* record() reads the file: a row goes on to the append only if its key is new.
LEMMA RecordStep ==
    ASSUME LedgerInv, NEW r \in Runs, NEW c \in Contexts \cup {NoContext}, Record(r, c)
    PROVE  LedgerInv'
<1> USE DEF LedgerInv, LedgerTypes
<1> DEFINE p == exec[r].proc
           row == Event(r, c)
<1>1. exec[r] \in Execs /\ p \in Procs
  BY DEF Record, Executed
<1>2. row \in Events /\ row.run = r
  BY <1>1 DEF Event, Events, Execs
<1>3. Known(p) = KeysOf(ledger)
  BY <1>1 DEF Known
<1>4. UNCHANGED <<ledger, done>>
  BY DEF Record
<1>5. written' \in [Procs -> SUBSET KeysOf(ledger)]
  BY <1>1, <1>3 DEF Record
<1>6. PICK stage \in {"append", "recorded"} :
        /\ exec' = [exec EXCEPT ![r] = [exec[r] EXCEPT !.row = row, !.pc = stage]]
        /\ stage = "append" => DedupKey(row) \notin KeysOf(ledger)
  BY <1>1, <1>3 DEF Record, Execs
<1> HIDE DEF p, row
<1>7. \A x \in Runs : exec'[x] = IF x = r THEN [exec[r] EXCEPT !.row = row, !.pc = stage] ELSE exec[x]
  BY <1>6
<1>8. LedgerTypes'
  BY <1>1, <1>2, <1>4, <1>5, <1>6 DEF Execs, Stages
<1>9. Executed'
  BY <1>1, <1>7 DEF Executed, Execs, p
<1>10. PendingIsNew'
  BY <1>1, <1>2, <1>4, <1>6, <1>7 DEF PendingIsNew, Execs, p
<1> QED  BY <1>4, <1>8, <1>9, <1>10 DEF OneRowPerKey

\* The append: the new line has a key of its run, so neither the file nor a
\* line that another run is about to append has it.
LEMMA AppendStep ==
    ASSUME LedgerInv, NEW r \in Runs, AppendRow(r)
    PROVE  LedgerInv'
<1> USE DEF LedgerInv, LedgerTypes
<1> DEFINE p == exec[r].proc
           row == exec[r].row
<1>1. /\ exec[r] \in Execs /\ p \in Procs /\ row \in Events /\ row.run = r
      /\ DedupKey(row) \notin KeysOf(ledger)
  BY DEF AppendRow, PendingIsNew
<1>2. KeysOf(ledger') = KeysOf(ledger) \cup {DedupKey(row)} /\ ledger' = Append(ledger, row)
  BY <1>1, KeysOfAppend DEF AppendRow
<1>3. written' \in [Procs -> SUBSET KeysOf(ledger')] /\ UNCHANGED <<done>>
  <2>1. written' = [written EXCEPT ![p] = written[p] \cup {DedupKey(row)}]
    BY DEF AppendRow
  <2>2. \A s \in Procs : written[s] \subseteq KeysOf(ledger)
    OBVIOUS
  <2> HIDE DEF p, row
  <2>3. written' \in [Procs -> SUBSET KeysOf(ledger')]
    BY <1>1, <1>2, <2>1, <2>2
  <2> QED  BY <2>3 DEF AppendRow
<1>4. exec' = [exec EXCEPT ![r] = [exec[r] EXCEPT !.pc = "recorded"]]
  BY <1>1 DEF AppendRow, Execs
<1>5. \A x \in Runs : exec'[x] = IF x = r THEN [exec[r] EXCEPT !.pc = "recorded"] ELSE exec[x]
  BY <1>4
<1> HIDE DEF p, row
<1>6. LedgerTypes'
  <2>1. exec' \in [Runs -> Execs]
    BY <1>1, <1>4 DEF Execs, Stages
  <2>2. ledger' \in Seq(Events)
    BY <1>1, <1>2
  <2> QED  BY <1>3, <2>1, <2>2
<1>7. Executed'
  BY <1>1, <1>5 DEF Executed, Execs, p
<1>8. PendingIsNew'
  <2> SUFFICES ASSUME NEW x \in Runs, exec'[x].pc = "append"
               PROVE  /\ exec'[x].row \in Events /\ exec'[x].row.run = x
                      /\ exec'[x].proc \in Procs
                      /\ DedupKey(exec'[x].row) \notin KeysOf(ledger')
    BY DEF PendingIsNew
  <2>1. x # r /\ exec'[x] = exec[x]
    BY <1>1, <1>5 DEF Execs
  <2>2. /\ exec[x].row \in Events /\ exec[x].row.run = x /\ exec[x].proc \in Procs
        /\ DedupKey(exec[x].row) \notin KeysOf(ledger)
    BY <2>1 DEF PendingIsNew
  <2>3. DedupKey(exec[x].row) # DedupKey(row)
    BY <1>1, <2>1, <2>2 DEF DedupKey
  <2> QED  BY <1>2, <2>1, <2>2, <2>3
<1>9. OneRowPerKey'
  <2>1. /\ Len(ledger') = Len(ledger) + 1 /\ Len(ledger) \in Nat
        /\ \A i \in 1 .. Len(ledger) : ledger'[i] = ledger[i]
        /\ ledger'[Len(ledger) + 1] = row
    BY <1>1, <1>2
  <2>2. \A i \in 1 .. Len(ledger) : DedupKey(ledger[i]) # DedupKey(row)
    BY <1>1 DEF KeysOf
  <2>3. \A i \in 1 .. Len(ledger') : i \in 1 .. Len(ledger) \/ i = Len(ledger) + 1
    BY <2>1
  <2> QED  BY <2>1, <2>2, <2>3 DEF OneRowPerKey
<1> QED  BY <1>6, <1>7, <1>8, <1>9

\* A restart stops the runs of the process and loads the file's keys.
LEMMA RestartStep ==
    ASSUME LedgerInv, NEW p \in Procs, Restart(p)
    PROVE  LedgerInv'
<1> USE DEF LedgerInv, LedgerTypes
<1>1. UNCHANGED <<ledger, done>> /\ written' = [written EXCEPT ![p] = KeysOf(ledger)]
  BY DEF Restart
<1> DEFINE stopped == [Idle EXCEPT !.pc = IF Durable THEN "queued" ELSE "settled"]
<1>5. stopped \in Execs /\ stopped.pc \in {"queued", "settled"}
  BY DEF Idle, Execs, Stages
<1>2. exec' = [r \in Runs |-> IF exec[r].proc # p THEN exec[r] ELSE stopped]
  BY DEF Restart
<1> HIDE DEF stopped
<1>6. \A r \in Runs : exec'[r] = exec[r] \/ exec'[r] = stopped
  BY <1>2
<1>3. \A r \in Runs :
         exec'[r] = exec[r] \/ (exec'[r] \in Execs /\ exec'[r].pc \in {"queued", "settled"})
  BY <1>5, <1>6, Zenon
<1>4. exec' \in [Runs -> Execs]
  BY <1>2, <1>3
<1> QED  BY <1>1, <1>3, <1>4 DEF Executed, PendingIsNew, OneRowPerKey

\* UsageLedger.record and create_run keep both invariants (LedgerInv, RequestTypes).
THEOREM LedgerInvariant == Spec => [](LedgerInv /\ RequestTypes)
<1>1. Init => LedgerInv /\ RequestTypes
  BY LedgerInit, RequestTypesInit
<1>2. LedgerInv /\ RequestTypes /\ [Next]_vars => (LedgerInv /\ RequestTypes)'
  <2> SUFFICES ASSUME LedgerInv, RequestTypes, [Next]_vars
               PROVE  LedgerInv'
    BY RequestTypesStep
  <2>1. ASSUME NEW q \in Requests, Serve(q) \/ RequestFails(q) PROVE LedgerInv'
    BY <2>1, RequestSteps
  <2>2. ASSUME NEW r \in Runs,
           \/ \E w \in Workers : Take(w, r)
           \/ AppendFails(r) \/ Advance(r) \/ Retry(r) \/ GiveUp(r)
        PROVE LedgerInv'
    BY <2>2, RunSteps
  <2>3. ASSUME NEW r \in Runs, NEW c \in Contexts \cup {NoContext}, Record(r, c) PROVE LedgerInv'
    BY <2>3, RecordStep
  <2>4. ASSUME NEW r \in Runs, AppendRow(r) PROVE LedgerInv'
    BY <2>4, AppendStep
  <2>5. ASSUME NEW p \in Procs, Restart(p) PROVE LedgerInv'
    BY <2>5, RestartStep
  <2>7. CASE UNCHANGED vars
    BY <2>7, LedgerQuiet DEF vars, ledgers, execution, LedgerInv, LedgerTypes
  <2> QED  BY <2>1, <2>2, <2>3, <2>4, <2>5, <2>7 DEF Next
<1> QED  BY <1>1, <1>2, PTL DEF Spec

\* UsageLedger.record: the ledger never has two lines with one key, for any
\* number of processes that share the file and any crashes and retries.
THEOREM LedgerHasOneRowPerKey == Spec => []OneRowPerKey
<1>1. LedgerInv => OneRowPerKey
  BY DEF LedgerInv
<1> QED  BY <1>1, LedgerInvariant, PTL

\* The key of a request past its reservation names a run, a repeated request was
\* told that one, and it is the run of a request with the key, which reserved it.
Reserved == {"register", "created", "failed"}
KeyReserved ==
    /\ \A q \in Requests :
          KeyOf[q] # NoKey /\ request[q].pc \in {"register", "created", "existing"}
            => idem[KeyOf[q]] \in Runs
    /\ \A q \in Requests :
          request[q].pc = "existing" => KeyOf[q] # NoKey /\ request[q].run = idem[KeyOf[q]]
    /\ \A k \in Keys : idem[k] # NoRun =>
          \E t \in Requests :
              KeyOf[t] = k /\ request[t].pc \in Reserved /\ request[t].run = idem[k]

\* It is kept where no key changes, no request comes to be past its reservation
\* or "existing", and none that reserved a key leaves that state.
LEMMA KeysStand ==
    ASSUME RequestTypes, KeyReserved, idem' = idem,
           \A q \in Requests :
              \/ request'[q] = request[q]
              \/ /\ request[q].pc \in Reserved => request'[q].pc \in Reserved
                 /\ request[q].pc \in Reserved => request'[q].run = request[q].run
                 /\ request'[q].pc # "existing"
                 /\ request'[q].pc \in {"register", "created"} => request[q].pc \in {"register", "created"}
    PROVE  KeyReserved'
<1>1. \A q \in Requests :
          KeyOf[q] # NoKey /\ request'[q].pc \in {"register", "created", "existing"}
            => idem'[KeyOf[q]] \in Runs
  BY DEF KeyReserved
<1>2. \A q \in Requests :
          request'[q].pc = "existing" => KeyOf[q] # NoKey /\ request'[q].run = idem'[KeyOf[q]]
  BY DEF KeyReserved
<1>3. ASSUME NEW k \in Keys, idem'[k] # NoRun
      PROVE  \E t \in Requests :
                KeyOf[t] = k /\ request'[t].pc \in Reserved /\ request'[t].run = idem'[k]
  <2>1. PICK t \in Requests :
            KeyOf[t] = k /\ request[t].pc \in Reserved /\ request[t].run = idem[k]
    BY <1>3 DEF KeyReserved
  <2>2. request'[t].pc \in Reserved /\ request'[t].run = idem'[k]
    BY <2>1
  <2> QED  BY <2>1, <2>2
<1> QED  BY <1>1, <1>2, <1>3 DEF KeyReserved

\* Every step keeps it, since a key that names a run goes on naming it.
LEMMA KeyReservedStep ==
    ASSUME ~Durable, RequestTypes, KeyReserved, [Next]_vars
    PROVE  KeyReserved'
<1> USE DEF RequestTypes, Served
<1>0. \A q \in Requests : KeyOf[q] # NoKey => KeyOf[q] \in Keys
  BY DEF Keys
<1>2. ASSUME NEW s \in Requests, NEW a \in Apis, Arrive(s, a) PROVE KeyReserved'
  <2> DEFINE known == ~Durable /\ KeyOf[s] # NoKey /\ idem[KeyOf[s]] # NoRun
             e == [pc |-> IF known THEN "existing" ELSE "evaluate", api |-> a,
                   run |-> IF known THEN idem[KeyOf[s]] ELSE NoRun]
  <2>1. request' = [request EXCEPT ![s] = e] /\ idem' = idem /\ request[s].pc = "new"
    BY <1>2 DEF Arrive
  <2>2. e.pc = (IF known THEN "existing" ELSE "evaluate") /\ (known => e.run = idem[KeyOf[s]])
    OBVIOUS
  <2>3. known => KeyOf[s] # NoKey /\ idem[KeyOf[s]] \in Runs
    BY <1>0
  <2> HIDE DEF e, known
  <2>4. \A q \in Requests : request'[q] = IF q = s THEN e ELSE request[q]
    BY <2>1
  <2>5. \A q \in Requests :
          KeyOf[q] # NoKey /\ request'[q].pc \in {"register", "created", "existing"}
            => idem'[KeyOf[q]] \in Runs
    BY <2>1, <2>2, <2>3, <2>4 DEF KeyReserved
  <2>6. \A q \in Requests :
          request'[q].pc = "existing" => KeyOf[q] # NoKey /\ request'[q].run = idem'[KeyOf[q]]
    BY <2>1, <2>2, <2>3, <2>4 DEF KeyReserved
  <2>7. ASSUME NEW k \in Keys, idem'[k] # NoRun
        PROVE  \E t \in Requests :
                  KeyOf[t] = k /\ request'[t].pc \in Reserved /\ request'[t].run = idem'[k]
    <3>1. PICK t \in Requests :
              KeyOf[t] = k /\ request[t].pc \in Reserved /\ request[t].run = idem[k]
      BY <2>1, <2>7 DEF KeyReserved
    <3>2. request'[t] = request[t]
      BY <2>1, <2>4, <3>1 DEF Reserved
    <3> QED  BY <2>1, <3>1, <3>2
  <2> QED  BY <2>5, <2>6, <2>7 DEF KeyReserved
<1>3. ASSUME NEW s \in Requests, Deny(s) \/ RequestFails(s) PROVE KeyReserved'
  <2>1. idem' = idem /\ request[s].pc \in {"evaluate", "reserve", "register"}
    BY <1>3 DEF Deny, RequestFails, At
  <2>2. \A q \in Requests : q # s => request'[q] = request[q]
    BY <1>3 DEF Deny, RequestFails, Answer
  <2>3. /\ request[s].pc \in Reserved => request'[s].pc \in Reserved /\ request'[s].run = request[s].run
        /\ request'[s].pc \in {"denied", "failed"}
    BY <1>3 DEF Deny, RequestFails, At, Answer, Reserved
  <2> QED  BY <2>1, <2>2, <2>3, KeysStand
<1>4. ASSUME NEW s \in Requests, NEW r \in Runs, Admit(s, r) PROVE KeyReserved'
  <2>1. idem' = idem /\ request[s].pc = "evaluate"
    BY <1>4 DEF Admit, At
  <2>2. \A q \in Requests : q # s => request'[q] = request[q]
    BY <1>4 DEF Admit, Answer
  <2>3. request'[s].pc = IF KeyOf[s] # NoKey THEN "reserve" ELSE "register"
    BY <1>4 DEF Admit, Answer
  <2>4. CASE KeyOf[s] # NoKey
    BY <2>1, <2>2, <2>3, <2>4, KeysStand DEF Reserved
  <2>5. CASE KeyOf[s] = NoKey
    <3>1. \A q \in Requests :
            KeyOf[q] # NoKey /\ request'[q].pc \in {"register", "created", "existing"}
              => idem'[KeyOf[q]] \in Runs
      BY <2>1, <2>2, <2>5 DEF KeyReserved
    <3>2. \A q \in Requests :
            request'[q].pc = "existing" => KeyOf[q] # NoKey /\ request'[q].run = idem'[KeyOf[q]]
      BY <2>1, <2>2, <2>3, <2>5 DEF KeyReserved
    <3>3. ASSUME NEW k \in Keys, idem'[k] # NoRun
          PROVE  \E t \in Requests :
                    KeyOf[t] = k /\ request'[t].pc \in Reserved /\ request'[t].run = idem'[k]
      <4>1. PICK t \in Requests :
                KeyOf[t] = k /\ request[t].pc \in Reserved /\ request[t].run = idem[k]
        BY <2>1, <3>3 DEF KeyReserved
      <4>2. request'[t] = request[t]
        BY <2>1, <2>2, <4>1 DEF Reserved
      <4> QED  BY <2>1, <4>1, <4>2
    <3> QED  BY <3>1, <3>2, <3>3 DEF KeyReserved
  <2> QED  BY <2>4, <2>5
<1>5. ASSUME NEW s \in Requests, Reserve(s) PROVE KeyReserved'
  <2> DEFINE run == request[s].run
  <2>1. run \in Runs /\ request[s].pc = "reserve"
    BY <1>5 DEF Reserve, At
  <2>2. \A q \in Requests : q # s => request'[q] = request[q]
    BY <1>5 DEF Reserve, Answer
  <2>3. request'[s].pc = "register" /\ request'[s].run = run
    BY <1>5 DEF Reserve, Answer
  <2>4. \A k \in Keys : idem'[k] = IF k = KeyOf[s] /\ idem[k] = NoRun THEN run ELSE idem[k]
    BY <1>5 DEF Reserve
  <2> HIDE DEF run
  <2>5. \A q \in Requests :
          KeyOf[q] # NoKey /\ request'[q].pc \in {"register", "created", "existing"}
            => idem'[KeyOf[q]] \in Runs
    BY <1>0, <2>1, <2>2, <2>4, RunsAssumption DEF KeyReserved
  <2>6. \A q \in Requests :
          request'[q].pc = "existing" => KeyOf[q] # NoKey /\ request'[q].run = idem'[KeyOf[q]]
    <3> SUFFICES ASSUME NEW q \in Requests, request'[q].pc = "existing"
                 PROVE  KeyOf[q] # NoKey /\ request'[q].run = idem'[KeyOf[q]]
      OBVIOUS
    <3>1. q # s /\ request'[q] = request[q]
      BY <2>2, <2>3
    <3>2. KeyOf[q] # NoKey /\ request[q].run = idem[KeyOf[q]] /\ idem[KeyOf[q]] \in Runs
      BY <3>1 DEF KeyReserved
    <3> QED  BY <1>0, <2>4, <3>1, <3>2, RunsAssumption
  <2>7. ASSUME NEW k \in Keys, idem'[k] # NoRun
        PROVE  \E t \in Requests :
                  KeyOf[t] = k /\ request'[t].pc \in Reserved /\ request'[t].run = idem'[k]
    <3>1. CASE k = KeyOf[s] /\ idem[k] = NoRun
      BY <2>3, <2>4, <3>1 DEF Reserved
    <3>2. CASE ~(k = KeyOf[s] /\ idem[k] = NoRun)
      <4>1. idem'[k] = idem[k]
        BY <2>4, <3>2
      <4>2. PICK t \in Requests :
                KeyOf[t] = k /\ request[t].pc \in Reserved /\ request[t].run = idem[k]
        BY <2>7, <4>1 DEF KeyReserved
      <4>3. request'[t] = request[t]
        BY <2>1, <2>2, <4>2 DEF Reserved
      <4> QED  BY <4>1, <4>2, <4>3
    <3> QED  BY <3>1, <3>2
  <2> QED  BY <2>5, <2>6, <2>7 DEF KeyReserved
<1>6. ASSUME NEW s \in Requests, Create(s) PROVE KeyReserved'
  <2>1. idem' = idem /\ request[s].pc = "register"
    BY <1>6 DEF Create, At
  <2>2. \A q \in Requests : q # s => request'[q] = request[q]
    BY <1>6 DEF Create, Answer
  <2>3. request'[s].pc = "created" /\ request'[s].run = request[s].run
    BY <1>6 DEF Create, Answer
  <2> QED  BY <2>1, <2>2, <2>3, KeysStand DEF Reserved
<1>7. ASSUME NEW p \in Procs, Restart(p) PROVE KeyReserved'
  <2>1. idem' = idem
    BY <1>7 DEF Restart
  <2>2. \A q \in Requests :
          \/ request'[q] = request[q]
          \/ request'[q].pc = "failed" /\ request'[q].run = request[q].run
    BY <1>7 DEF Restart
  <2> QED  BY <2>1, <2>2, KeysStand DEF Reserved
<1>8. ASSUME UNCHANGED <<request, idem>> PROVE KeyReserved'
  BY <1>8, KeysStand
<1>9. CASE UNCHANGED vars
  BY <1>9, <1>8 DEF vars, admission
<1>10. CASE \/ \E r \in Runs :
              \/ \E w \in Workers : Take(w, r)
              \/ \E c \in Contexts \cup {NoContext} : Record(r, c)
              \/ AppendRow(r) \/ AppendFails(r)
              \/ Advance(r) \/ Retry(r) \/ GiveUp(r)
  BY <1>10, <1>8 DEF Take, Record, AppendRow, AppendFails, Advance, Retry, GiveUp, admission
<1> QED
  BY <1>2, <1>3, <1>4, <1>5, <1>6, <1>7, <1>9, <1>10 DEF Next, Serve

\* What the repeat of an answered request is told.
TellsItsRun(q, s) ==
    /\ request'[q].pc = "existing"
    /\ \/ request'[q].run = request[s].run
       \/ \E t \in Requests : Overlapped(s, t) /\ request'[q].run = request[t].run

\* The key of an answered request is reserved, for its run or for that of a
\* request it overlapped.
LEMMA KeyTells ==
    ASSUME RequestTypes, KeyReserved, NEW s \in Requests, KeyOf[s] # NoKey,
           request[s].pc \in {"created", "existing"}
    PROVE  /\ idem[KeyOf[s]] # NoRun
           /\ \/ idem[KeyOf[s]] = request[s].run
              \/ \E t \in Requests : Overlapped(s, t) /\ idem[KeyOf[s]] = request[t].run
<1>1. KeyOf[s] \in Keys /\ idem[KeyOf[s]] # NoRun
  BY RunsAssumption DEF KeyReserved, Keys
<1>2. CASE request[s].pc = "existing"
  BY <1>1, <1>2 DEF KeyReserved
<1>3. CASE request[s].pc = "created" /\ idem[KeyOf[s]] # request[s].run
  <2>1. PICK t \in Requests :
            /\ KeyOf[t] = KeyOf[s] /\ request[t].pc \in Reserved
            /\ request[t].run = idem[KeyOf[s]]
    BY <1>1 DEF KeyReserved
  <2>2. Overlapped(s, t)
    BY <1>3, <2>1 DEF Overlapped, Reserved
  <2> QED  BY <1>1, <2>1, <2>2
<1> QED  BY <1>1, <1>2, <1>3

\* create_run: in the API that executes runs itself, a request whose key was
\* already answered with a run is answered with that run, or with the one of
\* the request that overlapped it and reserved the key, for any number of
\* requests, processes, failing calls and crashes.
THEOREM RepeatedRequestGetsItsRun ==
    ASSUME ~Durable PROVE Spec => RetryGetsExisting
<1> DEFINE Step == \A q, s \in Requests :
              /\ q # s /\ request[q].pc = "new" /\ request'[q].pc # "new" /\ KeyOf[q] # NoKey
              /\ request[s].pc \in {"created", "existing"} /\ KeyOf[s] = KeyOf[q]
            => TellsItsRun(q, s)
<1>1. Init => KeyReserved
  BY DEF Init, KeyReserved
<1>2. RequestTypes /\ KeyReserved /\ [Next]_vars => KeyReserved'
  BY KeyReservedStep
<1>3. ASSUME RequestTypes, KeyReserved, Next, NEW q \in Requests, NEW s \in Requests,
             request[q].pc = "new", request'[q].pc # "new", KeyOf[q] # NoKey,
             request[s].pc \in {"created", "existing"}, KeyOf[s] = KeyOf[q]
      PROVE  TellsItsRun(q, s)
  <2>1. /\ idem[KeyOf[q]] # NoRun
        /\ \/ idem[KeyOf[q]] = request[s].run
           \/ \E t \in Requests : Overlapped(s, t) /\ idem[KeyOf[q]] = request[t].run
    BY <1>3, KeyTells
  <2> USE DEF RequestTypes
  <2>2. ASSUME NEW x \in Requests, NEW a \in Apis, Arrive(x, a) PROVE TellsItsRun(q, s)
    <3>1. x = q
      BY <1>3, <2>2 DEF Arrive
    <3>2. request'[q].pc = "existing" /\ request'[q].run = idem[KeyOf[q]]
      BY <1>3, <2>1, <2>2, <3>1 DEF Arrive
    <3> QED  BY <2>1, <3>2 DEF TellsItsRun
  <2>3. ASSUME NEW x \in Requests,
               Deny(x) \/ (\E r \in Runs : Admit(x, r)) \/ Reserve(x) \/ Create(x) \/ RequestFails(x)
        PROVE  FALSE
    <3>1. request[x].pc # "new"
      BY <2>3 DEF Deny, Admit, Reserve, Create, RequestFails, At
    <3>2. x # q /\ request'[q] = request[q]
      BY <1>3, <2>3, <3>1 DEF Deny, Admit, Reserve, Create, RequestFails, Answer
    <3> QED  BY <1>3, <3>2
  <2>4. ASSUME NEW p \in Procs, Restart(p) PROVE FALSE
    <3>1. request'[q] = request[q]
      BY <1>3, <2>4 DEF Restart
    <3> QED  BY <1>3, <3>1
  <2>5. ASSUME UNCHANGED request PROVE FALSE
    BY <1>3, <2>5
  <2>6. CASE \/ \E r \in Runs :
                 \/ \E w \in Workers : Take(w, r)
                 \/ \E c \in Contexts \cup {NoContext} : Record(r, c)
                 \/ AppendRow(r) \/ AppendFails(r)
                 \/ Advance(r) \/ Retry(r) \/ GiveUp(r)
    BY <2>5, <2>6 DEF Take, Record, AppendRow, AppendFails, Advance, Retry, GiveUp, admission
  <2> QED  BY <1>3, <2>2, <2>3, <2>4, <2>6 DEF Next, Serve
<1>4. RequestTypes /\ KeyReserved /\ [Next]_vars => [Step]_vars
  BY <1>3
<1>5. Spec => []RequestTypes
  BY LedgerInvariant, PTL
<1>6. Spec => [][Step]_vars
  BY <1>1, <1>2, <1>4, <1>5, PTL DEF Spec
<1> QED  BY <1>6 DEF RetryGetsExisting, TellsItsRun

----------------------------------------------------------------------------
(* Quota of a single API (UsageMetering) *)

\* What a reader keeps of n lines and the next one.
Keeping(rows) ==
    [n \in 1 .. Len(rows) |-> [kept \in Seq(Events) |->
        IF DedupKey(rows[n]) \in KeysOf(kept) THEN kept ELSE Append(kept, rows[n])]]

\* The runs of a file grow by the run of the appended line.
LEMMA RunsOfAppend ==
    ASSUME NEW rows \in Seq(Events), NEW row \in Events
    PROVE  RunsOf(Append(rows, row)) = RunsOf(rows) \cup {row.run}
<1> DEFINE longer == Append(rows, row)
<1>1. /\ Len(longer) = Len(rows) + 1 /\ Len(rows) \in Nat
      /\ \A i \in 1 .. Len(rows) : longer[i] = rows[i]
      /\ longer[Len(rows) + 1] = row
  OBVIOUS
<1> HIDE DEF longer
<1>2. 1 .. Len(longer) = (1 .. Len(rows)) \cup {Len(rows) + 1}
  BY <1>1
<1>3. RunsOf(longer) = RunsOf(rows) \cup {row.run}
  BY <1>1, <1>2, Zenon DEF RunsOf
<1> QED  BY <1>3 DEF longer

\* A loaded ledger names the runs of the file: a line that is left out has the
\* key of one that is kept, and so its run.
LEMMA LoadedRuns ==
    ASSUME NEW rows \in Seq(Events)
    PROVE  LoadedEntries(rows) \in Seq(Events) /\ RunsOf(LoadedEntries(rows)) = RunsOf(rows)
<1> DEFINE N == Len(rows)
           Step(f) == [n \in 0 .. Len(rows) |->
                IF n = 0 THEN <<>>
                ELSE IF DedupKey(rows[n]) \in KeysOf(f[n - 1]) THEN f[n - 1]
                ELSE Append(f[n - 1], rows[n])]
           Kept == CHOOSE f : f = Step(f)
<1>1. LoadedEntries(rows) = Kept[N]
  BY Zenon DEF LoadedEntries
<1>2. N \in Nat /\ \A n \in 1 .. N : rows[n] \in Events
  OBVIOUS
<1>3. Keeping(rows) \in [1 .. N -> [Seq(Events) -> Seq(Events)]]
  <2> SUFFICES ASSUME NEW n \in 1 .. N, NEW kept \in Seq(Events)
               PROVE  Append(kept, rows[n]) \in Seq(Events)
    BY DEF Keeping
  <2> QED
    BY <1>2
<1>4. <<>> \in Seq(Events)
  OBVIOUS
<1> HIDE DEF N
<1>5. PICK f \in [0 .. N -> Seq(Events)] : Recursively(N, <<>>, Keeping(rows), f)
  BY <1>2, <1>3, <1>4, RecursionExists
<1>6. f = Step(f)
  <2>1. ASSUME NEW n \in 0 .. N
        PROVE  (IF n = 0 THEN <<>> ELSE Keeping(rows)[n][f[n - 1]])
                 = IF n = 0 THEN <<>>
                   ELSE IF DedupKey(rows[n]) \in KeysOf(f[n - 1]) THEN f[n - 1]
                   ELSE Append(f[n - 1], rows[n])
    <3>1. n # 0 => f[n - 1] \in Seq(Events) /\ n \in 1 .. N
      BY <1>2
    <3> QED
      BY <3>1 DEF Keeping, N
  <2>2. f = [n \in 0 .. N |-> IF n = 0 THEN <<>> ELSE Keeping(rows)[n][f[n - 1]]]
    BY <1>5 DEF Recursively
  <2> QED
    BY <2>1, <2>2 DEF N
<1>7. Kept = Step(Kept)
  BY <1>6
<1> HIDE DEF Kept
<1>8. \A n \in 0 .. N : Kept[n] =
          IF n = 0 THEN <<>>
          ELSE IF DedupKey(rows[n]) \in KeysOf(Kept[n - 1]) THEN Kept[n - 1]
          ELSE Append(Kept[n - 1], rows[n])
  BY <1>7 DEF N
<1> DEFINE First(n) == {rows[i].run : i \in 1 .. n}
           Good(n) == Kept[n] \in Seq(Events) /\ RunsOf(Kept[n]) = First(n)
           G == {n \in 0 .. N : Good(n)}
<1>9. 0 \in G
  <2>1. Kept[0] = <<>> /\ 0 \in 0 .. N
    BY <1>2, <1>8
  <2>2. First(0) = {}
    OBVIOUS
  <2>3. Len(<<>>) = 0 /\ <<>> \in Seq(Events)
    OBVIOUS
  <2>4. RunsOf(<<>>) = {}
    BY <2>3 DEF RunsOf
  <2> HIDE DEF First
  <2> QED
    BY <2>1, <2>2, <2>3, <2>4
<1>10. ASSUME NEW n \in 0 .. N - 1, n \in G PROVE n + 1 \in G
  <2>0. n + 1 \in 0 .. N /\ n + 1 \in 1 .. N /\ n + 1 # 0 /\ (n + 1) - 1 = n /\ n \in Nat
    BY <1>2
  <2>1. Kept[n] \in Seq(Events) /\ RunsOf(Kept[n]) = First(n) /\ rows[n + 1] \in Events
    <3> HIDE DEF First
    <3> QED
      BY <1>2, <1>10, <2>0
  <2>2. First(n + 1) = First(n) \cup {rows[n + 1].run}
    <3>1. 1 .. n + 1 = (1 .. n) \cup {n + 1}
      BY <2>0
    <3> QED
      BY <3>1, Zenon
  <2>5. Kept[n + 1] = IF DedupKey(rows[n + 1]) \in KeysOf(Kept[n]) THEN Kept[n]
                      ELSE Append(Kept[n], rows[n + 1])
    BY <1>8, <2>0
  <2> HIDE DEF First
  <2>6. Good(n + 1) => n + 1 \in G
    BY <2>0
  <2>3. CASE DedupKey(rows[n + 1]) \in KeysOf(Kept[n])
    <3>1. Kept[n + 1] = Kept[n]
      BY <2>3, <2>5
    <3>2. PICK i \in 1 .. Len(Kept[n]) : DedupKey(rows[n + 1]) = DedupKey(Kept[n][i])
      BY <2>3 DEF KeysOf
    <3>3. rows[n + 1].run = Kept[n][i].run
      BY <3>2 DEF DedupKey
    <3>4. rows[n + 1].run \in RunsOf(Kept[n])
      BY <3>3 DEF RunsOf
    <3>5. First(n + 1) = First(n)
      BY <2>1, <2>2, <3>4
    <3> QED
      BY <2>1, <2>6, <3>1, <3>5
  <2>4. CASE DedupKey(rows[n + 1]) \notin KeysOf(Kept[n])
    <3>1. Kept[n + 1] = Append(Kept[n], rows[n + 1])
      BY <2>4, <2>5
    <3>2. RunsOf(Kept[n + 1]) = First(n + 1)
      BY <2>1, <2>2, <3>1, RunsOfAppend
    <3>3. Kept[n + 1] \in Seq(Events)
      BY <2>1, <3>1
    <3> QED
      BY <2>6, <3>2, <3>3
  <2> QED
    BY <2>3, <2>4
<1>11. N \in G
  <2> HIDE DEF G
  <2>1. \A n \in 0 .. N - 1 : n \in G => n + 1 \in G
    BY <1>10
  <2>2. 0 .. N \subseteq G
    BY <1>2, <1>9, <2>1, UpToByInduction
  <2> QED
    BY <1>2, <2>2
<1>12. RunsOf(rows) = First(N)
  BY DEF RunsOf, N
<1> QED
  BY <1>1, <1>11, <1>12

\* The API that executes runs itself, alone on its ledger: it executes every
\* run, its copy of the ledger names the runs of the file, and a request has
\* no run before its evaluation.
SoleApi ==
    /\ entries \in [Procs -> Seq(Events)]
    /\ \A r \in Runs : exec[r].pc # "queued" /\ exec[r].proc \in Apis \cup {NoProc}
    /\ \A a \in Apis : RunsOf(entries[a]) = RunsOf(ledger)
    /\ \A q \in Requests : request[q].pc = "evaluate" => request[q].run = NoRun

\* Initially nothing is charged, and nothing executed.
LEMMA SoleApiInit == Init => SoleApi
<1> SUFFICES ASSUME Init PROVE SoleApi
  OBVIOUS
<1>1. <<>> \in Seq(Events)
  OBVIOUS
<1> QED
  BY <1>1 DEF Init, SoleApi, Idle, Procs

\* Steps that leave the ledger and its copies alone, and go on executing runs.
LEMMA SoleApiRuns ==
    ASSUME LedgerInv, SoleApi, NEW r \in Runs, NEW e \in Execs,
           UNCHANGED <<ledger, entries, request>>,
           exec' = [exec EXCEPT ![r] = e],
           e.pc # "queued", e.proc \in Apis \cup {NoProc}
    PROVE  SoleApi'
<1>1. \A x \in Runs : exec'[x] = IF x = r THEN e ELSE exec[x]
  BY DEF LedgerInv, LedgerTypes
<1> QED
  BY <1>1 DEF SoleApi

\* Serving a request: only its admission gives it a run.
LEMMA SoleApiRequests ==
    ASSUME SoleApi, RequestTypes, NEW q \in Requests,
           Serve(q) \/ RequestFails(q), UNCHANGED exec
    PROVE  SoleApi'
<1>1. UNCHANGED <<ledger, entries>>
  BY DEF Serve, Arrive, Deny, Admit, Reserve, Create, RequestFails, ledgers
<1>2. ASSUME NEW s \in Requests, request'[s].pc = "evaluate" PROVE request'[s].run = NoRun
  <2> USE DEF RequestTypes, Served
  <2>1. ASSUME NEW a \in Apis, Arrive(q, a) PROVE request'[s].run = NoRun
    <3> DEFINE known == ~Durable /\ KeyOf[q] # NoKey /\ idem[KeyOf[q]] # NoRun
               e == [pc |-> IF known THEN "existing" ELSE "evaluate", api |-> a,
                     run |-> IF known THEN idem[KeyOf[q]] ELSE NoRun]
    <3>1. request' = [request EXCEPT ![q] = e]
      BY <2>1 DEF Arrive
    <3>2. e.pc = "evaluate" => e.run = NoRun
      OBVIOUS
    <3> HIDE DEF e
    <3> QED
      BY <1>2, <3>1, <3>2 DEF SoleApi
  <2>2. CASE Deny(q) \/ (\E r \in Runs : Admit(q, r)) \/ Reserve(q) \/ Create(q) \/ RequestFails(q)
    <3>1. request'[q].pc # "evaluate"
      BY <2>2 DEF Deny, Admit, Reserve, Create, RequestFails, Answer
    <3>2. s # q /\ request'[s] = request[s]
      BY <1>2, <2>2, <3>1 DEF Deny, Admit, Reserve, Create, RequestFails, Answer
    <3> QED
      BY <1>2, <3>2 DEF SoleApi
  <2> QED
    BY <2>1, <2>2 DEF Serve
<1> QED
  BY <1>1, <1>2 DEF SoleApi

\* The copy of the ledger follows the file: this API writes every line of it,
\* and loads it whole when it starts again.
LEMMA SoleApiStep ==
    ASSUME ~Durable, \A a, b \in Apis : a = b,
           LedgerInv, RequestTypes, SoleApi, [Next]_vars
    PROVE  SoleApi'
<1> USE DEF LedgerInv, LedgerTypes
<1>0. ASSUME NEW r \in Runs PROVE exec[r] \in Execs /\ exec[r].proc \in Apis \cup {NoProc}
  BY DEF SoleApi
<1>1. ASSUME NEW q \in Requests, Serve(q) \/ RequestFails(q) PROVE SoleApi'
  <2>1. CASE Create(q)
    <3> DEFINE r == request[q].run
               e == [Idle EXCEPT !.pc = "agent", !.proc = request[q].api]
    <3>1. r \in Runs /\ request[q].api \in Apis
      BY <2>1 DEF Create, At, RequestTypes
    <3>2. e \in Execs /\ e.pc # "queued" /\ e.proc \in Apis
      BY <3>1 DEF Idle, Execs, Stages, Procs
    <3>3. exec' = [exec EXCEPT ![r] = e] /\ UNCHANGED <<ledger, entries>>
      BY <2>1 DEF Create, ledgers
    <3>4. \A x \in Runs : exec'[x] = IF x = r THEN e ELSE exec[x]
      BY <3>1, <3>3
    <3>5. \A s \in Requests : request'[s].pc = "evaluate" => request'[s].run = NoRun
      BY <2>1 DEF Create, Answer, RequestTypes, SoleApi
    <3> HIDE DEF e, r
    <3> QED
      BY <3>2, <3>3, <3>4, <3>5 DEF SoleApi
  <2>2. CASE ~Create(q)
    <3>1. UNCHANGED exec
      BY <1>1, <2>2 DEF Serve, Arrive, Deny, Admit, Reserve, RequestFails, execution
    <3> QED
      BY <1>1, <3>1, SoleApiRequests
  <2> QED
    BY <2>1, <2>2
<1>2. ASSUME NEW r \in Runs, NEW w \in Workers, Take(w, r) PROVE FALSE
  BY <1>2 DEF Take, SoleApi
<1>3. ASSUME NEW r \in Runs, NEW c \in Contexts \cup {NoContext}, Record(r, c) PROVE SoleApi'
  <2>1. UNCHANGED <<ledger, entries, request>>
    BY <1>3 DEF Record, admission
  <2>2. \A x \in Runs : exec'[x].proc = exec[x].proc /\ (exec'[x].pc = exec[x].pc \/ exec'[x].pc \in {"append", "recorded"})
    BY <1>0, <1>3 DEF Record, Execs
  <2> QED
    BY <2>1, <2>2 DEF SoleApi
<1>4. ASSUME NEW r \in Runs, AppendRow(r) PROVE SoleApi'
  <2> DEFINE p == exec[r].proc
             row == exec[r].row
  <2>1. row \in Events /\ p \in Procs /\ p \in Apis
    BY <1>0, <1>4, ProcsAssumption DEF AppendRow, PendingIsNew, Procs
  <2>2. /\ ledger' = Append(ledger, row) /\ entries' = [entries EXCEPT ![p] = Append(entries[p], row)]
        /\ request' = request /\ exec' = [exec EXCEPT ![r] = [exec[r] EXCEPT !.pc = "recorded"]]
    BY <1>0, <1>4 DEF AppendRow, admission, Execs
  <2>3. entries[p] \in Seq(Events) /\ ledger \in Seq(Events)
    BY <2>1 DEF SoleApi
  <2>4. \A x \in Runs : exec'[x] = IF x = r THEN [exec[r] EXCEPT !.pc = "recorded"] ELSE exec[x]
    BY <2>2
  <2>5. \A x \in Runs : exec'[x].pc # "queued" /\ exec'[x].proc \in Apis \cup {NoProc}
    BY <1>0, <2>4 DEF SoleApi, Execs
  <2> HIDE DEF p, row
  <2>6. entries' \in [Procs -> Seq(Events)]
    <3>1. Append(entries[p], row) \in Seq(Events)
      BY <2>1, <2>3
    <3> QED
      BY <2>1, <2>2, <3>1 DEF SoleApi
  <2>7. RunsOf(entries'[p]) = RunsOf(entries[p]) \cup {row.run} /\ RunsOf(ledger') = RunsOf(ledger) \cup {row.run}
    <3>1. entries'[p] = Append(entries[p], row)
      BY <2>1, <2>2 DEF SoleApi
    <3> QED
      BY <2>1, <2>2, <2>3, <3>1, RunsOfAppend
  <2>8. \A a \in Apis : RunsOf(entries'[a]) = RunsOf(ledger')
    BY <2>1, <2>7 DEF SoleApi
  <2> QED
    BY <2>2, <2>5, <2>6, <2>8 DEF SoleApi
<1>5. ASSUME NEW r \in Runs, AppendFails(r) \/ Advance(r) \/ Retry(r) \/ GiveUp(r) PROVE SoleApi'
  <2>1. UNCHANGED <<ledger, entries, request>>
    BY <1>5 DEF AppendFails, Advance, Retry, GiveUp, ledgers, admission
  <2>2. \A x \in Runs : /\ exec'[x].proc \in {exec[x].proc, NoProc}
                        /\ exec'[x].pc \in {exec[x].pc, "agent", "recorded", "settled"}
    <3>1. CASE AppendFails(r)
      BY <1>0, <3>1 DEF AppendFails, Execs
    <3>2. CASE Advance(r) /\ exec[r].step = Steps
      BY <1>0, <3>2 DEF Advance, Execs, Idle
    <3>3. CASE Advance(r) /\ exec[r].step # Steps
      BY <1>0, <3>3 DEF Advance, Execs, Idle
    <3>4. CASE Retry(r)
      BY <1>0, <3>4 DEF Retry, Execs
    <3>5. CASE GiveUp(r)
      BY <1>0, <3>5 DEF GiveUp, Execs, Idle
    <3> QED
      BY <1>5, <3>1, <3>2, <3>3, <3>4, <3>5
  <2> QED
    BY <2>1, <2>2 DEF SoleApi
<1>6. ASSUME NEW p \in Procs, Restart(p) PROVE SoleApi'
  <2>1. /\ ledger' = ledger /\ entries' = [entries EXCEPT ![p] = LoadedEntries(ledger)]
        /\ request' = [q \in Requests |->
              IF request[q].api = p /\ request[q].pc \in {"evaluate", "reserve", "register"}
              THEN [request[q] EXCEPT !.pc = "failed"] ELSE request[q]]
        /\ exec' = [r \in Runs |-> IF exec[r].proc # p THEN exec[r] ELSE [Idle EXCEPT !.pc = "settled"]]
    BY <1>6 DEF Restart
  <2>2. LoadedEntries(ledger) \in Seq(Events) /\ RunsOf(LoadedEntries(ledger)) = RunsOf(ledger)
    BY LoadedRuns
  <2>3. \A r \in Runs : exec'[r].pc # "queued" /\ exec'[r].proc \in Apis \cup {NoProc}
    BY <2>1 DEF SoleApi, Idle
  <2>4. \A q \in Requests : request'[q].pc = "evaluate" => request'[q].run = NoRun
    BY <2>1 DEF SoleApi
  <2> QED
    BY <2>1, <2>2, <2>3, <2>4 DEF SoleApi
<1>7. CASE UNCHANGED vars
  BY <1>7 DEF vars, ledgers, admission, execution, SoleApi
<1> QED
  BY <1>1, <1>2, <1>3, <1>4, <1>5, <1>6, <1>7 DEF Next

\* evaluate_quota: the API that executes runs itself, alone on its ledger,
\* admits no run once the file names as many as the quota allows, for any
\* number of requests, failed appends, retries and restarts.
THEOREM QuotaIsEnforced ==
    ASSUME ~Durable, \A a, b \in Apis : a = b PROVE Spec => QuotaEnforced
<1> DEFINE Step == \A q \in Requests :
              request[q].pc = "evaluate" /\ request'[q].run # NoRun
                  => WithinQuota(Cardinality(RunsOf(ledger)))
<1>1. Init => SoleApi
  BY SoleApiInit
<1>2. LedgerInv /\ RequestTypes /\ SoleApi /\ [Next]_vars => SoleApi'
  BY SoleApiStep
<1>3. ASSUME RequestTypes, SoleApi, Next, NEW q \in Requests,
             request[q].pc = "evaluate", request'[q].run # NoRun
      PROVE  WithinQuota(Cardinality(RunsOf(ledger)))
  <2> USE DEF RequestTypes, Served
  <2>1. request[q].run = NoRun
    BY <1>3 DEF SoleApi
  <2>2. ASSUME NEW x \in Requests, Serve(x) \/ RequestFails(x)
        PROVE  WithinQuota(Cardinality(RunsOf(ledger)))
    <3>1. CASE x = q
      <4>1. ASSUME NEW r \in Runs, Admit(q, r) PROVE WithinQuota(Cardinality(RunsOf(ledger)))
        <5>1. request[q].api \in Apis
          BY <1>3
        <5>2. WithinQuota(Consumed(q))
          BY <4>1 DEF Admit
        <5>3. \A a \in Apis : RunsOf(entries[a]) = RunsOf(ledger)
          BY <1>3 DEF SoleApi
        <5> QED
          BY <5>1, <5>2, <5>3, Zenon DEF Consumed
      <4>2. ~Deny(q)
        BY <1>3 DEF Deny, Answer
      <4>3. ~(\E a \in Apis : Arrive(q, a)) /\ ~Reserve(q) /\ ~Create(q) /\ ~RequestFails(q)
        BY <1>3 DEF Arrive, Reserve, Create, RequestFails, At
      <4> QED
        BY <2>2, <3>1, <4>1, <4>2, <4>3 DEF Serve
    <3>2. CASE x # q
      <4>1. PICK e : request' = [request EXCEPT ![x] = e]
        <5>1. CASE \E a \in Apis : Arrive(x, a)
          BY <5>1 DEF Arrive
        <5>2. CASE Deny(x) \/ (\E r \in Runs : Admit(x, r)) \/ Reserve(x) \/ Create(x) \/ RequestFails(x)
          <6>1. PICK stage, r : Answer(x, stage, r)
            BY <5>2 DEF Deny, Admit, Reserve, Create, RequestFails
          <6>2. request' = [request EXCEPT ![x] = [request[x] EXCEPT !.pc = stage, !.run = r]]
            BY <6>1 DEF Answer
          <6> QED
            BY <6>2
        <5> QED
          BY <2>2, <5>1, <5>2 DEF Serve
      <4>2. request'[q] = request[q]
        BY <3>2, <4>1
      <4> QED
        BY <1>3, <2>1, <4>2
    <3> QED
      BY <3>1, <3>2
  <2>3. ASSUME NEW p \in Procs, Restart(p) PROVE FALSE
    <3>1. request'[q].run = request[q].run
      BY <2>3 DEF Restart
    <3> QED
      BY <1>3, <2>1, <3>1
  <2>4. CASE \E r \in Runs :
                \/ \E w \in Workers : Take(w, r)
                \/ \E c \in Contexts \cup {NoContext} : Record(r, c)
                \/ AppendRow(r) \/ AppendFails(r)
                \/ Advance(r) \/ Retry(r) \/ GiveUp(r)
    <3>1. UNCHANGED request
      BY <2>4 DEF Take, Record, AppendRow, AppendFails, Advance, Retry, GiveUp, admission
    <3> QED
      BY <1>3, <2>1, <3>1
  <2> QED
    BY <1>3, <2>2, <2>3, <2>4 DEF Next
<1>4. RequestTypes /\ SoleApi /\ [Next]_vars => [Step]_vars
  BY <1>3
<1>5. Spec => [](LedgerInv /\ RequestTypes)
  BY LedgerInvariant
<1>6. Spec => [][Step]_vars
  BY <1>1, <1>2, <1>4, <1>5, PTL DEF Spec
<1> QED
  BY <1>6 DEF QuotaEnforced


----------------------------------------------------------------------------
(* Streams *)

Shown == [n : Nat, final : BOOLEAN]
StreamStages == {"new", "list", "replay", "live", "done", "closed", "refused"}
StreamStates == [pc : StreamStages, local : BOOLEAN, replay : Seq(Shown), got : Seq(Shown)]

StreamTypes ==
    /\ events \in Seq(Shown) /\ log \in Seq(Shown) /\ recording \subseteq Shown
    /\ queues \subseteq Streams
    /\ queue \in [Streams -> Seq(Shown)] /\ stream \in [Streams -> StreamStates]
    /\ listedAt \in [Streams -> Nat] /\ subscribedAt \in [Streams -> Nat]

\* What LRANGE answers of n stored events.
Window(rows, n) == SubSeq(rows, IF n > Keep THEN n - Keep + 1 ELSE 1, n)

\* A local stream: what is sent, what is left of the history and what waits in
\* its queue are the events, without the final one before the end.
LocalStream(s) ==
    /\ stream[s].pc \in {"replay", "live"} =>
          /\ s \in queues /\ ~E!Final(stream[s].got)
          /\ (stream[s].got \o stream[s].replay) \o queue[s] = events
    /\ stream[s].pc = "live" => stream[s].replay = <<>>
    /\ stream[s].pc = "done" =>
          /\ \E rest \in Seq(Shown) : stream[s].got \o rest = events
          /\ E!Final(stream[s].got)
          /\ \E sofar \in Seq(Shown), e \in Shown : stream[s].got = Append(sofar, e) /\ ~E!Final(sofar)
    /\ stream[s].pc \notin {"new", "list", "refused"}

\* A remote stream has no queue of its own, but what was published since it
\* subscribed.
RemoteStream(s) ==
    /\ s \notin queues
    /\ stream[s].pc \in {"new", "list"} => stream[s].got = <<>> /\ stream[s].replay = <<>>
    /\ stream[s].pc \in {"new", "list", "replay"} => queue[s] = <<>>
    /\ stream[s].pc = "replay" =>
          /\ listedAt[s] <= Len(log)
          /\ stream[s].got \o stream[s].replay = Window(log, listedAt[s])
    /\ stream[s].pc = "live" =>
          /\ listedAt[s] <= Len(log) /\ subscribedAt[s] <= Len(log)
          /\ stream[s].got \o queue[s]
               = Window(log, listedAt[s]) \o SubSeq(log, subscribedAt[s] + 1, Len(log))

StreamInv ==
    /\ StreamTypes
    /\ \A s \in Streams : (stream[s].local => LocalStream(s)) /\ (~stream[s].local => RemoteStream(s))

\* A final event is in a longer sequence if it was in the shorter, or comes.
LEMMA FinalOfAppend ==
    ASSUME NEW shown \in Seq(Shown), NEW e \in Shown
    PROVE  E!Final(Append(shown, e)) <=> E!Final(shown) \/ e.final
<1> DEFINE longer == Append(shown, e)
<1>1. /\ Len(longer) = Len(shown) + 1 /\ Len(shown) \in Nat
      /\ \A i \in 1 .. Len(shown) : longer[i] = shown[i]
      /\ longer[Len(shown) + 1] = e
  OBVIOUS
<1> HIDE DEF longer
<1>2. E!Final(longer) <=> E!Final(shown) \/ e.final
  BY <1>1 DEF E!Final
<1> QED
  BY <1>2 DEF longer

\* What is left of a sequence when its first element is sent.
LEMMA SendsHead ==
    ASSUME NEW got \in Seq(Shown), NEW left \in Seq(Shown), left # <<>>
    PROVE  /\ Head(left) \in Shown /\ Tail(left) \in Seq(Shown)
           /\ Append(got, Head(left)) \in Seq(Shown)
           /\ Append(got, Head(left)) \o Tail(left) = got \o left
<1>1. Head(left) \in Shown /\ Tail(left) \in Seq(Shown)
  OBVIOUS
<1>2. left = <<Head(left)>> \o Tail(left)
  OBVIOUS
<1>3. Append(got, Head(left)) = got \o <<Head(left)>> /\ Append(got, Head(left)) \in Seq(Shown)
  BY <1>1, AppendIsConcat
<1>4. <<Head(left)>> \in Seq(Shown)
  BY <1>1
<1> QED
  BY <1>1, <1>2, <1>3, <1>4, ConcatAssociative

\* What was stored stays in its place when another event is.
LEMMA StoredStays ==
    ASSUME NEW rows \in Seq(Shown), NEW e \in Shown, NEW m \in Nat \ {0}, NEW n \in Nat, n <= Len(rows)
    PROVE  SubSeq(Append(rows, e), m, n) = SubSeq(rows, m, n)
<1> DEFINE longer == Append(rows, e)
           L == Len(rows)
<1>1. /\ longer \in Seq(Shown) /\ Len(longer) = L + 1 /\ L \in Nat
      /\ \A i \in 1 .. L : longer[i] = rows[i] /\ rows[i] \in Shown
      /\ longer[L + 1] = e /\ \A i \in 1 .. L + 1 : longer[i] \in Shown
  OBVIOUS
<1> HIDE DEF longer
<1>2. /\ SubSeq(longer, m, n) \in Seq(Shown)
      /\ Len(SubSeq(longer, m, n)) = IF m <= n THEN n - m + 1 ELSE 0
      /\ \A i \in 1 .. n - m + 1 : SubSeq(longer, m, n)[i] = longer[m + i - 1]
  <2>1. \A i \in m .. n : longer[i] \in Shown
    BY <1>1
  <2> QED
    BY <2>1, SubSeqProperties
<1>3. /\ SubSeq(rows, m, n) \in Seq(Shown)
      /\ Len(SubSeq(rows, m, n)) = IF m <= n THEN n - m + 1 ELSE 0
      /\ \A i \in 1 .. n - m + 1 : SubSeq(rows, m, n)[i] = rows[m + i - 1]
  <2>1. \A i \in m .. n : rows[i] \in Shown
    BY <1>1
  <2> QED
    BY <2>1, SubSeqProperties
<1>4. SubSeq(longer, m, n) = SubSeq(rows, m, n)
  <2>1. \A i \in 1 .. Len(SubSeq(longer, m, n)) : SubSeq(longer, m, n)[i] = SubSeq(rows, m, n)[i]
    <3> SUFFICES ASSUME NEW i \in 1 .. n - m + 1, m <= n
                 PROVE  SubSeq(longer, m, n)[i] = SubSeq(rows, m, n)[i]
      BY <1>2
    <3>1. m + i - 1 \in 1 .. L
      BY <1>1
    <3> QED
      BY <1>1, <1>2, <1>3, <3>1
  <2> QED
    BY <1>2, <1>3, <2>1, SeqEqual
<1> QED
  BY <1>4 DEF longer

\* What is stored from some place on grows by the event.
LEMMA StoredNext ==
    ASSUME NEW rows \in Seq(Shown), NEW e \in Shown, NEW m \in 1 .. Len(rows) + 1
    PROVE  /\ SubSeq(Append(rows, e), m, Len(rows) + 1) = Append(SubSeq(rows, m, Len(rows)), e)
           /\ SubSeq(rows, m, Len(rows)) \in Seq(Shown)
<1> DEFINE longer == Append(rows, e)
           L == Len(rows)
<1>1. /\ longer \in Seq(Shown) /\ Len(longer) = L + 1 /\ L \in Nat
      /\ longer[L + 1] = e /\ \A i \in 1 .. L : rows[i] \in Shown
  OBVIOUS
<1>2. SubSeq(longer, m, L) = SubSeq(rows, m, L)
  BY <1>1, StoredStays
<1>3. SubSeq(rows, m, L) \in Seq(Shown)
  <2>1. \A i \in m .. L : rows[i] \in Shown
    BY <1>1
  <2> QED
    BY <1>1, <2>1, SubSeqProperties
<1> HIDE DEF longer
<1>4. m \in 1 .. Len(longer) /\ L + 1 \in m .. Len(longer) /\ (L + 1) - 1 = L
  BY <1>1
<1>5. SubSeq(longer, m, L + 1) = SubSeq(longer, m, L) \o <<longer[L + 1]>>
  BY <1>1, <1>4, SubSeqRecursiveSecond
<1> HIDE DEF L
<1>6. SubSeq(longer, m, L + 1) = Append(SubSeq(rows, m, L), e)
  BY <1>1, <1>2, <1>3, <1>5, AppendIsConcat
<1> QED
  BY <1>3, <1>6 DEF L, longer

\* The library's associativity, for events.
LEMMA ConcatShown ==
    ASSUME NEW p \in Seq(Shown), NEW q \in Seq(Shown), NEW r \in Seq(Shown)
    PROVE  (p \o q) \o r = p \o (q \o r)
  BY ConcatAssociative

\* An element appended to the second of two sequences.
LEMMA AppendsLast ==
    ASSUME NEW p \in Seq(Shown), NEW q \in Seq(Shown), NEW e \in Shown
    PROVE  p \o Append(q, e) = Append(p \o q, e)
<1>1. Append(q, e) = q \o <<e>> /\ <<e>> \in Seq(Shown) /\ p \o q \in Seq(Shown)
  BY AppendIsConcat
<1>2. Append(p \o q, e) = (p \o q) \o <<e>>
  BY <1>1, AppendIsConcat
<1>3. (p \o q) \o <<e>> = p \o (q \o <<e>>)
  BY <1>1, ConcatAssociative
<1> QED
  BY <1>1, <1>2, <1>3

\* So what LRANGE answered is still what it would answer of the same events.
LEMMA WindowStays ==
    ASSUME NEW rows \in Seq(Shown), NEW e \in Shown, NEW n \in Nat, n <= Len(rows)
    PROVE  Window(Append(rows, e), n) = Window(rows, n) /\ Window(rows, n) \in Seq(Shown)
<1> DEFINE m == IF n > Keep THEN n - Keep + 1 ELSE 1
<1>1. m \in Nat \ {0}
  BY KeepAssumption
<1> HIDE DEF m
<1>2. SubSeq(Append(rows, e), m, n) = SubSeq(rows, m, n)
  BY <1>1, StoredStays
<1>3. SubSeq(rows, m, n) \in Seq(Shown)
  <2>1. \A i \in m .. n : rows[i] \in Shown
    BY <1>1
  <2> QED
    BY <1>1, <2>1, SubSeqProperties
<1> QED
  BY <1>2, <1>3 DEF m, Window

\* Initially no stream is open.
LEMMA StreamInit == E!Init => StreamInv
<1> SUFFICES ASSUME E!Init PROVE StreamInv
  OBVIOUS
<1>1. <<>> \in Seq(Shown)
  OBVIOUS
<1> QED
  BY <1>1 DEF E!Init, StreamInv, StreamTypes, StreamStates, StreamStages, LocalStream, RemoteStream

\* A step of one stream: the others see nothing of it.
LEMMA StreamMoves ==
    ASSUME StreamInv, NEW s \in Streams, NEW t \in StreamStates,
           stream' = [stream EXCEPT ![s] = t],
           UNCHANGED <<events, recording, log>>,
           queues' \subseteq Streams, queues' \ {s} = queues \ {s},
           queue' \in [Streams -> Seq(Shown)], listedAt' \in [Streams -> Nat],
           subscribedAt' \in [Streams -> Nat],
           \A x \in Streams \ {s} : /\ queue'[x] = queue[x] /\ listedAt'[x] = listedAt[x]
                                    /\ subscribedAt'[x] = subscribedAt[x],
           t.local => LocalStream(s)', ~t.local => RemoteStream(s)'
    PROVE  StreamInv'
<1> USE DEF StreamInv, StreamTypes
<1>1. StreamTypes'
  OBVIOUS
<1>2. ASSUME NEW x \in Streams
      PROVE  (stream'[x].local => LocalStream(x)') /\ (~stream'[x].local => RemoteStream(x)')
  <2>1. CASE x = s
    BY <2>1
  <2>2. CASE x # s
    <3>1. /\ stream'[x] = stream[x] /\ queue'[x] = queue[x] /\ listedAt'[x] = listedAt[x]
          /\ subscribedAt'[x] = subscribedAt[x] /\ (x \in queues' <=> x \in queues)
      BY <2>2
    <3>2. (stream[x].local => LocalStream(x)) /\ (~stream[x].local => RemoteStream(x))
      OBVIOUS
    <3>3. stream[x].local => LocalStream(x)'
      BY <3>1, <3>2 DEF LocalStream
    <3>4. ~stream[x].local => RemoteStream(x)'
      BY <3>1, <3>2 DEF RemoteStream, Window
    <3> QED
      BY <3>1, <3>3, <3>4
  <2> QED
    BY <2>1, <2>2
<1> HIDE DEF StreamTypes
<1> QED
  BY <1>1, <1>2

\* An event is appended for every local stream, and for no remote one.
LEMMA StreamBroadcast ==
    ASSUME StreamInv, NEW e \in Shown, E!Broadcast(e)
    PROVE  StreamInv'
<1> USE DEF StreamInv, StreamTypes
<1>1. /\ events' = Append(events, e) /\ recording' = recording \cup {e}
      /\ queue' = [s \in Streams |-> IF s \in queues THEN Append(queue[s], e) ELSE queue[s]]
      /\ UNCHANGED <<log, queues, stream, listedAt, subscribedAt>>
  BY DEF E!Broadcast
<1>2. StreamTypes'
  <2>1. \A s \in Streams : Append(queue[s], e) \in Seq(Shown)
    OBVIOUS
  <2> QED
    BY <1>1, <2>1
<1>3. ASSUME NEW s \in Streams, stream[s].local PROVE LocalStream(s)'
  <2>1. LocalStream(s) /\ stream[s] \in StreamStates /\ queue[s] \in Seq(Shown)
    BY <1>3
  <2>2. stream[s].got \in Seq(Shown) /\ stream[s].replay \in Seq(Shown)
    BY <2>1 DEF StreamStates
  <2>4. ASSUME stream[s].pc \in {"replay", "live"}
        PROVE  (stream[s].got \o stream[s].replay) \o queue'[s] = events'
    <3>1. queue'[s] = Append(queue[s], e) /\ (stream[s].got \o stream[s].replay) \o queue[s] = events
      BY <1>1, <2>1, <2>4 DEF LocalStream
    <3>2. stream[s].got \o stream[s].replay \in Seq(Shown)
      BY <2>2
    <3>3. (stream[s].got \o stream[s].replay) \o Append(queue[s], e)
            = Append((stream[s].got \o stream[s].replay) \o queue[s], e)
      BY <2>1, <3>2, AppendsLast
    <3> QED
      BY <1>1, <3>1, <3>3
  <2>5. ASSUME stream[s].pc = "done"
        PROVE  \E rest \in Seq(Shown) : stream[s].got \o rest = events'
    <3>1. PICK rest \in Seq(Shown) : stream[s].got \o rest = events
      BY <2>1, <2>5 DEF LocalStream
    <3>2. stream[s].got \o Append(rest, e) = Append(stream[s].got \o rest, e)
      BY <2>2, AppendsLast
    <3>3. Append(rest, e) \in Seq(Shown)
      OBVIOUS
    <3> QED
      BY <1>1, <3>1, <3>2, <3>3
  <2> QED
    BY <1>1, <2>1, <2>4, <2>5 DEF LocalStream
<1>4. ASSUME NEW s \in Streams, ~stream[s].local PROVE RemoteStream(s)'
  <2>1. RemoteStream(s)
    BY <1>4
  <2>2. queue'[s] = queue[s]
    BY <1>1, <2>1 DEF RemoteStream
  <2> QED
    BY <1>1, <2>1, <2>2 DEF RemoteStream, Window
<1> HIDE DEF StreamTypes
<1> QED
  BY <1>1, <1>2, <1>3, <1>4

\* An event is stored and published: the window of a remote stream stays, and
\* a live one gets the event.
LEMMA StreamStored ==
    ASSUME StreamInv, NEW e \in recording, E!Record(e)
    PROVE  StreamInv'
<1> USE DEF StreamInv, StreamTypes
<1>1. /\ log' = Append(log, e) /\ recording' = recording \ {e} /\ e \in Shown
      /\ queue' = [s \in Streams |->
              IF stream[s].pc = "live" /\ ~stream[s].local THEN Append(queue[s], e) ELSE queue[s]]
      /\ UNCHANGED <<events, queues, stream, listedAt, subscribedAt>>
  BY DEF E!Record
<1>2. StreamTypes'
  <2>1. \A s \in Streams : Append(queue[s], e) \in Seq(Shown)
    BY <1>1
  <2> QED
    BY <1>1, <2>1
<1>3. ASSUME NEW s \in Streams, stream[s].local PROVE LocalStream(s)'
  <2>1. LocalStream(s) /\ queue'[s] = queue[s]
    BY <1>1, <1>3
  <2> QED
    BY <1>1, <2>1 DEF LocalStream
<1>4. ASSUME NEW s \in Streams, ~stream[s].local PROVE RemoteStream(s)'
  <2>1. RemoteStream(s) /\ stream[s] \in StreamStates /\ queue[s] \in Seq(Shown)
    BY <1>4
  <2>2. stream[s].got \in Seq(Shown) /\ listedAt[s] \in Nat /\ subscribedAt[s] \in Nat
    BY <2>1 DEF StreamStates
  <2>3. Len(log') = Len(log) + 1 /\ Len(log) \in Nat
    BY <1>1
  <2>4. listedAt[s] <= Len(log) =>
           Window(log', listedAt[s]) = Window(log, listedAt[s]) /\ Window(log, listedAt[s]) \in Seq(Shown)
    BY <1>1, <2>2, WindowStays
  <2>5. CASE stream[s].pc = "live"
    <3> DEFINE later == SubSeq(log, subscribedAt[s] + 1, Len(log))
               window == Window(log, listedAt[s])
    <3>1. queue'[s] = Append(queue[s], e) /\ stream[s].got \o queue[s] = window \o later
          /\ listedAt[s] <= Len(log) /\ subscribedAt[s] <= Len(log)
      BY <1>1, <1>4, <2>1, <2>5 DEF RemoteStream
    <3>2. SubSeq(log', subscribedAt[s] + 1, Len(log')) = Append(later, e) /\ later \in Seq(Shown)
      <4>1. subscribedAt[s] + 1 \in 1 .. Len(log) + 1
        BY <2>2, <2>3, <3>1
      <4> QED
        BY <1>1, <2>3, <4>1, StoredNext
    <3>3. window \in Seq(Shown) /\ Window(log', listedAt[s]) = window
      BY <2>4, <3>1
    <3> HIDE DEF later, window
    <3>4. stream[s].got \o Append(queue[s], e) = window \o Append(later, e)
      <4>1. stream[s].got \o Append(queue[s], e) = Append(stream[s].got \o queue[s], e)
        BY <1>1, <2>1, <2>2, AppendsLast
      <4>2. window \o Append(later, e) = Append(window \o later, e)
        BY <1>1, <3>2, <3>3, AppendsLast
      <4> QED
        BY <3>1, <4>1, <4>2
    <3>5. /\ stream'[s] = stream[s] /\ listedAt'[s] = listedAt[s] /\ subscribedAt'[s] = subscribedAt[s]
          /\ queues' = queues /\ listedAt'[s] <= Len(log') /\ subscribedAt'[s] <= Len(log')
      BY <1>1, <2>2, <2>3, <3>1
    <3>6. stream'[s].got \o queue'[s]
            = Window(log', listedAt'[s]) \o SubSeq(log', subscribedAt'[s] + 1, Len(log'))
      BY <3>1, <3>2, <3>3, <3>4, <3>5
    <3> QED
      BY <2>1, <2>5, <3>5, <3>6 DEF RemoteStream
  <2>6. CASE stream[s].pc # "live"
    <3>1. /\ queue'[s] = queue[s] /\ stream'[s] = stream[s] /\ listedAt'[s] = listedAt[s]
          /\ queues' = queues /\ (listedAt[s] <= Len(log) => listedAt'[s] <= Len(log'))
      BY <1>1, <2>2, <2>3, <2>6
    <3> QED
      BY <2>1, <2>4, <2>6, <3>1 DEF RemoteStream
  <2> QED
    BY <2>5, <2>6
<1> HIDE DEF StreamTypes
<1> QED
  BY <1>1, <1>2, <1>3, <1>4

\* Opening a stream: the queue is empty, and the history is all there is.
LEMMA StreamOpens ==
    ASSUME StreamInv, NEW s \in Streams, E!OpenLocal(s) \/ E!OpenRemote(s)
    PROVE  StreamInv'
<1> USE DEF StreamInv, StreamTypes
<1>0. /\ stream[s] \in StreamStates /\ stream[s].pc = "new"
      /\ UNCHANGED <<events, recording, log, queue, listedAt, subscribedAt>>
  BY DEF E!OpenLocal, E!OpenRemote, E!At
<1>1. /\ ~stream[s].local /\ RemoteStream(s) /\ s \notin queues /\ queue[s] = <<>>
      /\ stream[s].got = <<>> /\ stream[s].replay = <<>>
  <2>1. ~stream[s].local
    BY <1>0 DEF LocalStream
  <2> QED
    BY <1>0, <2>1 DEF RemoteStream
<1>2. CASE E!OpenLocal(s)
  <2> DEFINE t == [stream[s] EXCEPT !.pc = "replay", !.local = TRUE, !.replay = events]
  <2>1. stream' = [stream EXCEPT ![s] = t] /\ queues' = queues \cup {s}
    BY <1>0, <1>2 DEF E!OpenLocal, StreamStates
  <2>2. /\ t \in StreamStates /\ t.pc = "replay" /\ t.local /\ t.replay = events /\ t.got = <<>>
    BY <1>0, <1>1 DEF StreamStates, StreamStages
  <2> HIDE DEF t
  <2>3. (<<>> \o events) \o <<>> = events /\ ~E!Final(<<>>)
    <3>1. Len(<<>>) = 0
      OBVIOUS
    <3>2. ~E!Final(<<>>)
      BY <3>1 DEF E!Final
    <3>3. <<>> \o events = events /\ events \o <<>> = events
      BY ConcatEmptySeq
    <3> QED
      BY <3>2, <3>3
  <2>4. stream'[s] = t /\ queue'[s] = <<>> /\ s \in queues'
    BY <1>0, <1>1, <2>1
  <2>5. LocalStream(s)'
    BY <1>0, <2>2, <2>3, <2>4 DEF LocalStream
  <2> HIDE DEF StreamInv, StreamTypes
  <2>6. /\ queues' \subseteq Streams /\ queues' \ {s} = queues \ {s}
        /\ queue' \in [Streams -> Seq(Shown)] /\ listedAt' \in [Streams -> Nat]
        /\ subscribedAt' \in [Streams -> Nat]
    BY <1>0, <2>1 DEF StreamInv, StreamTypes
  <2> QED
    BY <1>0, <2>1, <2>2, <2>5, <2>6, StreamMoves
<1>3. CASE E!OpenRemote(s)
  <2> DEFINE t == [stream[s] EXCEPT !.pc = IF registered THEN "list" ELSE "refused"]
  <2>1. stream' = [stream EXCEPT ![s] = t] /\ queues' = queues
    BY <1>0, <1>3 DEF E!OpenRemote, StreamStates
  <2>2. /\ t \in StreamStates /\ t.pc \in {"list", "refused"} /\ ~t.local
        /\ t.replay = <<>> /\ t.got = <<>>
    BY <1>0, <1>1 DEF StreamStates, StreamStages
  <2> HIDE DEF t
  <2>4. stream'[s] = t /\ queue'[s] = <<>> /\ s \notin queues'
    BY <1>0, <1>1, <2>1
  <2>5. RemoteStream(s)'
    BY <2>2, <2>4 DEF RemoteStream
  <2> HIDE DEF StreamInv, StreamTypes
  <2>6. /\ queues' \subseteq Streams /\ queues' \ {s} = queues \ {s}
        /\ queue' \in [Streams -> Seq(Shown)] /\ listedAt' \in [Streams -> Nat]
        /\ subscribedAt' \in [Streams -> Nat]
    BY <1>0, <2>1 DEF StreamInv, StreamTypes
  <2> QED
    BY <1>0, <2>1, <2>2, <2>5, <2>6, StreamMoves
<1> QED
  BY <1>2, <1>3

\* The history: what LRANGE answers, one event after the other.
LEMMA StreamReplays ==
    ASSUME StreamInv, NEW s \in Streams, E!List(s) \/ E!Replay(s)
    PROVE  StreamInv'
<1> USE DEF StreamInv, StreamTypes
<1>0. /\ stream[s] \in StreamStates /\ UNCHANGED <<events, recording, log, queues, queue, subscribedAt>>
      /\ stream[s].got \in Seq(Shown) /\ stream[s].replay \in Seq(Shown) /\ queue[s] \in Seq(Shown)
  BY DEF E!List, E!Replay, StreamStates
<1>1. CASE E!List(s)
  <2> DEFINE t == [stream[s] EXCEPT !.replay = E!Stored, !.pc = "replay"]
  <2>1. /\ stream' = [stream EXCEPT ![s] = t] /\ listedAt' = [listedAt EXCEPT ![s] = Len(log)]
        /\ stream[s].pc = "list"
    BY <1>0, <1>1 DEF E!List, E!At, StreamStates
  <2>2. ~stream[s].local
    BY <2>1 DEF LocalStream
  <2>3. RemoteStream(s) /\ Len(log) \in Nat
    BY <2>2
  <2>4. E!Stored = Window(log, Len(log))
    BY Zenon DEF E!Stored, Window
  <2>5. E!Stored \in Seq(Shown)
    <3>1. \A e \in Shown : Window(log, Len(log)) \in Seq(Shown)
      BY <2>3, WindowStays
    <3>2. [n |-> 0, final |-> FALSE] \in Shown
      BY DEF Shown
    <3> QED
      BY <2>4, <3>1, <3>2
  <2>6. <<>> \o E!Stored = E!Stored
    BY <2>5, ConcatEmptySeq
  <2>7. t \in StreamStates /\ t.pc = "replay" /\ ~t.local /\ t.replay = E!Stored /\ t.got = <<>>
    BY <1>0, <2>1, <2>2, <2>3, <2>5 DEF StreamStates, StreamStages, RemoteStream
  <2> HIDE DEF t
  <2>8. stream'[s] = t /\ queue'[s] = <<>> /\ s \notin queues' /\ listedAt'[s] = Len(log)
    BY <1>0, <2>1, <2>3 DEF RemoteStream
  <2>9. t.got \o t.replay = Window(log, Len(log)) /\ log' = log /\ Len(log) <= Len(log)
    BY <1>0, <2>3, <2>4, <2>6, <2>7
  <2>11. RemoteStream(s)'
    <3> HIDE DEF StreamInv, StreamTypes
    <3> QED
      BY <2>7, <2>8, <2>9 DEF RemoteStream
  <2>10. /\ queues' \subseteq Streams /\ queues' \ {s} = queues \ {s}
         /\ queue' \in [Streams -> Seq(Shown)] /\ listedAt' \in [Streams -> Nat]
         /\ subscribedAt' \in [Streams -> Nat]
         /\ \A x \in Streams \ {s} : listedAt'[x] = listedAt[x]
    BY <1>0, <2>1, <2>3
  <2> HIDE DEF StreamInv, StreamTypes
  <2> QED
    BY <1>0, <2>1, <2>7, <2>10, <2>11, StreamMoves
<1>2. CASE E!Replay(s)
  <2> DEFINE e == Head(stream[s].replay)
             over == e.final /\ stream[s].local
             t == [stream[s] EXCEPT !.got = Append(stream[s].got, e), !.replay = Tail(stream[s].replay),
                      !.pc = IF over THEN "done" ELSE "replay"]
  <2>1. stream' = [stream EXCEPT ![s] = t] /\ stream[s].pc = "replay" /\ stream[s].replay # <<>>
        /\ listedAt' = listedAt
    BY <1>0, <1>2 DEF E!Replay, E!At, StreamStates
  <2>2. /\ e \in Shown /\ Tail(stream[s].replay) \in Seq(Shown)
        /\ Append(stream[s].got, e) \in Seq(Shown)
        /\ Append(stream[s].got, e) \o Tail(stream[s].replay) = stream[s].got \o stream[s].replay
    BY <1>0, <2>1, SendsHead
  <2>3. E!Final(Append(stream[s].got, e)) <=> E!Final(stream[s].got) \/ e.final
    BY <1>0, <2>2, FinalOfAppend
  <2>4. /\ t \in StreamStates /\ t.pc = (IF over THEN "done" ELSE "replay") /\ t.local = stream[s].local
        /\ t.got = Append(stream[s].got, e) /\ t.replay = Tail(stream[s].replay)
    BY <1>0, <2>2 DEF StreamStates, StreamStages
  <2> HIDE DEF t, e
  <2>5. /\ stream'[s] = t /\ queue'[s] = queue[s] /\ queues' = queues /\ events' = events
        /\ listedAt'[s] = listedAt[s] /\ subscribedAt'[s] = subscribedAt[s] /\ log' = log
    BY <1>0, <2>1
  <2>6. ASSUME stream[s].local PROVE LocalStream(s)'
    <3>1. /\ s \in queues /\ ~E!Final(stream[s].got)
          /\ (stream[s].got \o stream[s].replay) \o queue[s] = events
      BY <2>1, <2>6 DEF LocalStream
    <3>2. CASE e.final
      <4>1. t.got \o (t.replay \o queue[s]) = events /\ t.replay \o queue[s] \in Seq(Shown)
        <5>1. t.got \in Seq(Shown) /\ t.replay \in Seq(Shown) /\ t.got \o t.replay = stream[s].got \o stream[s].replay
          BY <2>2, <2>4
        <5>2. (t.got \o t.replay) \o queue[s] = t.got \o (t.replay \o queue[s])
          <6>1. queue[s] \in Seq(Shown)
            BY <1>0
          <6> QED
            BY <5>1, <6>1, ConcatShown
        <5>3. t.replay \o queue[s] \in Seq(Shown)
          BY <1>0, <5>1, ConcatProperties
        <5> QED
          BY <3>1, <5>1, <5>2, <5>3
      <4>2. E!Final(t.got) /\ t.got = Append(stream[s].got, e) /\ ~E!Final(stream[s].got)
        BY <2>3, <2>4, <3>1, <3>2
      <4>3. stream'[s].pc = "done"
        BY <2>4, <2>5, <2>6, <3>2
      <4> QED
        BY <1>0, <2>2, <2>5, <4>1, <4>2, <4>3 DEF LocalStream
    <3>3. CASE ~e.final
      BY <2>2, <2>3, <2>4, <2>5, <3>1, <3>3 DEF LocalStream
    <3> QED
      BY <3>2, <3>3
  <2>7. ASSUME ~stream[s].local PROVE RemoteStream(s)'
    <3>1. RemoteStream(s) /\ t.pc = "replay"
      BY <2>4, <2>7
    <3> QED
      BY <2>1, <2>2, <2>4, <2>5, <3>1 DEF RemoteStream
  <2>8. /\ queues' \subseteq Streams /\ queues' \ {s} = queues \ {s}
         /\ queue' \in [Streams -> Seq(Shown)] /\ listedAt' \in [Streams -> Nat]
         /\ subscribedAt' \in [Streams -> Nat]
    BY <1>0, <2>1
  <2> HIDE DEF StreamInv, StreamTypes
  <2> QED
    BY <1>0, <2>1, <2>4, <2>6, <2>7, <2>8, StreamMoves
<1> QED
  BY <1>1, <1>2

\* The history is sent: a local stream goes on with its queue, a remote one
\* subscribes, or is over.
LEMMA StreamTurns ==
    ASSUME StreamInv, NEW s \in Streams, E!Follow(s) \/ E!Subscribe(s)
    PROVE  StreamInv'
<1> USE DEF StreamInv, StreamTypes
<1>0. /\ stream[s] \in StreamStates /\ UNCHANGED <<events, recording, log, queues, queue, listedAt>>
      /\ stream[s].got \in Seq(Shown) /\ stream[s].pc = "replay" /\ stream[s].replay = <<>>
      /\ queue[s] \in Seq(Shown)
  BY DEF E!Follow, E!Subscribe, E!At, StreamStates
<1>2. /\ queues' \subseteq Streams /\ queues' \ {s} = queues \ {s}
      /\ queue' \in [Streams -> Seq(Shown)] /\ listedAt' \in [Streams -> Nat]
  BY <1>0
<1>3. CASE E!Follow(s)
  <2> DEFINE t == [stream[s] EXCEPT !.pc = "live"]
  <2>1. stream' = [stream EXCEPT ![s] = t] /\ subscribedAt' = subscribedAt /\ stream[s].local
    BY <1>0, <1>3 DEF E!Follow, StreamStates
  <2>2. /\ t \in StreamStates /\ t.pc = "live" /\ t.local
        /\ t.got = stream[s].got /\ t.replay = stream[s].replay
    BY <1>0, <2>1 DEF StreamStates, StreamStages
  <2> HIDE DEF t
  <2>3. stream'[s] = t /\ queue'[s] = queue[s] /\ queues' = queues /\ events' = events
    BY <1>0, <2>1
  <2>4. LocalStream(s)'
    BY <1>0, <2>1, <2>2, <2>3 DEF LocalStream
  <2>5. subscribedAt' \in [Streams -> Nat]
    BY <2>1
  <2> HIDE DEF StreamInv, StreamTypes
  <2> QED
    BY <1>0, <1>2, <2>1, <2>2, <2>4, <2>5, StreamMoves
<1>4. CASE E!Subscribe(s) /\ E!Final(stream[s].got)
  <2> DEFINE t == [stream[s] EXCEPT !.pc = "done"]
  <2>1. stream' = [stream EXCEPT ![s] = t] /\ subscribedAt' = subscribedAt /\ ~stream[s].local
    BY <1>0, <1>4 DEF E!Subscribe, StreamStates
  <2>2. t \in StreamStates /\ t.pc = "done" /\ ~t.local
    BY <1>0, <2>1 DEF StreamStates, StreamStages
  <2> HIDE DEF t
  <2>3. stream'[s] = t /\ queues' = queues
    BY <1>0, <2>1
  <2>4. RemoteStream(s)'
    BY <2>1, <2>2, <2>3 DEF RemoteStream
  <2>5. subscribedAt' \in [Streams -> Nat]
    BY <2>1
  <2> HIDE DEF StreamInv, StreamTypes
  <2> QED
    BY <1>0, <1>2, <2>1, <2>2, <2>4, <2>5, StreamMoves
<1>5. CASE E!Subscribe(s) /\ ~E!Final(stream[s].got)
  <2> DEFINE t == [stream[s] EXCEPT !.pc = "live"]
  <2>1. /\ stream' = [stream EXCEPT ![s] = t] /\ ~stream[s].local
        /\ subscribedAt' = [subscribedAt EXCEPT ![s] = Len(log)]
    BY <1>0, <1>5 DEF E!Subscribe, StreamStates
  <2>2. t \in StreamStates /\ t.pc = "live" /\ ~t.local /\ t.got = stream[s].got
    BY <1>0, <2>1 DEF StreamStates, StreamStages
  <2> HIDE DEF t
  <2>3. /\ stream'[s] = t /\ queue'[s] = queue[s] /\ queues' = queues /\ log' = log
        /\ listedAt'[s] = listedAt[s] /\ subscribedAt'[s] = Len(log) /\ Len(log) \in Nat
    BY <1>0, <2>1
  <2>4. /\ s \notin queues /\ queue[s] = <<>> /\ listedAt[s] <= Len(log)
        /\ stream[s].got \o <<>> = Window(log, listedAt[s])
    BY <1>0, <2>1 DEF RemoteStream
  <2>5. SubSeq(log, Len(log) + 1, Len(log)) = <<>>
    BY <2>3, SubSeqEmpty
  <2>6. stream[s].got \o <<>> = stream[s].got /\ stream[s].got \o <<>> = Window(log, listedAt[s]) \o <<>>
    BY <1>0, <2>4, ConcatEmptySeq
  <2>9. t.got \o queue[s] = Window(log, listedAt[s]) \o SubSeq(log, Len(log) + 1, Len(log))
    BY <2>2, <2>4, <2>5, <2>6
  <2>7. RemoteStream(s)'
    <3>1. listedAt'[s] <= Len(log') /\ subscribedAt'[s] <= Len(log')
      BY <2>3, <2>4
    <3> HIDE DEF StreamInv, StreamTypes
    <3> QED
      BY <2>2, <2>3, <2>4, <2>9, <3>1 DEF RemoteStream
  <2>8. subscribedAt' \in [Streams -> Nat] /\ \A x \in Streams \ {s} : subscribedAt'[x] = subscribedAt[x]
    BY <2>1, <2>3
  <2> HIDE DEF StreamInv, StreamTypes
  <2> QED
    BY <1>0, <1>2, <2>1, <2>2, <2>7, <2>8, StreamMoves
<1> QED
  BY <1>3, <1>4, <1>5

\* An event is taken from the queue or the connection, and sent.
LEMMA StreamDelivers ==
    ASSUME StreamInv, NEW s \in Streams, E!Deliver(s)
    PROVE  StreamInv'
<1> USE DEF StreamInv, StreamTypes
<1> DEFINE e == Head(queue[s])
           t == [stream[s] EXCEPT !.got = Append(stream[s].got, e), !.pc = IF e.final THEN "done" ELSE "live"]
<1>0. /\ stream[s] \in StreamStates /\ UNCHANGED <<events, recording, log, listedAt, subscribedAt>>
      /\ stream[s].got \in Seq(Shown) /\ queue[s] \in Seq(Shown)
      /\ stream[s].pc = "live" /\ queue[s] # <<>>
  BY DEF E!Deliver, E!At, StreamStates
<1>1. /\ stream' = [stream EXCEPT ![s] = t] /\ queue' = [queue EXCEPT ![s] = Tail(queue[s])]
      /\ queues' = IF e.final THEN queues \ {s} ELSE queues
  BY <1>0 DEF E!Deliver, StreamStates
<1>2. /\ e \in Shown /\ Tail(queue[s]) \in Seq(Shown) /\ Append(stream[s].got, e) \in Seq(Shown)
      /\ Append(stream[s].got, e) \o Tail(queue[s]) = stream[s].got \o queue[s]
  BY <1>0, SendsHead
<1>3. E!Final(Append(stream[s].got, e)) <=> E!Final(stream[s].got) \/ e.final
  BY <1>0, <1>2, FinalOfAppend
<1>4. /\ t \in StreamStates /\ t.pc = (IF e.final THEN "done" ELSE "live") /\ t.local = stream[s].local
      /\ t.got = Append(stream[s].got, e) /\ t.replay = stream[s].replay
  BY <1>0, <1>2 DEF StreamStates, StreamStages
<1> HIDE DEF e, t
<1>5. /\ stream'[s] = t /\ queue'[s] = Tail(queue[s]) /\ events' = events /\ log' = log
      /\ listedAt'[s] = listedAt[s] /\ subscribedAt'[s] = subscribedAt[s]
  BY <1>0, <1>1
<1>6. ASSUME stream[s].local PROVE LocalStream(s)'
  <2>1. /\ s \in queues /\ ~E!Final(stream[s].got) /\ stream[s].replay = <<>>
        /\ (stream[s].got \o stream[s].replay) \o queue[s] = events
    BY <1>0, <1>6 DEF LocalStream
  <2>2. stream[s].got \o <<>> = stream[s].got /\ t.got \o <<>> = t.got
    BY <1>0, <1>2, <1>4, ConcatEmptySeq
  <2>3. t.got \o Tail(queue[s]) = events
    BY <1>2, <1>4, <2>1, <2>2
  <2>4. CASE e.final
    <3>1. E!Final(t.got) /\ t.got = Append(stream[s].got, e) /\ t.pc = "done"
      BY <1>3, <1>4, <2>4
    <3> QED
      BY <1>0, <1>2, <1>5, <2>1, <2>3, <3>1 DEF LocalStream
  <2>5. CASE ~e.final
    <3>1. ~E!Final(t.got) /\ t.replay = <<>> /\ t.pc = "live" /\ s \in queues'
      BY <1>1, <1>3, <1>4, <2>1, <2>5
    <3> QED
      BY <1>5, <2>2, <2>3, <3>1 DEF LocalStream
  <2> QED
    BY <2>4, <2>5
<1>7. ASSUME ~stream[s].local PROVE RemoteStream(s)'
  <2>1. /\ s \notin queues' /\ t.pc \in {"live", "done"} /\ RemoteStream(s)
    BY <1>1, <1>4, <1>7 DEF RemoteStream
  <2>2. t.got \o Tail(queue[s]) = Window(log, listedAt[s]) \o SubSeq(log, subscribedAt[s] + 1, Len(log))
    BY <1>0, <1>2, <1>4, <2>1 DEF RemoteStream
  <2> QED
    BY <1>0, <1>5, <2>1, <2>2 DEF RemoteStream
<1>8. /\ queues' \subseteq Streams /\ queues' \ {s} = queues \ {s}
      /\ queue' \in [Streams -> Seq(Shown)] /\ listedAt' \in [Streams -> Nat]
      /\ subscribedAt' \in [Streams -> Nat] /\ \A x \in Streams \ {s} : queue'[x] = queue[x]
  BY <1>0, <1>1, <1>2
<1> HIDE DEF StreamInv, StreamTypes
<1> QED
  BY <1>0, <1>1, <1>4, <1>6, <1>7, <1>8, StreamMoves

\* The client goes away.
LEMMA StreamCloses ==
    ASSUME StreamInv, NEW s \in Streams, E!Disconnect(s)
    PROVE  StreamInv'
<1> USE DEF StreamInv, StreamTypes
<1> DEFINE t == [stream[s] EXCEPT !.pc = "closed"]
<1>0. /\ stream[s] \in StreamStates /\ UNCHANGED <<events, recording, log, queue, listedAt, subscribedAt>>
      /\ queues' \in {queues, queues \ {s}} /\ stream' = [stream EXCEPT ![s] = t]
  BY DEF E!Disconnect, StreamStates
<1>1. t \in StreamStates /\ t.pc = "closed" /\ t.local = stream[s].local
  BY <1>0 DEF StreamStates, StreamStages
<1> HIDE DEF t
<1>2. stream'[s] = t
  BY <1>0
<1>3. t.local => LocalStream(s)'
  BY <1>1, <1>2 DEF LocalStream
<1>4. ~t.local => RemoteStream(s)'
  BY <1>0, <1>1, <1>2 DEF RemoteStream
<1>5. /\ queues' \subseteq Streams /\ queues' \ {s} = queues \ {s}
      /\ queue' \in [Streams -> Seq(Shown)] /\ listedAt' \in [Streams -> Nat]
      /\ subscribedAt' \in [Streams -> Nat]
  BY <1>0
<1> HIDE DEF StreamInv, StreamTypes
<1> QED
  BY <1>0, <1>1, <1>3, <1>4, <1>5, StreamMoves

\* Steps that change neither what the streams have nor what they read.
LEMMA StreamQuiet ==
    ASSUME StreamInv, UNCHANGED <<events, log, queues, queue, stream, listedAt, subscribedAt>>,
           recording' \subseteq Shown
    PROVE  StreamInv'
  BY DEF StreamInv, StreamTypes, LocalStream, RemoteStream

\* Every step of the module keeps the invariant.
LEMMA StreamKept == StreamInv /\ [E!Next]_streaming => StreamInv'
<1> SUFFICES ASSUME StreamInv, [E!Next]_streaming PROVE StreamInv'
  OBVIOUS
<1>1. recording \subseteq Shown /\ Len(events) \in Nat
  BY DEF StreamInv, StreamTypes
<1>2. E!Event(Len(events) + 1, TRUE) \in Shown /\ E!Event(Len(events) + 1, FALSE) \in Shown
  BY <1>1 DEF E!Event, Shown
<1>3. CASE E!Register \/ E!Approve \/ E!Prune
  BY <1>1, <1>3, StreamQuiet DEF E!Register, E!Approve, E!Prune, E!sent
<1>4. CASE E!Step
  BY <1>2, <1>4, StreamBroadcast DEF E!Step
<1>5. CASE E!Finish
  <2>1. CASE UNCHANGED <<listed, events, recording, log, E!sent, eventFaults>>
    BY <1>1, <2>1, StreamQuiet DEF E!sent
  <2>2. CASE E!Broadcast(E!Event(Len(events) + 1, TRUE))
    BY <1>2, <2>2, StreamBroadcast
  <2> QED
    BY <1>5, <2>1, <2>2 DEF E!Finish
<1>6. ASSUME NEW e \in recording, E!Record(e) PROVE StreamInv'
  BY <1>6, StreamStored
<1>7. ASSUME NEW e \in recording, E!RecordFails(e) PROVE StreamInv'
  BY <1>1, <1>7, StreamQuiet DEF E!RecordFails, E!sent
<1>8. ASSUME NEW s \in Streams, E!OpenLocal(s) \/ E!OpenRemote(s) \/ E!Serve(s) \/ E!Disconnect(s)
      PROVE  StreamInv'
  BY <1>8, StreamOpens, StreamReplays, StreamTurns, StreamDelivers, StreamCloses DEF E!Serve
<1>9. CASE UNCHANGED streaming
  BY <1>1, <1>9, StreamQuiet DEF streaming
<1>10. CASE E!Next
  BY <1>3, <1>4, <1>5, <1>6, <1>7, <1>8, <1>10 DEF E!Next
<1> QED
  BY <1>9, <1>10

\* What was sent up to the final event is what the run broadcast up to it.
LEMMA StreamsAreFaithful == StreamInv => E!StreamsFaithful
<1> SUFFICES ASSUME StreamInv PROVE E!LocalExact /\ E!RemoteGap
  BY DEF E!StreamsFaithful
<1> USE DEF StreamInv, StreamTypes
<1>1. ASSUME NEW s \in Streams, stream[s].local, stream[s].pc \in {"replay", "live"}
      PROVE  stream[s].got \o stream[s].replay \o queue[s] = events
  BY <1>1 DEF LocalStream
<1>2. ASSUME NEW s \in Streams, stream[s].local, stream[s].pc = "done"
      PROVE  /\ stream[s].got = SubSeq(events, 1, Len(stream[s].got))
             /\ E!Final(stream[s].got) /\ ~E!Final(E!Front(stream[s].got))
  <2> DEFINE got == stream[s].got
  <2>1. LocalStream(s) /\ got \in Seq(Shown)
    BY <1>2 DEF StreamStates
  <2> HIDE DEF got
  <2>2. PICK rest \in Seq(Shown) : got \o rest = events
    BY <1>2, <2>1 DEF LocalStream, got
  <2>3. PICK sofar \in Seq(Shown), e \in Shown : got = Append(sofar, e) /\ ~E!Final(sofar)
    BY <1>2, <2>1 DEF LocalStream, got
  <2>4. E!Final(got)
    BY <1>2, <2>1 DEF LocalStream, got
  <2>5. Len(got) = Len(sofar) + 1 /\ Len(sofar) \in Nat
    BY <2>3
  <2>6. SubSeq(events, 1, Len(got)) = SubSeq(got, 1, Len(got))
    <3>1. 1 \in 1 .. Len(got) /\ Len(got) \in 1 .. Len(got)
      BY <2>5
    <3> QED
      BY <2>1, <2>2, <3>1, SubSeqOfConcat1
  <2>7. SubSeq(got, 1, Len(got)) = got
    BY <2>1, SubSeqFull
  <2>8. SubSeq(got, 1, Len(got) - 1) = sofar
    <3>1. Len(got) - 1 = Len(sofar) /\ 1 \in Nat \ {0}
      BY <2>5
    <3>2. SubSeq(Append(sofar, e), 1, Len(sofar)) = SubSeq(sofar, 1, Len(sofar))
      BY <2>5, StoredStays
    <3>3. SubSeq(sofar, 1, Len(sofar)) = sofar
      BY SubSeqFull
    <3> QED
      BY <2>3, <3>1, <3>2, <3>3
  <2> QED
    BY <2>3, <2>4, <2>6, <2>7, <2>8 DEF E!Front, got
<1>3. ASSUME NEW s \in Streams, stream[s].pc = "live", ~stream[s].local
      PROVE  stream[s].got \o queue[s] =
               SubSeq(log, IF listedAt[s] > Keep THEN listedAt[s] - Keep + 1 ELSE 1, listedAt[s])
                 \o SubSeq(log, subscribedAt[s] + 1, Len(log))
  BY <1>3 DEF RemoteStream, Window
<1> QED
  BY <1>1, <1>2, <1>3 DEF E!LocalExact, E!RemoteGap


----------------------------------------------------------------------------
(* Remote control *)

HashStatuses == {"none", "running", "queued", "finished", "cancelled", "failed"}

ControlTypes ==
    /\ hash \in [org : BOOLEAN, status : HashStatuses] /\ registering \in BOOLEAN
    /\ graph \in [stage : {"new", "running", "over", "dead"},
                  paused : BOOLEAN, stepMode : BOOLEAN, cancelled : BOOLEAN]
    /\ held \in Seq(Actions) /\ commands \in Seq(Actions)
    /\ accepted \in Seq(Actions) /\ applied \in Seq(Actions)

\* The loop holds what it popped; before the run there is nothing, and what
\* the API of another replica accepts has no reader.
Held ==
    /\ loop \in {"off", "waiting"} => held = <<>>
    /\ loop = "popped" => \E action \in Actions : held = <<action>>
    /\ loop \in {"off", "waiting", "popped"}
Unstarted ==
    C!At("new") => /\ ~hash.org /\ ~registering /\ loop = "off"
                   /\ commands = <<>> /\ accepted = <<>> /\ applied = <<>>
Reached ==
    /\ place = "queued" => ~hash.org /\ ~registering /\ accepted = <<>>
    /\ place = "replicas" => loop = "off" /\ ~registering /\ commands = accepted
    /\ place = "wrapped" /\ ~C!At("dead") => applied \o held \o commands = accepted

ControlInv == ControlTypes /\ Held /\ Unstarted /\ Reached

\* Initially nothing is accepted.
LEMMA ControlInit == C!Init => ControlInv
<1> SUFFICES ASSUME C!Init PROVE ControlInv
  OBVIOUS
<1>1. <<>> \in Seq(Actions) /\ <<>> \o <<>> \o <<>> = <<>>
  OBVIOUS
<1> QED
  BY <1>1 DEF C!Init, C!At, ControlInv, ControlTypes, HashStatuses, Held, Unstarted, Reached

\* Steps that leave the commands alone.
LEMMA ControlQuiet ==
    ASSUME ControlInv, UNCHANGED <<place, loop, held, commands, accepted, applied>>,
           ControlTypes', ~C!At("new")', C!At("dead") => C!At("dead")',
           place = "queued" => ~hash'.org /\ ~registering',
           place = "replicas" => ~registering'
    PROVE  ControlInv'
  BY DEF ControlInv, Held, Unstarted, Reached

\* Heeding a command changes flags of the graph, never its stage.
LEMMA HeedTypes ==
    ASSUME ControlInv, NEW action
    PROVE  /\ C!Heed(graph, action) \in [stage : {"new", "running", "over", "dead"},
                  paused : BOOLEAN, stepMode : BOOLEAN, cancelled : BOOLEAN]
           /\ C!Heed(graph, action).stage = graph.stage
<1> USE DEF ControlInv, ControlTypes
<1>1. CASE action = "pause"
  BY <1>1 DEF C!Heed
<1>2. CASE action = "resume"
  BY <1>2 DEF C!Heed
<1>3. CASE action = "step"
  BY <1>3 DEF C!Heed
<1>4. CASE action = "cancel"
  BY <1>4 DEF C!Heed
<1>5. CASE action \notin {"pause", "resume", "step", "cancel"}
  BY <1>5 DEF C!Heed
<1> QED
  BY <1>1, <1>2, <1>3, <1>4, <1>5

\* Every step of the module keeps the invariant.
LEMMA ControlKept == ControlInv /\ [C!Next]_control => ControlInv'
<1> SUFFICES ASSUME ControlInv, [C!Next]_control PROVE ControlInv'
  OBVIOUS
<1> USE DEF ControlInv, ControlTypes, HashStatuses
<1>1. CASE C!Create
  <2>1. /\ hash' = [org |-> TRUE, status |-> "running"]
        /\ graph' = [graph EXCEPT !.stage = "running"]
        /\ UNCHANGED <<place, held, commands, accepted, applied>> /\ C!At("new")
        /\ place # "queued"
        /\ IF place = "wrapped" THEN registering' = TRUE /\ loop' = "waiting"
           ELSE UNCHANGED <<registering, loop>>
    BY <1>1 DEF C!Create
  <2>2. C!At("running")' /\ ~C!At("new")'
    BY <2>1 DEF C!At
  <2>3. ControlTypes'
    BY <2>1
  <2>4. held = <<>> /\ commands = <<>> /\ accepted = <<>> /\ applied = <<>> /\ loop = "off"
    BY <2>1 DEF Unstarted, Held
  <2>5. <<>> \o <<>> \o <<>> = <<>>
    OBVIOUS
  <2>6. Held'
    BY <2>1, <2>4 DEF Held
  <2>7. Unstarted'
    BY <2>2 DEF Unstarted
  <2>8. Reached'
    BY <2>1, <2>4, <2>5 DEF Reached, Unstarted
  <2> QED
    BY <2>3, <2>6, <2>7, <2>8
<1>2. CASE C!Claim
  <2>1. /\ place = "queued" /\ C!At("new") /\ loop' = "waiting"
        /\ graph' = [graph EXCEPT !.stage = "running"] /\ hash' = [hash EXCEPT !.status = "running"]
        /\ UNCHANGED <<place, registering, held, commands, accepted, applied>>
    BY <1>2 DEF C!Claim
  <2>2. ~C!At("new")' /\ ~C!At("dead")'
    BY <2>1 DEF C!At
  <2>3. ControlTypes' /\ ~hash'.org
    BY <2>1 DEF Unstarted
  <2>4. Held'
    BY <2>1 DEF Held, Unstarted
  <2> QED
    BY <2>1, <2>2, <2>3, <2>4 DEF Unstarted, Reached
<1>3. CASE C!Register
  <2>1. /\ registering /\ registering' = FALSE /\ hash' = [org |-> TRUE, status |-> "queued"]
        /\ UNCHANGED <<place, graph, loop, held, commands, accepted, applied>>
    BY <1>3 DEF C!Register
  <2>2. ~C!At("new")' /\ (C!At("dead") => C!At("dead")') /\ place # "queued"
    BY <2>1 DEF C!At, Unstarted, Reached
  <2> QED
    BY <2>1, <2>2, ControlQuiet
<1>4. CASE C!Pop
  <2>1. /\ loop = "waiting" /\ commands # <<>> /\ loop' = "popped"
        /\ held' = <<commands[1]>> /\ commands' = Tail(commands)
        /\ UNCHANGED <<place, hash, registering, graph, accepted, applied>>
    BY <1>4 DEF C!Pop
  <2>2. commands[1] \in Actions /\ Tail(commands) \in Seq(Actions)
        /\ commands = <<commands[1]>> \o Tail(commands)
    BY <2>1, HeadTailProperties
  <2>3. held = <<>>
    BY <2>1 DEF Held
  <2>4. applied \o <<>> = applied
    OBVIOUS
  <2>5. applied \o held' \o commands' = applied \o held \o commands
    BY <2>1, <2>2, <2>3, <2>4, ConcatAssociative
  <2>6. ~C!At("new") /\ (C!At("new")' <=> C!At("new")) /\ (C!At("dead")' <=> C!At("dead"))
    BY <2>1 DEF C!At, Unstarted
  <2>7. Held'
    BY <2>1, <2>2 DEF Held
  <2>8. Reached'
    BY <2>1, <2>5, <2>6 DEF Reached
  <2>9. held' \in Seq(Actions)
    BY <2>1, <2>2
  <2> QED
    BY <2>1, <2>2, <2>6, <2>7, <2>8, <2>9 DEF Unstarted
<1>5. CASE C!Handle
  <2>1. /\ loop = "popped" /\ loop' = "waiting" /\ held' = <<>>
        /\ graph' = C!Heed(graph, held[1]) /\ applied' = Append(applied, held[1])
        /\ UNCHANGED <<place, hash, registering, commands, accepted>>
    BY <1>5 DEF C!Handle
  <2>2. PICK action \in Actions : held = <<action>>
    BY <2>1 DEF Held
  <2>3. held[1] = action
    BY <2>2
  <2>4. applied' = applied \o held /\ applied' \in Seq(Actions)
    BY <2>1, <2>2, <2>3, AppendIsConcat
  <2>5. applied' \o <<>> = applied'
    BY <2>4
  <2>6. applied' \o held' \o commands' = applied \o held \o commands
    BY <2>1, <2>4, <2>5
  <2>7. graph' \in [stage : {"new", "running", "over", "dead"},
                  paused : BOOLEAN, stepMode : BOOLEAN, cancelled : BOOLEAN]
        /\ graph'.stage = graph.stage
    BY <2>1, HeedTypes
  <2>8. ~C!At("new") /\ ~C!At("new")' /\ (C!At("dead")' <=> C!At("dead"))
    BY <2>1, <2>7 DEF C!At, Unstarted
  <2>9. Held' /\ held' \in Seq(Actions)
    BY <2>1 DEF Held
  <2>10. Reached'
    BY <2>1, <2>6, <2>8 DEF Reached
  <2> QED
    BY <2>1, <2>4, <2>7, <2>8, <2>9, <2>10 DEF Unstarted
<1>6. CASE C!Boundary
  <2>1. /\ C!At("running") /\ graph' = [graph EXCEPT !.paused = TRUE, !.stepMode = FALSE]
        /\ UNCHANGED <<place, hash, registering, loop, held, commands, accepted, applied>>
    BY <1>6 DEF C!Boundary
  <2>2. ~C!At("new")' /\ ~C!At("dead") /\ ControlTypes'
    BY <2>1 DEF C!At
  <2> QED
    BY <2>1, <2>2, ControlQuiet DEF Reached
<1>7. CASE C!Finish \/ C!Raise
  <2>1. /\ C!At("running") /\ graph' = [graph EXCEPT !.stage = "over"]
        /\ hash'.org = hash.org /\ hash' \in [org : BOOLEAN, status : HashStatuses]
        /\ IF place = "queued" THEN loop' = "off" /\ held' = <<>> ELSE UNCHANGED <<loop, held>>
        /\ UNCHANGED <<place, registering, commands, accepted, applied>>
    BY <1>7 DEF C!Finish, C!Raise
  <2>2. ~C!At("new")' /\ ~C!At("dead")' /\ ~C!At("dead")
    BY <2>1 DEF C!At
  <2>3. ControlTypes'
    <3>1. <<>> \in Seq(Actions)
      OBVIOUS
    <3> QED
      BY <2>1, <3>1
  <2>4. Held'
    BY <2>1 DEF Held
  <2>5. Reached'
    BY <2>1, <2>2 DEF Reached
  <2> QED
    BY <2>2, <2>3, <2>4, <2>5 DEF Unstarted
<1>8. CASE C!Die
  <2>1. /\ ~C!At("new") /\ graph' = [graph EXCEPT !.stage = "dead"]
        /\ loop' = "off" /\ held' = <<>> /\ registering' = FALSE
        /\ UNCHANGED <<place, hash, commands, accepted, applied>>
    BY <1>8 DEF C!Die
  <2>2. C!At("dead")' /\ ~C!At("new")'
    BY <2>1 DEF C!At
  <2>3. ControlTypes'
    <3>1. <<>> \in Seq(Actions)
      OBVIOUS
    <3> QED
      BY <2>1, <3>1
  <2> QED
    BY <2>1, <2>2, <2>3 DEF Held, Unstarted, Reached
<1>9. ASSUME NEW action \in Actions, C!ControlLocal(action) PROVE ControlInv'
  <2>1. /\ C!Home /\ graph' = C!Heed(graph, action)
        /\ UNCHANGED <<place, hash, registering, loop, held, commands, accepted, applied>>
    BY <1>9 DEF C!ControlLocal
  <2>2. graph' \in [stage : {"new", "running", "over", "dead"},
                  paused : BOOLEAN, stepMode : BOOLEAN, cancelled : BOOLEAN]
        /\ graph'.stage = graph.stage
    BY <2>1, HeedTypes
  <2> QED
    BY <2>1, <2>2 DEF C!At, Held, Unstarted, Reached
<1>10. ASSUME NEW action \in Actions, C!ControlRemote(action) PROVE ControlInv'
  <2>1. /\ hash.org /\ commands' = Append(commands, action) /\ accepted' = Append(accepted, action)
        /\ UNCHANGED <<place, hash, registering, graph, loop, held, applied>>
    BY <1>10 DEF C!ControlRemote
  <2>2. commands' = commands \o <<action>> /\ accepted' = accepted \o <<action>>
        /\ commands' \in Seq(Actions) /\ accepted' \in Seq(Actions) /\ <<action>> \in Seq(Actions)
    BY <2>1, AppendIsConcat
  <2>3. applied \o held \in Seq(Actions)
    OBVIOUS
  <2>4. applied \o held \o commands' = (applied \o held \o commands) \o <<action>>
    BY <2>2, <2>3, ConcatAssociative
  <2>5. ~C!At("new") /\ ~C!At("new")' /\ (C!At("dead")' <=> C!At("dead")) /\ place # "queued"
    BY <2>1 DEF C!At, Unstarted, Reached
  <2>6. Reached'
    BY <2>1, <2>2, <2>4, <2>5 DEF Reached
  <2> QED
    BY <2>1, <2>2, <2>5, <2>6 DEF Held, Unstarted
<1>11. CASE UNCHANGED control
  BY <1>11 DEF control, C!At, Held, Unstarted, Reached
<1>12. CASE C!Next
  <2> HIDE DEF ControlInv
  <2> QED
    BY <1>1, <1>2, <1>3, <1>4, <1>5, <1>6, <1>7, <1>8, <1>9, <1>10, <1>12 DEF C!Next
<1> QED
  BY <1>11, <1>12

\* It says what InOrder does, of held commands too.
LEMMA ControlOrdered == ControlInv => C!InOrder
  BY DEF ControlInv, Reached, C!InOrder


----------------------------------------------------------------------------
(* Webhooks *)

UnderWay == {"post", "posted", "sleep", "dead"}
Letters == [sub : Subs, attempts : Nat]

HookTypes ==
    /\ maxRetries \in [Subs -> Nat]
    /\ delivery \in [Subs -> [stage : W!Stages, status : W!Statuses, attempts : Nat]]
    /\ saved \in [Subs -> [status : W!Statuses, attempts : Nat]]
    /\ loops \in [Subs -> Nat] /\ received \in [Subs -> Nat]
    /\ letters \subseteq Letters /\ replaying \subseteq letters

\* The loop of a delivery under way: its first iteration is free, and each one
\* is a post.
Looping(s) ==
    /\ delivery[s].stage = "none" => loops[s] = 0
    /\ delivery[s].stage \in UnderWay =>
          /\ loops[s] = 0 \/ (loops[s] = 1 /\ maxRetries[s] >= 1) \/ loops[s] < maxRetries[s]
          /\ delivery[s].attempts = IF delivery[s].stage = "post" THEN loops[s] ELSE loops[s] + 1
    /\ delivery[s].stage = "sleep" => W!MoreRetries(s)
    /\ delivery[s].stage = "dead" => delivery[s].attempts = W!Attempts(s)

\* What is said to be delivered was received.
Honest(s) ==
    /\ delivery[s].status = "delivered" => received[s] > 0
    /\ saved[s].status = "delivered" => received[s] > 0
    /\ delivery[s].stage = "done" =>
          delivery[s].status = "delivered" \/ [sub |-> s, attempts |-> W!Attempts(s)] \in letters

HooksInv ==
    /\ HookTypes
    /\ \A s \in Subs : Looping(s) /\ Honest(s)
    /\ \A letter \in letters : letter.attempts = W!Attempts(letter.sub)

\* Initially nothing is dispatched.
LEMMA HooksInit == W!Init => HooksInv
<1> SUFFICES ASSUME W!Init PROVE HooksInv
  OBVIOUS
<1> USE DEF W!Init, W!Delivery, W!Record
<1>1. HookTypes
  BY HooksAssumption DEF HookTypes, W!Stages, W!Statuses
<1>2. \A s \in Subs : Looping(s) /\ Honest(s)
  BY DEF Looping, Honest, UnderWay
<1> QED
  BY <1>1, <1>2 DEF HooksInv

\* A step of one delivery that keeps what the others go by.
LEMMA HookMoves ==
    ASSUME HooksInv, NEW s \in Subs,
           NEW d \in [stage : W!Stages, status : W!Statuses, attempts : Nat],
           delivery' = [delivery EXCEPT ![s] = d],
           saved' \in [Subs -> [status : W!Statuses, attempts : Nat]],
           loops' \in [Subs -> Nat], received' \in [Subs -> Nat],
           letters' \subseteq Letters, letters \subseteq letters',
           \A letter \in letters' : letter.attempts = W!Attempts(letter.sub),
           UNCHANGED <<maxRetries, replaying>>,
           \A x \in Subs : received[x] <= received'[x],
           \A x \in Subs \ {s} : loops'[x] = loops[x] /\ saved'[x] = saved[x],
           Looping(s)', Honest(s)'
    PROVE  HooksInv'
<1> USE DEF HooksInv, HookTypes
<1>1. HookTypes'
  OBVIOUS
<1>2. W!Attempts(s)' = W!Attempts(s) /\ \A x \in Subs : W!Attempts(x)' = W!Attempts(x)
  BY DEF W!Attempts
<1>3. ASSUME NEW x \in Subs, x # s PROVE Looping(x)' /\ Honest(x)'
  <2>1. /\ delivery'[x] = delivery[x] /\ loops'[x] = loops[x] /\ saved'[x] = saved[x]
        /\ received[x] \in Nat /\ received'[x] \in Nat /\ received[x] <= received'[x]
    BY <1>3
  <2>2. Looping(x) /\ Honest(x)
    OBVIOUS
  <2>3. Looping(x)'
    BY <2>1, <2>2, <1>2 DEF Looping, W!MoreRetries
  <2>4. Honest(x)'
    BY <2>1, <2>2, <1>2 DEF Honest
  <2> QED
    BY <2>3, <2>4
<1>4. \A letter \in letters' : letter.attempts = W!Attempts(letter.sub)'
  BY <1>2 DEF Letters
<1> QED
  BY <1>1, <1>3, <1>4

\* The same where nothing is received and no letter written.
LEMMA HookMovesOn ==
    ASSUME HooksInv, NEW s \in Subs,
           NEW d \in [stage : W!Stages, status : W!Statuses, attempts : Nat],
           delivery' = [delivery EXCEPT ![s] = d],
           saved' \in [Subs -> [status : W!Statuses, attempts : Nat]],
           loops' \in [Subs -> Nat],
           UNCHANGED <<maxRetries, letters, replaying, received>>,
           \A x \in Subs \ {s} : loops'[x] = loops[x] /\ saved'[x] = saved[x],
           Looping(s)', Honest(s)'
    PROVE  HooksInv'
<1>1. /\ received' \in [Subs -> Nat] /\ \A x \in Subs : received[x] <= received'[x]
      /\ letters' \subseteq Letters /\ \A letter \in letters' : letter.attempts = W!Attempts(letter.sub)
  BY DEF HooksInv, HookTypes
<1> QED
  BY <1>1, HookMoves

\* Posts under way when the loop ends: the full number.
LEMMA LoopEnds ==
    ASSUME NEW n \in Nat, NEW l \in Nat,
           l = 0 \/ (l = 1 /\ n >= 1) \/ l < n,
           ~(l < n /\ (l = 0 \/ l + 1 < n))
    PROVE  l + 1 = IF n = 0 THEN 1 ELSE IF n = 1 THEN 2 ELSE n
  OBVIOUS

\* What one coroutine does.
LEMMA HookWork ==
    ASSUME HooksInv, NEW s \in Subs, W!Work(s) \/ W!SaveRaises(s)
    PROVE  HooksInv'
<1> USE DEF HooksInv, HookTypes
<1>0. /\ delivery[s] \in [stage : W!Stages, status : W!Statuses, attempts : Nat]
      /\ loops[s] \in Nat /\ maxRetries[s] \in Nat /\ received[s] \in Nat
      /\ Looping(s) /\ Honest(s)
  OBVIOUS
<1>1. CASE W!Post(s)
  <2>1. PICK status \in {"delivered", "failed"} :
          /\ W!Answer(s, status)
          /\ delivery' = [delivery EXCEPT ![s] = W!Delivery("posted", status, delivery[s].attempts + 1)]
    BY <1>1 DEF W!Post
  <2>2. UNCHANGED <<maxRetries, saved, loops, letters, replaying>> /\ delivery[s].stage = "post"
    BY <1>1 DEF W!Post
  <2> DEFINE d == W!Delivery("posted", status, delivery[s].attempts + 1)
  <2>3. /\ d \in [stage : W!Stages, status : W!Statuses, attempts : Nat]
        /\ d.stage = "posted" /\ d.status = status /\ d.attempts = delivery[s].attempts + 1
    BY <1>0 DEF W!Delivery, W!Stages, W!Statuses
  <2>4. received' \in {received, [received EXCEPT ![s] = @ + 1]}
        /\ (status = "delivered" => received' = [received EXCEPT ![s] = @ + 1])
    BY <2>1 DEF W!Answer
  <2>5. /\ received' \in [Subs -> Nat] /\ \A x \in Subs : received[x] <= received'[x]
        /\ status = "delivered" => received'[s] > 0
    BY <2>4
  <2> HIDE DEF d
  <2>6. delivery'[s] = d
    BY <2>1 DEF d
  <2>7. Looping(s)'
    BY <1>0, <2>2, <2>3, <2>6 DEF Looping, UnderWay
  <2>8. Honest(s)'
    BY <1>0, <2>2, <2>3, <2>5, <2>6 DEF Honest
  <2> QED
    BY <2>1, <2>2, <2>3, <2>5, <2>7, <2>8, HookMoves DEF d
<1>2. CASE W!Saved(s)
  <2> DEFINE stage == IF delivery[s].status = "delivered" THEN "done"
                      ELSE IF W!MoreRetries(s) THEN "sleep" ELSE "dead"
             d == [delivery[s] EXCEPT !.stage = stage]
             e == W!Record(delivery[s].status, delivery[s].attempts)
  <2>1. /\ delivery' = [delivery EXCEPT ![s] = d] /\ delivery[s].stage = "posted"
        /\ saved' = [saved EXCEPT ![s] = e]
        /\ UNCHANGED <<maxRetries, loops, letters, replaying, received>>
    BY <1>0, <1>2 DEF W!Saved
  <2>2. /\ d \in [stage : W!Stages, status : W!Statuses, attempts : Nat]
        /\ d.stage = stage /\ d.status = delivery[s].status /\ d.attempts = delivery[s].attempts
    BY <1>0 DEF W!Stages
  <2>3. e \in [status : W!Statuses, attempts : Nat] /\ e.status = delivery[s].status
    BY <1>0 DEF W!Record
  <2>4. stage \in {"done", "sleep", "dead"} /\ (stage = "done" => delivery[s].status = "delivered")
        /\ (stage = "sleep" => W!MoreRetries(s)) /\ (stage = "dead" => ~W!MoreRetries(s))
    OBVIOUS
  <2>5. ASSUME stage = "dead" PROVE delivery[s].attempts = W!Attempts(s)
    <3>1. /\ loops[s] = 0 \/ (loops[s] = 1 /\ maxRetries[s] >= 1) \/ loops[s] < maxRetries[s]
          /\ delivery[s].attempts = loops[s] + 1
          /\ ~(loops[s] < maxRetries[s] /\ (loops[s] = 0 \/ delivery[s].attempts < maxRetries[s]))
      BY <1>0, <2>1, <2>4, <2>5 DEF Looping, UnderWay, W!MoreRetries
    <3>2. loops[s] + 1 = IF maxRetries[s] = 0 THEN 1 ELSE IF maxRetries[s] = 1 THEN 2 ELSE maxRetries[s]
      BY <1>0, <3>1, LoopEnds
    <3> QED
      BY <3>1, <3>2 DEF W!Attempts
  <2> HIDE DEF d, e, stage
  <2>6. delivery'[s] = d /\ saved'[s] = e
    BY <2>1
  <2>7. Looping(s)'
    BY <1>0, <2>1, <2>2, <2>4, <2>5, <2>6 DEF Looping, UnderWay, W!MoreRetries, W!Attempts
  <2>8. Honest(s)'
    BY <1>0, <2>1, <2>2, <2>3, <2>4, <2>6 DEF Honest
  <2>9. saved' \in [Subs -> [status : W!Statuses, attempts : Nat]]
    BY <2>1, <2>3
  <2>10. loops' \in [Subs -> Nat] /\ \A x \in Subs \ {s} : loops'[x] = loops[x] /\ saved'[x] = saved[x]
    BY <2>1
  <2> HIDE DEF HooksInv, HookTypes
  <2> QED
    BY <2>1, <2>2, <2>7, <2>8, <2>9, <2>10, HookMovesOn
<1>3. CASE W!Backoff(s)
  <2> DEFINE d == [delivery[s] EXCEPT !.stage = "post"]
  <2>1. /\ delivery' = [delivery EXCEPT ![s] = d] /\ delivery[s].stage = "sleep"
        /\ loops' = [loops EXCEPT ![s] = loops[s] + 1]
        /\ UNCHANGED <<maxRetries, saved, letters, replaying, received>>
    BY <1>0, <1>3 DEF W!Backoff
  <2>2. /\ d \in [stage : W!Stages, status : W!Statuses, attempts : Nat]
        /\ d.stage = "post" /\ d.status = delivery[s].status /\ d.attempts = delivery[s].attempts
    BY <1>0 DEF W!Stages
  <2> HIDE DEF d
  <2>3. delivery'[s] = d /\ loops'[s] = loops[s] + 1 /\ loops' \in [Subs -> Nat]
    BY <2>1
  <2>4. Looping(s)'
    BY <1>0, <2>1, <2>2, <2>3 DEF Looping, UnderWay, W!MoreRetries
  <2>5. Honest(s)'
    BY <1>0, <2>1, <2>2, <2>3 DEF Honest
  <2>6. /\ saved' \in [Subs -> [status : W!Statuses, attempts : Nat]]
        /\ \A x \in Subs \ {s} : loops'[x] = loops[x] /\ saved'[x] = saved[x]
    BY <2>1
  <2> HIDE DEF HooksInv, HookTypes
  <2> QED
    BY <2>1, <2>2, <2>3, <2>4, <2>5, <2>6, HookMovesOn
<1>4. CASE W!AppendDeadLetter(s)
  <2> DEFINE d == [delivery[s] EXCEPT !.stage = "done"]
             letter == [sub |-> s, attempts |-> delivery[s].attempts]
  <2>1. /\ delivery' = [delivery EXCEPT ![s] = d] /\ delivery[s].stage = "dead"
        /\ letters' = letters \cup {letter}
        /\ UNCHANGED <<maxRetries, saved, loops, replaying, received>>
    BY <1>0, <1>4 DEF W!AppendDeadLetter
  <2>2. /\ d \in [stage : W!Stages, status : W!Statuses, attempts : Nat]
        /\ d.stage = "done" /\ d.status = delivery[s].status /\ d.attempts = delivery[s].attempts
    BY <1>0 DEF W!Stages
  <2>3. delivery[s].attempts = W!Attempts(s)
    BY <1>0, <2>1 DEF Looping
  <2>4. letter \in Letters /\ letter.attempts = W!Attempts(letter.sub)
        /\ letter = [sub |-> s, attempts |-> W!Attempts(s)]
    BY <1>0, <2>3 DEF Letters
  <2> HIDE DEF d, letter
  <2>5. delivery'[s] = d
    BY <2>1
  <2>6. Looping(s)'
    BY <1>0, <2>1, <2>2, <2>5 DEF Looping, UnderWay
  <2>7. W!Attempts(s)' = W!Attempts(s)
    BY <2>1 DEF W!Attempts
  <2>8. Honest(s)'
    BY <1>0, <2>1, <2>2, <2>4, <2>5, <2>7 DEF Honest
  <2>9. /\ saved' \in [Subs -> [status : W!Statuses, attempts : Nat]] /\ loops' \in [Subs -> Nat]
        /\ \A x \in Subs \ {s} : loops'[x] = loops[x] /\ saved'[x] = saved[x]
        /\ received' \in [Subs -> Nat] /\ \A x \in Subs : received[x] <= received'[x]
        /\ letters' \subseteq Letters /\ letters \subseteq letters'
        /\ \A x \in letters' : x.attempts = W!Attempts(x.sub)
    BY <2>1, <2>4
  <2> HIDE DEF HooksInv, HookTypes
  <2> QED
    BY <2>1, <2>2, <2>6, <2>8, <2>9, HookMoves
<1>5. CASE W!SaveRaises(s)
  <2> DEFINE d == [delivery[s] EXCEPT !.stage = "raised", !.status = "failed"]
  <2>1. /\ delivery' = [delivery EXCEPT ![s] = d]
        /\ UNCHANGED <<maxRetries, saved, loops, letters, replaying, received>>
    BY <1>0, <1>5 DEF W!SaveRaises
  <2>2. /\ d \in [stage : W!Stages, status : W!Statuses, attempts : Nat]
        /\ d.stage = "raised" /\ d.status = "failed"
    BY <1>0 DEF W!Stages, W!Statuses
  <2> HIDE DEF d
  <2>3. delivery'[s] = d
    BY <2>1
  <2>4. Looping(s)' /\ Honest(s)'
    BY <1>0, <2>1, <2>2, <2>3 DEF Looping, Honest, UnderWay
  <2>5. /\ saved' \in [Subs -> [status : W!Statuses, attempts : Nat]] /\ loops' \in [Subs -> Nat]
        /\ \A x \in Subs \ {s} : loops'[x] = loops[x] /\ saved'[x] = saved[x]
    BY <2>1
  <2> HIDE DEF HooksInv, HookTypes
  <2> QED
    BY <2>1, <2>2, <2>4, <2>5, HookMovesOn
<1> QED
  BY <1>1, <1>2, <1>3, <1>4, <1>5 DEF W!Work

\* Every step of the module keeps the invariant.
LEMMA HooksKept == HooksInv /\ [W!Next]_hooks => HooksInv'
<1> SUFFICES ASSUME HooksInv, [W!Next]_hooks PROVE HooksInv'
  OBVIOUS
<1> USE DEF HooksInv, HookTypes
<1>1. CASE W!Dispatch
  <2> DEFINE d == W!Delivery("post", "pending", 0)
             e == W!Record("pending", 0)
  <2>1. /\ delivery' = [s \in Subs |-> IF s \in subscribed THEN d ELSE delivery[s]]
        /\ saved' = [s \in Subs |-> IF s \in subscribed THEN e ELSE saved[s]]
        /\ \A s \in Subs : delivery[s].stage = "none"
        /\ UNCHANGED <<maxRetries, loops, letters, replaying, received>>
    BY <1>1 DEF W!Dispatch
  <2>2. /\ d \in [stage : W!Stages, status : W!Statuses, attempts : Nat]
        /\ d.stage = "post" /\ d.status = "pending" /\ d.attempts = 0
        /\ e \in [status : W!Statuses, attempts : Nat] /\ e.status = "pending"
    BY DEF W!Delivery, W!Record, W!Stages, W!Statuses
  <2> HIDE DEF d, e
  <2>3. HookTypes'
    BY <2>1, <2>2
  <2>4. \A s \in Subs : W!Attempts(s)' = W!Attempts(s)
    BY <2>1 DEF W!Attempts
  <2>5. ASSUME NEW s \in Subs PROVE Looping(s)' /\ Honest(s)'
    <3>1. Looping(s) /\ Honest(s) /\ loops[s] = 0
      BY <2>1 DEF Looping
    <3>2. CASE s \in subscribed
      BY <2>1, <2>2, <3>1, <3>2 DEF Looping, Honest, UnderWay
    <3>3. CASE s \notin subscribed
      <4>1. delivery'[s] = delivery[s] /\ saved'[s] = saved[s]
        BY <2>1, <3>3
      <4> QED
        BY <2>1, <2>4, <3>1, <4>1 DEF Looping, Honest, UnderWay
    <3> QED
      BY <3>2, <3>3
  <2> QED
    BY <2>1, <2>3, <2>4, <2>5 DEF Letters
<1>2. CASE W!ReplayDeadLetters
  <2>1. /\ UNCHANGED <<maxRetries, delivery, saved, loops, letters, received>>
        /\ replaying' = letters
    BY <1>2 DEF W!ReplayDeadLetters
  <2> QED
    BY <2>1 DEF Looping, Honest, W!MoreRetries, W!Attempts
<1>3. CASE W!Die
  <2>1. /\ UNCHANGED <<maxRetries, saved, loops, letters, received>> /\ replaying' = {}
        /\ delivery' = [s \in Subs |-> IF delivery[s].stage \in {"none", "done", "raised", "lost"}
                                       THEN delivery[s] ELSE [delivery[s] EXCEPT !.stage = "lost"]]
    BY <1>3 DEF W!Die
  <2>2. HookTypes'
    BY <2>1 DEF W!Stages
  <2>3. \A s \in Subs : W!Attempts(s)' = W!Attempts(s)
    BY <2>1 DEF W!Attempts
  <2>4. ASSUME NEW s \in Subs PROVE Looping(s)' /\ Honest(s)'
    <3>1. \/ delivery'[s] = delivery[s] /\ delivery[s].stage \in {"none", "done", "raised", "lost"}
          \/ delivery'[s].stage = "lost" /\ delivery'[s].status = delivery[s].status
      BY <2>1
    <3>2. Looping(s) /\ Honest(s)
      OBVIOUS
    <3> QED
      BY <2>1, <2>3, <3>1, <3>2 DEF Looping, Honest, UnderWay
  <2> QED
    BY <2>1, <2>2, <2>3, <2>4 DEF Letters
<1>4. ASSUME NEW s \in Subs, W!Work(s) \/ W!SaveRaises(s) PROVE HooksInv'
  BY <1>4, HookWork
<1>5. ASSUME NEW s \in Subs, W!Unregister(s) PROVE HooksInv'
  BY <1>5 DEF W!Unregister, Looping, Honest, W!MoreRetries, W!Attempts
<1>6. ASSUME NEW letter \in replaying, W!ReplayOne(letter) PROVE HooksInv'
  <2> DEFINE s == letter.sub
  <2>1. /\ UNCHANGED <<maxRetries, delivery, loops, letters>> /\ replaying' \subseteq letters
        /\ s \in Subs /\ letter.attempts \in Nat
    BY <1>6 DEF W!ReplayOne, Letters
  <2>2. /\ saved' \in [Subs -> [status : W!Statuses, attempts : Nat]] /\ received' \in [Subs -> Nat]
        /\ \A x \in Subs : /\ received[x] <= received'[x]
                           /\ saved'[x].status = "delivered" =>
                                 saved[x].status = "delivered" \/ received'[x] > 0
    <3>1. CASE s \notin subscribed
      BY <1>6, <3>1 DEF W!ReplayOne
    <3>2. CASE s \in subscribed
      <4>1. PICK status \in {"delivered", "failed"} :
              W!Answer(s, status) /\ saved' = [saved EXCEPT ![s] = W!Record(status, letter.attempts + 1)]
        BY <1>6, <3>2 DEF W!ReplayOne
      <4> DEFINE e == W!Record(status, letter.attempts + 1)
      <4>2. e \in [status : W!Statuses, attempts : Nat] /\ e.status = status
        BY <2>1 DEF W!Record, W!Statuses
      <4> HIDE DEF e
      <4>3. saved' = [saved EXCEPT ![s] = e]
        BY <4>1 DEF e
      <4>4. /\ received' \in {received, [received EXCEPT ![s] = @ + 1]}
            /\ status = "delivered" => received' = [received EXCEPT ![s] = @ + 1]
        BY <4>1 DEF W!Answer
      <4> HIDE DEF s
      <4>5. /\ received' \in [Subs -> Nat] /\ \A x \in Subs : received[x] <= received'[x]
            /\ status = "delivered" => received'[s] > 0
        <5>1. s \in Subs /\ received[s] \in Nat /\ received \in [Subs -> Nat]
          BY <2>1
        <5>2. CASE received' = received /\ status # "delivered"
          BY <5>2
        <5>3. CASE received' = [received EXCEPT ![s] = @ + 1]
          BY <5>1, <5>3
        <5> QED
          BY <4>4, <5>2, <5>3
      <4>6. saved' \in [Subs -> [status : W!Statuses, attempts : Nat]]
        BY <4>2, <4>3
      <4> QED
        BY <2>1, <4>2, <4>3, <4>5, <4>6
    <3> QED
      BY <3>1, <3>2
  <2>3. HookTypes'
    BY <2>1, <2>2
  <2>4. \A x \in Subs : W!Attempts(x)' = W!Attempts(x)
    BY <2>1 DEF W!Attempts
  <2>5. ASSUME NEW x \in Subs PROVE Looping(x)' /\ Honest(x)'
    <3>1. Looping(x) /\ Honest(x) /\ received[x] \in Nat /\ received'[x] \in Nat
      BY <2>2
    <3>2. Looping(x)'
      BY <2>1, <2>4, <3>1 DEF Looping, W!MoreRetries
    <3> QED
      BY <2>1, <2>2, <2>4, <3>1, <3>2 DEF Honest
  <2> QED
    BY <2>1, <2>3, <2>4, <2>5 DEF Letters
<1>7. CASE UNCHANGED hooks
  BY <1>7 DEF hooks, Looping, Honest, W!MoreRetries, W!Attempts
<1>8. CASE W!Next
  <2> HIDE DEF HooksInv, HookTypes
  <2> QED
    BY <1>1, <1>2, <1>3, <1>4, <1>5, <1>6, <1>8 DEF W!Next
<1> QED
  BY <1>7, <1>8

\* It says what Settled does.
LEMMA HooksSettled == HooksInv => W!Settled
  BY DEF HooksInv, HookTypes, Honest, W!Settled

----------------------------------------------------------------------------
(* The parts together: each moves as its module says, or not at all *)

\* The parts start as their modules say.
LEMMA ApiStarts ==
    ApiInit => Init /\ StreamInv /\ ControlInv /\ HooksInv
  BY StreamInit, ControlInit, HooksInit DEF ApiInit

\* A step of the process is a step of one of them, and the others stutter.
LEMMA ApiMoves ==
    [ApiNext]_<<part, vars, streaming, control, hooks>>
      => [Next]_vars /\ [E!Next]_streaming /\ [C!Next]_control /\ [W!Next]_hooks
  BY DEF ApiNext, AdmittingStep, StreamingStep, ControlStep, HooksStep

\* The requests of an API process and the runs it charges are those of
\* UsageMetering, whatever its streams, commands and deliveries do.
THEOREM ApiAdmits == ApiSpec => Spec
<1>1. ApiInit => Init
  BY ApiStarts
<1>2. [ApiNext]_<<part, vars, streaming, control, hooks>> => [Next]_vars
  BY ApiMoves
<1> QED
  BY <1>1, <1>2, PTL DEF ApiSpec, Spec

\* create_run: the API that executes runs itself answers a request whose key
\* was answered with a run with that run, or that of a request it overlapped.
THEOREM ApiRepeatsAnswers ==
    ASSUME ~Durable PROVE ApiSpec => RetryGetsExisting
  BY ApiAdmits, RepeatedRequestGetsItsRun

\* evaluate_quota: it admits no run beyond the quota, where it is alone on its
\* ledger.
THEOREM ApiEnforcesQuota ==
    ASSUME ~Durable, \A a, b \in Apis : a = b PROVE ApiSpec => QuotaEnforced
  BY ApiAdmits, QuotaIsEnforced

\* stream_run_events: a local stream shows every event once and in order up to
\* the final one, and a remote one lacks only what was trimmed or published
\* between its listing and its subscription.
THEOREM StreamsStayFaithful == ApiSpec => []StreamsFaithful
<1>1. ApiInit => StreamInv
  BY ApiStarts
<1>2. StreamInv /\ [ApiNext]_<<part, vars, streaming, control, hooks>> => StreamInv'
  BY ApiMoves, StreamKept
<1>3. StreamInv => StreamsFaithful
  BY StreamsAreFaithful DEF StreamsFaithful
<1> QED
  BY <1>1, <1>2, <1>3, PTL DEF ApiSpec

\* control_run: what a graph applies, holds and has still to read are the
\* accepted commands in their order; a worker's run accepts none, and a
\* replica's never reads them.
THEOREM CommandsStayInOrder == ApiSpec => []CommandsInOrder
<1>1. ApiInit => ControlInv
  BY ApiStarts
<1>2. ControlInv /\ [ApiNext]_<<part, vars, streaming, control, hooks>> => ControlInv'
  BY ApiMoves, ControlKept
<1>3. ControlInv => CommandsInOrder
  BY ControlOrdered DEF CommandsInOrder
<1> QED
  BY <1>1, <1>2, <1>3, PTL DEF ApiSpec

\* WebhookEngine: a delivery that is finished was received or is a dead letter
\* after the full number of posts, and a file that says delivered is right.
THEOREM DeliveriesAreAccounted == ApiSpec => []DeliveriesAccounted
<1>1. ApiInit => HooksInv
  BY ApiStarts
<1>2. HooksInv /\ [ApiNext]_<<part, vars, streaming, control, hooks>> => HooksInv'
  BY ApiMoves, HooksKept
<1>3. HooksInv => DeliveriesAccounted
  BY HooksSettled DEF DeliveriesAccounted
<1> QED
  BY <1>1, <1>2, <1>3, PTL DEF ApiSpec

\* ApiFaithful: the three together.
THEOREM ApiStaysFaithful == ApiSpec => []ApiFaithful
  BY StreamsStayFaithful, CommandsStayInOrder, DeliveriesAreAccounted, PTL DEF ApiFaithful
=============================================================================
