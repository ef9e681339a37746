-------------------------- MODULE RunEffectsProofs --------------------------
(***************************************************************************)
(* What a run does with evidence, machines, checkpoints, prompts, tests,   *)
(* the working tree and models, for every value of the constants: a        *)
(* section for each, with the invariant its property rests on, and a       *)
(* theorem about the whole.  A component keeps its promise in RunEffects   *)
(* because every step there is one of its own or leaves its variables be.  *)
(***************************************************************************)
EXTENDS RunEffects, DataInduction, FiniteSetTheorems, WellFoundedInduction, SequenceTheorems, TLAPS

----------------------------------------------------------------------------
(* The evidence chain of a worker that has a directory of its own *)

\* The theorems of EvidenceChain, for a directory with a single exporter.
Proved == INSTANCE EvidenceChainProofs WITH
        Exporters <- {SoloExporter}, Runs <- SoloRuns, MaxExports <- SoloExports,
        MaxCrashes <- SoloCrashes,
        chainFile <- soloChain, tmpFile <- soloTmp, content <- soloContent,
        evidence <- soloEvidence, exported <- soloExported, pc <- soloPc, bundle <- soloBundle,
        entry <- soloEntry, chain <- soloLinked, fd <- soloFd, exports <- soloExports,
        crashes <- soloCrashes

\* Both instances are of one module.
LEMMA OneIsProved ==
    /\ One!Init <=> Proved!Init
    /\ One!Next <=> Proved!Next
    /\ One!vars = Proved!vars /\ One!vars' = Proved!vars'
    /\ One!EvidenceSealed <=> Proved!EvidenceSealed
  <1>1. One!Init <=> Proved!Init
    BY DEF One!Init, One!NoEntry, One!Genesis, Proved!Init, Proved!NoEntry, Proved!Genesis
  <1>2. One!Next <=> Proved!Next
    BY DEF One!Next, One!LoadAndLink, One!LoadAndReuse, One!OpenTmp, One!WriteTmp, One!Rename,
           One!Seal, One!Rewrite, One!Crash, One!At, One!Goto, One!Called, One!Loaded, One!Decode,
           One!Has, One!NewEntry, One!LastHash, One!Genesis, One!ChainHash, One!Document, One!files,
           One!locals, Proved!Next, Proved!LoadAndLink, Proved!LoadAndReuse, Proved!OpenTmp,
           Proved!WriteTmp, Proved!Rename, Proved!Seal, Proved!Rewrite, Proved!Crash, Proved!At,
           Proved!Goto, Proved!Called, Proved!Loaded, Proved!Decode, Proved!Has, Proved!NewEntry,
           Proved!LastHash, Proved!Genesis, Proved!ChainHash, Proved!Document, Proved!files,
           Proved!locals
  <1>3. One!vars = Proved!vars /\ One!vars' = Proved!vars'
    BY DEF One!vars, One!files, One!locals, Proved!vars, Proved!files, Proved!locals
  <1>4. One!EvidenceSealed <=> Proved!EvidenceSealed
    BY DEF One!EvidenceSealed, One!Loaded, One!Decode, One!Has, Proved!EvidenceSealed, Proved!Loaded,
           Proved!Decode, Proved!Has
  <1>. QED
    BY <1>1, <1>2, <1>3, <1>4

\* What EvidenceChain assumes of its constants holds of those of this worker.
LEMMA SoloAssumed ==
    /\ SoloExports \in Nat /\ SoloCrashes \in Nat
    /\ NoFile \notin Inodes /\ Torn \notin Seq(Proved!Entries)
  BY SoloAssumption, NoFileAssumption
  DEF One!Entries, One!Payloads, One!Hashes, Proved!Entries, Proved!Payloads, Proved!Hashes

\* SoloEvidenceSealed: with one worker, whenever it dies, the evidence of a run
\* it exported names an entry that the chain file holds
\* (EvidenceBundler.export_bundle, _save_chain).
THEOREM SoloEvidenceIsSealed == RunEffectsSpec => []SoloEvidenceSealed
  <1>1. RunEffectsInit => Proved!SoloInv(SoloExporter)
    <2>1. Proved!Init => Proved!SoloInv(SoloExporter)
      BY Proved!SoloInit, SoloAssumed
    <2>. QED
      BY <2>1, OneIsProved DEF RunEffectsInit
  <1>2. [RunEffectsNext]_runEffects => [Proved!Next]_Proved!vars
    <2>1. [RunEffectsNext]_runEffects => [One!Next]_One!vars
      BY DEF RunEffectsNext, SharedStep, SoloStep, RoutingStep, ContextStep, RepositoryStep,
             CheckpointsStep, CliStep, MergedStep, VerificationStep, VmsStep, runEffects, solo,
             One!vars, One!files, One!locals
    <2>. QED
      BY <2>1, OneIsProved
  <1>3. Proved!SoloInv(SoloExporter) /\ [Proved!Next]_Proved!vars => Proved!SoloInv(SoloExporter)'
    BY Proved!SoloStep, SoloAssumed
  <1>4. Proved!SoloInv(SoloExporter) => SoloEvidenceSealed
    BY OneIsProved
    DEF Proved!SoloInv, Proved!Kept, Proved!EvidenceSealed, Proved!InLoaded, SoloEvidenceSealed
  <1>. QED
    BY <1>1, <1>2, <1>3, <1>4, PTL DEF RunEffectsSpec

----------------------------------------------------------------------------
(* Machines (MicroVM) *)

\* What a call of /recover is at.
Calls == [todo : SUBSET Vms, vm : Vms \cup {M!Nobody},
          at : {"list", "read", "kill", "empty", "rmdir"}, pid : BOOLEAN]

VmTyped ==
    /\ vmStage \in [Vms -> M!Stages] /\ directory \in [Vms -> M!Directories]
    /\ machines \subseteq Vms /\ unrecorded \subseteq Vms /\ overlooked \subseteq Vms
    /\ sweep \in [Sweeps -> Calls]

\* A request that has not started its process, or has destroyed it, has none;
\* one that is starting has no pid in its directory yet; and a machine has its
\* pid there unless it is not written yet, or was removed unread.
Steps(v) ==
    /\ vmStage[v] \in {"new", "copy", "spawn", "remove", "clean", "save", "ok"} => v \notin machines
    /\ vmStage[v] \in {"new", "copy", "spawn", "record"} => directory[v] # "pid"
    /\ vmStage[v] = "record" => v \in unrecorded
    /\ v \in machines => directory[v] = "pid" \/ v \in unrecorded \/ v \in overlooked

\* A call that read a pid is past the start of that machine, and has killed it
\* before it removes its directory.
Swept(s) ==
    /\ sweep[s].at \in {"kill", "empty", "rmdir"} => sweep[s].vm \in Vms
    /\ sweep[s].at = "kill" => sweep[s].pid
    /\ sweep[s].pid /\ sweep[s].vm \in Vms =>
          vmStage[sweep[s].vm] \notin {"new", "copy", "spawn", "record"}
    /\ sweep[s].at = "empty" /\ sweep[s].pid => sweep[s].vm \notin machines

VmInv == VmTyped /\ (\A v \in Vms : Steps(v)) /\ (\A s \in Sweeps : Swept(s))

----------------------------------------------------------------------------
\* The initial states.
LEMMA VmInit == M!Init => VmInv
  <1> SUFFICES ASSUME M!Init PROVE VmInv
    OBVIOUS
  <1>1. M!Resting \in Calls /\ M!Resting.at = "list" /\ ~M!Resting.pid
    BY DEF M!Resting, Calls
  <1>2. VmTyped
    BY <1>1 DEF M!Init, VmTyped, M!Stages, M!Directories
  <1>3. \A v \in Vms : Steps(v)
    BY DEF M!Init, Steps
  <1>4. \A s \in Sweeps : Swept(s)
    BY <1>1 DEF M!Init, Swept
  <1> QED
    BY <1>2, <1>3, <1>4 DEF VmInv

\* What a step does to one machine, while no call of /recover moves: the stage
\* does not go back, and its process is not started.
LEMMA SweepsStand ==
    ASSUME VmInv, sweep' = sweep, machines' \subseteq Vms,
           \A v \in Vms :
              /\ vmStage'[v] \in {"new", "copy", "spawn", "record"}
                    => vmStage[v] \in {"new", "copy", "spawn", "record"}
              /\ v \in machines' => v \in machines \/ vmStage[v] \in {"new", "copy", "spawn", "record"}
    PROVE  \A s \in Sweeps : Swept(s)'
  <1> SUFFICES ASSUME NEW s \in Sweeps PROVE Swept(s)'
    OBVIOUS
  <1>1. Swept(s) /\ sweep'[s] = sweep[s]
    BY DEF VmInv
  <1> QED
    BY <1>1 DEF Swept

\* The steps of one request: only its own stage, directory and process change
\* (FirecrackerVM.start, exec, destroy).
LEMMA RequestKept ==
    ASSUME VmInv, NEW v \in Vms,
           \/ M!MakeDirectory(v) \/ M!Copy(v) \/ M!Spawn(v) \/ M!RecordPid(v) \/ M!StartRaises(v)
           \/ M!Proceed(v) \/ M!Fails(v) \/ M!Destroy(v) \/ M!RemoveDirectory(v) \/ M!SaveEvidence(v)
    PROVE  VmInv'
  <1> DEFINE own == \A u \in Vms : u # v =>
                /\ vmStage'[u] = vmStage[u] /\ directory'[u] = directory[u]
                /\ (u \in machines' <=> u \in machines) /\ (u \in unrecorded' <=> u \in unrecorded)
  <1>0. own /\ VmTyped' /\ overlooked' = overlooked /\ sweep' = sweep
        /\ Steps(v)'
        /\ (vmStage'[v] \in {"new", "copy", "spawn", "record"}
                => vmStage[v] \in {"new", "copy", "spawn", "record"})
        /\ (v \in machines' => v \in machines \/ vmStage[v] \in {"new", "copy", "spawn", "record"})
    <2>0. Steps(v) /\ VmTyped
      BY DEF VmInv
    <2> USE DEF VmTyped, M!Stages, M!Directories, M!Goes, Steps
    <2>1. CASE M!MakeDirectory(v)
      BY <2>0, <2>1 DEF M!MakeDirectory
    <2>2. CASE M!Copy(v)
      BY <2>0, <2>2 DEF M!Copy
    <2>3. CASE M!Spawn(v)
      BY <2>0, <2>3 DEF M!Spawn
    <2>4. CASE M!RecordPid(v)
      BY <2>0, <2>4 DEF M!RecordPid
    <2>5. CASE M!StartRaises(v)
      <3>1. /\ vmStage[v] \in {"copy", "spawn", "record"} /\ vmStage' = [vmStage EXCEPT ![v] = "error"]
            /\ UNCHANGED <<machines, unrecorded, sweep, overlooked>>
        BY <2>5 DEF M!StartRaises
      <3>2. /\ directory' \in [Vms -> M!Directories]
            /\ \A u \in Vms : u # v => directory'[u] = directory[u]
            /\ directory'[v] = directory[v] \/ (directory'[v] = "empty" /\ vmStage[v] = "record")
        <4>0. directory \in [Vms -> M!Directories]
          BY <2>0
        <4>1. CASE directory' = directory
          BY <4>0, <4>1
        <4>2. CASE M!HalfWritten({v})
          <5>1. PICK torn \in SUBSET {u \in {v} : vmStage[u] = "record" /\ directory[u] = "nopid"} :
                   directory' = [u \in Vms |-> IF u \in torn THEN "empty" ELSE directory[u]]
            BY <4>2 DEF M!HalfWritten
          <5>2. \A u \in Vms : directory'[u] = IF u \in torn THEN "empty" ELSE directory[u]
            BY <5>1
          <5>3. \A u \in torn : u = v /\ vmStage[v] = "record"
            BY <5>1
          <5>4. directory' \in [Vms -> M!Directories]
            BY <4>0, <5>1
          <5> QED
            BY <5>2, <5>3, <5>4
        <4> QED
          BY <2>5, <4>1, <4>2 DEF M!StartRaises
      <3> QED
        BY <2>0, <3>1, <3>2
    <2>6. CASE M!Proceed(v)
      BY <2>0, <2>6 DEF M!Proceed
    <2>7. CASE M!Fails(v)
      BY <2>0, <2>7 DEF M!Fails
    <2>8. CASE M!Destroy(v)
      BY <2>0, <2>8 DEF M!Destroy
    <2>9. CASE M!RemoveDirectory(v)
      BY <2>0, <2>9 DEF M!RemoveDirectory
    <2>10. CASE M!SaveEvidence(v)
      BY <2>0, <2>10 DEF M!SaveEvidence
    <2> QED
      BY <2>1, <2>2, <2>3, <2>4, <2>5, <2>6, <2>7, <2>8, <2>9, <2>10
  <1> HIDE DEF own
  <1>1. \A u \in Vms : Steps(u)'
    BY <1>0 DEF own, VmInv, Steps
  <1>2. \A s \in Sweeps : Swept(s)'
    BY <1>0, SweepsStand DEF own, VmTyped
  <1> QED
    BY <1>0, <1>1, <1>2 DEF VmInv

\* A call of /recover that is done with a directory reads another or rests.
LEMMA LeavesTyped ==
    ASSUME VmTyped, NEW s \in Sweeps, NEW v
    PROVE  M!Leaves(s, v) \in Calls /\ M!Leaves(s, v).at \in {"list", "read"} /\ ~M!Leaves(s, v).pid
  <1>1. sweep[s] \in Calls
    BY DEF VmTyped
  <1>2. M!Resting \in Calls /\ M!Resting.at = "list" /\ ~M!Resting.pid
    BY DEF M!Resting, Calls
  <1>3. sweep[s].todo \ {v} \subseteq Vms
    BY <1>1 DEF Calls
  <1>4. CASE sweep[s].todo \subseteq {v}
    BY <1>2, <1>4 DEF M!Leaves
  <1>5. CASE ~(sweep[s].todo \subseteq {v})
    <2> DEFINE rest == [todo |-> sweep[s].todo \ {v}, vm |-> M!Nobody, at |-> "read", pid |-> FALSE]
    <2>1. rest \in Calls /\ rest.at = "read" /\ ~rest.pid
      BY <1>3 DEF Calls
    <2>2. M!Leaves(s, v) = rest
      BY <1>5 DEF M!Leaves
    <2> QED
      BY <2>1, <2>2
  <1> QED
    BY <1>4, <1>5

\* A step of one call: the others stand, and what they read stays true of
\* machines that only come to an end.
LEMMA OneSweeps ==
    ASSUME VmInv, NEW s \in Sweeps, NEW e \in Calls, sweep' = [sweep EXCEPT ![s] = e],
           vmStage' = vmStage, machines' \subseteq machines,
           e.at \in {"kill", "empty", "rmdir"} => e.vm \in Vms,
           e.at = "kill" => e.pid,
           e.pid /\ e.vm \in Vms => vmStage[e.vm] \notin {"new", "copy", "spawn", "record"},
           e.at = "empty" /\ e.pid => e.vm \notin machines'
    PROVE  sweep' \in [Sweeps -> Calls] /\ \A t \in Sweeps : Swept(t)'
  <1>1. sweep \in [Sweeps -> Calls]
    BY DEF VmInv, VmTyped
  <1>2. sweep' \in [Sweeps -> Calls] /\ \A t \in Sweeps : sweep'[t] = IF t = s THEN e ELSE sweep[t]
    BY <1>1
  <1>3. ASSUME NEW t \in Sweeps PROVE Swept(t)'
    <2>1. CASE t = s
      BY <1>2, <2>1 DEF Swept
    <2>2. CASE t # s
      <3>1. Swept(t) /\ sweep'[t] = sweep[t]
        BY <1>2, <2>2 DEF VmInv
      <3> QED
        BY <3>1 DEF Swept
    <2> QED
      BY <2>1, <2>2
  <1> QED
    BY <1>2, <1>3

\* The steps of /recover (reconcile_runtime).
LEMMA RecoveryKept ==
    ASSUME VmInv, NEW s \in Sweeps, M!Recover(s)
    PROVE  VmInv'
  <1> DEFINE c == sweep[s]
  <1>0. /\ c \in Calls /\ VmTyped /\ Swept(s) /\ \A v \in Vms : Steps(v)
        /\ sweep \in [Sweeps -> Calls]
    BY DEF VmInv, VmTyped
  <1> DEFINE Stand == UNCHANGED <<vmStage, directory, machines, unrecorded, overlooked>>
  <1>1. ASSUME NEW e \in Calls, sweep' = [sweep EXCEPT ![s] = e], Stand,
               e.at \in {"kill", "empty", "rmdir"} => e.vm \in Vms,
               e.at = "kill" => e.pid,
               e.pid /\ e.vm \in Vms => vmStage[e.vm] \notin {"new", "copy", "spawn", "record"},
               e.at = "empty" /\ e.pid => e.vm \notin machines
        PROVE  VmInv'
    <2>1. sweep' \in [Sweeps -> Calls] /\ \A t \in Sweeps : Swept(t)'
      BY <1>1, OneSweeps
    <2> QED
      BY <1>0, <1>1, <2>1 DEF VmInv, VmTyped, Steps
  <1>2. CASE M!List(s)
    <2>1. PICK found \in SUBSET Vms : sweep' = [sweep EXCEPT ![s] = [c EXCEPT !.todo = found, !.at = "read"]]
      BY <1>0, <1>2 DEF M!List
    <2>2. c = M!Resting /\ Stand
      BY <1>2 DEF M!List, M!machine
    <2> DEFINE e == [c EXCEPT !.todo = found, !.at = "read"]
    <2>3. e \in Calls /\ e.at = "read" /\ e.pid = c.pid
      BY <1>0 DEF Calls
    <2>4. c.pid = FALSE
      BY <2>2 DEF M!Resting
    <2> HIDE DEF e, c
    <2> QED
      BY <1>1, <2>1, <2>2, <2>3, <2>4 DEF e
  <1>3. ASSUME NEW v \in Vms, M!Read(s, v) PROVE VmInv'
    <2> DEFINE found == directory[v] = "pid"
               e == [c EXCEPT !.vm = v, !.pid = found, !.at = IF found THEN "kill" ELSE "empty"]
    <2>1. sweep' = [sweep EXCEPT ![s] = e] /\ Stand
      BY <1>0, <1>3 DEF M!Read, M!machine
    <2>2. e \in Calls /\ e.vm = v /\ e.at = (IF found THEN "kill" ELSE "empty") /\ e.pid = found
      BY <1>0 DEF Calls
    <2>3. found => vmStage[v] \notin {"new", "copy", "spawn", "record"}
      BY <1>0 DEF Steps
    <2> HIDE DEF e, found
    <2> QED
      BY <1>1, <2>1, <2>2, <2>3
  <1>4. ASSUME NEW v, sweep' = [sweep EXCEPT ![s] = M!Leaves(s, v)], Stand PROVE VmInv'
    <2>1. /\ M!Leaves(s, v) \in Calls /\ M!Leaves(s, v).at \in {"list", "read"}
          /\ ~M!Leaves(s, v).pid
      BY <1>0, LeavesTyped
    <2> QED
      BY <1>1, <1>4, <2>1
  <1>5. ASSUME NEW v \in Vms, M!PassOver(s, v) PROVE VmInv'
    BY <1>4, <1>5 DEF M!PassOver, M!machine
  <1>6. CASE M!Kill(s)
    <2> DEFINE e == [c EXCEPT !.at = "empty"]
    <2>1. /\ sweep' = [sweep EXCEPT ![s] = e] /\ c.at = "kill" /\ machines' = machines \ {c.vm}
          /\ UNCHANGED <<vmStage, directory, unrecorded, overlooked>>
      BY <1>0, <1>6 DEF M!Kill
    <2>2. e \in Calls /\ e.at = "empty" /\ e.vm = c.vm /\ e.pid = c.pid /\ c.vm \in Vms
      BY <1>0, <2>1 DEF Calls, Swept
    <2> HIDE DEF e
    <2>3. sweep' \in [Sweeps -> Calls] /\ \A t \in Sweeps : Swept(t)'
      BY <1>0, <2>1, <2>2, OneSweeps DEF Swept
    <2> QED
      BY <1>0, <2>1, <2>3 DEF VmInv, VmTyped, Steps
  <1>7. CASE M!KeepForeign(s)
    BY <1>4, <1>7 DEF M!KeepForeign, M!machine
  <1>8. CASE M!Empty(s)
    <2> DEFINE e == [c EXCEPT !.at = "rmdir"]
               v == c.vm
    <2>1. /\ sweep' = [sweep EXCEPT ![s] = e] /\ c.at = "empty"
          /\ directory' = [directory EXCEPT ![v] = IF directory[v] = "none" THEN directory[v] ELSE "empty"]
          /\ overlooked' = IF c.pid THEN overlooked ELSE overlooked \cup {v}
          /\ UNCHANGED <<vmStage, machines, unrecorded>>
      BY <1>0, <1>8 DEF M!Empty, M!machine
    <2>2. /\ e \in Calls /\ e.at = "rmdir" /\ e.vm = v /\ e.pid = c.pid /\ v \in Vms
          /\ c.pid => v \notin machines
      BY <1>0, <2>1 DEF Calls, Swept
    <2> HIDE DEF e, v
    <2>3. sweep' \in [Sweeps -> Calls] /\ \A t \in Sweeps : Swept(t)'
      <3>1. e.pid /\ e.vm \in Vms => vmStage[e.vm] \notin {"new", "copy", "spawn", "record"}
        BY <1>0, <2>2 DEF Swept, v
      <3> QED
        BY <1>0, <2>1, <2>2, <3>1, OneSweeps
    <2>4. VmTyped'
      BY <1>0, <2>1, <2>2, <2>3 DEF VmTyped, M!Directories
    <2>5. \A u \in Vms : Steps(u)'
      <3> SUFFICES ASSUME NEW u \in Vms PROVE Steps(u)'
        OBVIOUS
      <3>1. Steps(u) /\ directory'[u] = IF u = v /\ directory[u] # "none" THEN "empty" ELSE directory[u]
        BY <1>0, <2>1, <2>2 DEF VmTyped
      <3>2. u \in overlooked => u \in overlooked'
        BY <2>1
      <3>3. u = v /\ u \in machines => u \in overlooked'
        BY <2>1, <2>2
      <3> QED
        BY <2>1, <3>1, <3>2, <3>3 DEF Steps
    <2> QED
      BY <2>3, <2>4, <2>5 DEF VmInv
  <1>9. CASE M!Rmdir(s)
    <2> DEFINE v == c.vm
    <2>1. /\ sweep' = [sweep EXCEPT ![s] = M!Leaves(s, v)]
          /\ \/ directory[v] = "empty" /\ directory' = [directory EXCEPT ![v] = "none"]
             \/ directory' = directory
          /\ UNCHANGED <<vmStage, machines, unrecorded, overlooked>>
      BY <1>9 DEF M!Rmdir, M!machine
    <2>2. /\ M!Leaves(s, v) \in Calls /\ M!Leaves(s, v).at \in {"list", "read"}
          /\ ~M!Leaves(s, v).pid
      BY <1>0, LeavesTyped
    <2>3. sweep' \in [Sweeps -> Calls] /\ \A t \in Sweeps : Swept(t)'
      BY <1>0, <2>1, <2>2, OneSweeps
    <2> HIDE DEF v
    <2>4. VmTyped'
      BY <1>0, <2>1, <2>3 DEF VmTyped, M!Directories
    <2>5. \A u \in Vms : Steps(u)'
      BY <1>0, <2>1 DEF VmTyped, Steps
    <2> QED
      BY <2>3, <2>4, <2>5 DEF VmInv
  <1> QED
    BY <1>2, <1>3, <1>5, <1>6, <1>7, <1>8, <1>9 DEF M!Recover

\* The death of the worker loses its requests and its calls.
LEMMA DeathKept == ASSUME VmInv, M!WorkerDies PROVE VmInv'
  <1>0. VmTyped /\ \A v \in Vms : Steps(v)
    BY DEF VmInv
  <1>1. /\ sweep' = [s \in Sweeps |-> M!Resting]
        /\ vmStage' = [v \in Vms |-> IF vmStage[v] \in {"new", "ok", "error"} THEN vmStage[v] ELSE "lost"]
        /\ UNCHANGED <<machines, unrecorded, overlooked>>
    BY DEF M!WorkerDies
  <1>2. PICK torn \in SUBSET {v \in Vms : vmStage[v] = "record" /\ directory[v] = "nopid"} :
            directory' = [v \in Vms |-> IF v \in torn THEN "empty" ELSE directory[v]]
    BY DEF M!WorkerDies, M!HalfWritten
  <1>3. M!Resting \in Calls /\ M!Resting.at = "list" /\ ~M!Resting.pid
    BY DEF M!Resting, Calls
  <1>4. VmTyped'
    BY <1>0, <1>1, <1>2, <1>3 DEF VmTyped, M!Stages, M!Directories
  <1>5. \A v \in Vms : Steps(v)'
    BY <1>0, <1>1, <1>2 DEF Steps
  <1>6. \A s \in Sweeps : Swept(s)'
    BY <1>1, <1>3 DEF Swept
  <1> QED
    BY <1>4, <1>5, <1>6 DEF VmInv

\* In RunEffects MicroVM moves as its module says, or not at all.
LEMMA MachinesBeside == RunEffectsSpec => M!Spec
  <1>1. RunEffectsInit => M!Init
    BY DEF RunEffectsInit
  <1>2. [RunEffectsNext]_runEffects => [M!Next]_M!vmVars
    BY DEF RunEffectsNext, SharedStep, SoloStep, RoutingStep, ContextStep, RepositoryStep, CheckpointsStep,
           CliStep, MergedStep, VerificationStep, VmsStep, runEffects, vms, M!vmVars, M!machine
  <1>. QED
    BY <1>1, <1>2, PTL DEF RunEffectsSpec, M!Spec

\* MachinesFound: a machine that runs has its pid in its directory, where
\* /recover finds it, unless it was left between its start and the recording of
\* its pid, or a call of /recover that had read the metadata before the pid was
\* in it emptied the directory (FirecrackerVM.start, destroy, reconcile_runtime).
THEOREM LeftMachinesAreFound == RunEffectsSpec => []MachinesFound
  <1>1. VmInv /\ [M!Next]_M!vmVars => VmInv'
    <2>1. VmInv /\ M!Next => VmInv'
      BY RequestKept, RecoveryKept, DeathKept DEF M!Next
    <2>2. VmInv /\ UNCHANGED M!vmVars => VmInv'
      BY DEF VmInv, VmTyped, Steps, Swept, M!vmVars, M!machine
    <2>. QED
      BY <2>1, <2>2
  <1>2. VmInv => M!MachinesFound
    BY DEF VmInv, VmTyped, Steps, M!MachinesFound
  <1>3. M!Spec => []M!MachinesFound
    BY VmInit, <1>1, <1>2, PTL DEF M!Spec
  <1>. QED
    BY <1>3, MachinesBeside, PTL DEF MachinesFound

----------------------------------------------------------------------------
(* Checkpoints (Checkpoints) *)

\* What a load gives that no save crosses.
Readable == IF K!Result(data[file]) = "state" THEN data[file] ELSE K!Mangled
Quiet == \A w \in Writers : ~K!Started(w)
SaveStages == {"idle", "fill", "sign", "sigReplace", "replace"}
Saving == [stage : SaveStages, number : 0 .. MaxSaves, inode : K!Nodes \cup {K!Absent}, alone : BOOLEAN]

Loads == [stage : {"idle", "signature", "done"}, read : K!Results, quiet : BOOLEAN, result : K!Results]

CkTypes ==
    /\ load \in Loads
    /\ keyed \in BOOLEAN /\ production \in BOOLEAN
    /\ saves \in 0 .. MaxSaves
    /\ data \in [K!Nodes -> 0 .. MaxSaves] /\ \A i \in K!Nodes : data[i] <= saves
    /\ tmp \in K!Nodes \cup {K!Absent} /\ file \in K!Nodes \cup {K!Absent}
    /\ tmp # K!Absent => tmp # file
    /\ writer \in [Writers -> Saving] /\ \A w \in Writers : writer[w].number <= saves
    /\ \A w \in Writers : K!Started(w) => writer[w].inode \in K!Nodes
    /\ \A w \in Writers : ~K!Started(w) => ~writer[w].alone

\* A save that runs alone has the temporary files to itself, and its number is
\* in no other file.
Undisturbed(w) ==
    /\ K!Started(w) /\ \A v \in Writers : K!Started(v) => v = w
    /\ writer[w].number >= 1
    /\ tmp = writer[w].inode
    /\ \A i \in K!Nodes : i # tmp => data[i] < writer[w].number
    /\ writer[w].stage = "fill" => data[tmp] = K!Mangled
    /\ writer[w].stage \in {"sign", "sigReplace", "replace"} => data[tmp] = writer[w].number
    /\ writer[w].stage \in {"sign", "sigReplace"} => keyed
    /\ writer[w].stage = "sigReplace" => sigTmp = writer[w].number
    /\ writer[w].stage = "replace" /\ keyed => sig = writer[w].number

\* The new signature is beside the old file.
BetweenRenames == keyed /\ \E w \in Writers : writer[w].stage = "replace"
Alone == \A w \in Writers : K!Started(w) => writer[w].alone
FileExpected == Alone /\ ~BetweenRenames /\ file # K!Absent => Readable \in expected

LoadQuiet ==
    load.quiet /\ load.stage # "idle" =>
        /\ Quiet /\ file # K!Absent
        /\ load.stage = "signature" => load.read = data[file]
        /\ load.stage = "done" => load.result = Readable

CkInv == /\ CkTypes /\ \A w \in Writers : writer[w].alone => Undisturbed(w)
         /\ FileExpected /\ LoadQuiet

\* The size of a set is the same seen from Checkpoints.
LEMMA CheckpointsSize == \A Z : K!Cardinality(Z) = Cardinality(Z)
  BY DEF K!Cardinality, Cardinality

\* There are two files more than writers: a writer that opens a temporary file finds one free.
LEMMA NodesFinite == /\ K!Nodes = 1 .. Cardinality(Writers) + 2 /\ Cardinality(Writers) \in Nat
                     /\ IsFiniteSet(K!Nodes) /\ Cardinality(K!Nodes) = Cardinality(Writers) + 2
                     /\ K!Absent \notin K!Nodes /\ K!Mangled = 0 /\ K!Absent = -1
<1>1. Cardinality(Writers) \in Nat BY CheckpointsAssumption, FS_CardinalityType
<1> DEFINE n == Cardinality(Writers) + 2
<1>2. n \in Int /\ 1 <= n /\ n - 1 + 1 = n /\ ~(1 > n) BY <1>1
<1>3. K!Nodes = 1 .. n BY CheckpointsSize DEF K!Nodes
<1> HIDE DEF n
<1>4. IsFiniteSet(1 .. n) /\ Cardinality(1 .. n) = n BY <1>2, FS_Interval
<1>5. -1 \notin 1 .. n BY <1>2
<1>6. QED BY <1>1, <1>3, <1>4, <1>5 DEF n, K!Absent, K!Mangled

\* There is always an inode for another temporary file.
LEMMA InodeLeft ==
    ASSUME tmp = K!Absent
    PROVE  \E i \in K!Nodes : i \notin K!Used
<1> SUFFICES ASSUME K!Nodes \subseteq K!Used PROVE FALSE
    OBVIOUS
<1> DEFINE open == {writer[w].inode : w \in Writers}
           some == {file} \cup open
<1>1. IsFiniteSet(open) /\ Cardinality(open) <= Cardinality(Writers)
    <2> DEFINE f == [w \in Writers |-> writer[w].inode]
    <2>1. f \in Surjection(Writers, open) BY DEF Surjection
    <2> HIDE DEF f, open
    <2>2. QED BY <2>1, CheckpointsAssumption, FS_Surjection
<1>2. K!Nodes \subseteq some BY NodesFinite DEF K!Used
<1> HIDE DEF open
<1>3. /\ IsFiniteSet(some) /\ Cardinality(some) <= Cardinality(open) + 1
      /\ Cardinality(open) \in Nat /\ Cardinality(some) \in Nat
    <2>1. some = open \cup {file} OBVIOUS
    <2>2. IsFiniteSet(open \cup {file})
          /\ (file \in open => open \cup {file} = open)
          /\ (file \notin open => Cardinality(open \cup {file}) = Cardinality(open) + 1)
        BY <1>1, FS_AddElement
    <2>3. Cardinality(open) \in Nat BY <1>1, FS_CardinalityType
    <2>4. IsFiniteSet(some) /\ Cardinality(some) \in Nat BY <2>1, <2>2, FS_CardinalityType
    <2>5. Cardinality(some) = Cardinality(open) \/ Cardinality(some) = Cardinality(open) + 1
        BY <2>1, <2>2
    <2>6. QED BY <2>3, <2>4, <2>5
<1> HIDE DEF some
<1>4. Cardinality(K!Nodes) <= Cardinality(some) BY <1>2, <1>3, FS_Subset
<1>5. QED BY <1>1, <1>3, <1>4, NodesFinite

\* No checkpoint was saved.
LEMMA CkInit == K!Init => CkInv
<1> SUFFICES ASSUME K!Init PROVE CkInv
    OBVIOUS
<1>1. /\ K!Unsaved \in Saving /\ K!Unsaved.stage = "idle" /\ K!Unsaved.alone = FALSE /\ K!Unsaved.number = 0
    BY CheckpointsAssumption DEF K!Unsaved, Saving, SaveStages
<1>2. \A w \in Writers : writer[w] = K!Unsaved BY DEF K!Init
<1>3. /\ load \in Loads /\ load.quiet = FALSE
    BY CheckpointsAssumption DEF K!Init, Loads, K!Results, K!Absent
<1>4. /\ data = [i \in K!Nodes |-> 0] /\ 0 \in 0 .. MaxSaves /\ saves = 0
    BY CheckpointsAssumption DEF K!Init, K!Mangled
<1>5. CkTypes BY <1>1, <1>2, <1>3, <1>4 DEF K!Init, CkTypes, K!Started
<1>6. FileExpected BY DEF K!Init, FileExpected
<1>7. QED BY <1>1, <1>2, <1>3, <1>5, <1>6 DEF CkInv, LoadQuiet

\* While a save is under way, no load is quiet.
LEMMA LoadsBeside ==
    ASSUME CkInv, NEW w \in Writers, K!Started(w), load' = load \/ load' = K!Quieted
    PROVE  LoadQuiet' /\ load' \in Loads
<1>1. load \in Loads BY DEF CkInv, CkTypes
<1>2. ~(load.quiet /\ load.stage # "idle") BY DEF CkInv, LoadQuiet, Quiet
<1>3. /\ K!Quieted \in Loads /\ K!Quieted.quiet = FALSE BY <1>1 DEF K!Quieted, Loads
<1>4. load' \in Loads /\ ~(load'.quiet /\ load'.stage # "idle") BY <1>1, <1>2, <1>3
<1>5. QED BY <1>4 DEF LoadQuiet

\* A step of a save that does not end it.
LEMMA GoesOn ==
    ASSUME CkInv, NEW w \in Writers, K!Started(w), NEW to \in SaveStages \ {"idle"},
           writer' = [writer EXCEPT ![w].stage = to]
    PROVE  /\ writer' \in [Writers -> Saving]
           /\ writer'[w].stage = to /\ writer'[w].number = writer[w].number
           /\ writer'[w].inode = writer[w].inode /\ writer'[w].alone = writer[w].alone
           /\ \A v \in Writers : v # w => writer'[v] = writer[v]
           /\ \A v \in Writers : K!Started(v)' <=> K!Started(v)
           /\ \A v \in Writers : writer[v].alone => v = w
           /\ Alone' <=> Alone
           /\ \A v \in Writers : writer[v].number <= saves => writer'[v].number <= saves
           /\ \A v \in Writers : writer[v].inode \in K!Nodes => writer'[v].inode \in K!Nodes
           /\ \A v \in Writers : writer'[v].alone <=> writer[v].alone
<1>1. writer \in [Writers -> Saving] /\ writer[w] \in Saving /\ to \in SaveStages
    BY DEF CkInv, CkTypes
<1>2. \A r \in Saving : [r EXCEPT !.stage = to] \in Saving BY <1>1 DEF Saving
<1>3. writer' \in [Writers -> Saving] BY <1>1, <1>2
<1>4. /\ writer'[w].stage = to /\ writer'[w].number = writer[w].number
      /\ writer'[w].inode = writer[w].inode /\ writer'[w].alone = writer[w].alone
      /\ \A v \in Writers : v # w => writer'[v] = writer[v]
    BY <1>1 DEF Saving
<1>5. \A v \in Writers : K!Started(v)' <=> K!Started(v) BY <1>4 DEF K!Started
<1>6. \A v \in Writers : writer[v].alone => v = w BY DEF CkInv, Undisturbed
<1>7. \A v \in Writers : writer'[v].alone <=> writer[v].alone BY <1>4
<1>8. Alone' <=> Alone BY <1>5, <1>7 DEF Alone
<1>9. \A v \in Writers : /\ writer[v].number <= saves => writer'[v].number <= saves
                         /\ writer[v].inode \in K!Nodes => writer'[v].inode \in K!Nodes
    BY <1>4
<1>10. QED BY <1>3, <1>4, <1>5, <1>6, <1>7, <1>8, <1>9

\* A save that ends, whole or not.
LEMMA SaveEnds ==
    ASSUME CkInv, NEW w \in Writers, K!Started(w), NEW outcomes, K!Ends(w, outcomes),
           load' = load \/ load' = K!Quieted, UNCHANGED <<keyed, production, data, saves>>,
           tmp' \in K!Nodes \cup {K!Absent}, file' \in K!Nodes \cup {K!Absent}, tmp' # K!Absent => tmp' # file',
           Undisturbed(w) /\ writer[w].alone /\ file' # K!Absent => Readable' \in outcomes
    PROVE  CkInv'
<1>1. K!Unsaved \in Saving /\ K!Unsaved.stage = "idle" /\ K!Unsaved.alone = FALSE /\ K!Unsaved.number = 0
    BY CheckpointsAssumption DEF K!Unsaved, Saving, SaveStages
<1>2. /\ writer' \in [Writers -> Saving] /\ writer'[w] = K!Unsaved
      /\ \A v \in Writers : v # w => writer'[v] = writer[v]
    BY <1>1 DEF K!Ends, CkInv, CkTypes
<1>3. LoadQuiet' /\ load' \in Loads BY LoadsBeside
<1>4. saves \in Nat BY CheckpointsAssumption DEF CkInv, CkTypes
<1>5. CkTypes'
    <2>1. \A v \in Writers : writer'[v].number <= saves BY <1>1, <1>2, <1>4 DEF CkInv, CkTypes
    <2>2. \A v \in Writers : K!Started(v)' => writer'[v].inode \in K!Nodes
        BY <1>1, <1>2 DEF CkInv, CkTypes, K!Started
    <2>3. \A v \in Writers : ~K!Started(v)' => ~writer'[v].alone
        BY <1>1, <1>2 DEF CkInv, CkTypes, K!Started
    <2>4. /\ keyed' = keyed /\ production' = production /\ saves' = saves /\ data' = data
        OBVIOUS
    <2>5. /\ keyed \in BOOLEAN /\ production \in BOOLEAN /\ saves \in 0 .. MaxSaves
          /\ data \in [K!Nodes -> 0 .. MaxSaves] /\ \A i \in K!Nodes : data[i] <= saves
        BY DEF CkInv, CkTypes
    <2>6. QED BY <1>2, <1>3, <2>1, <2>2, <2>3, <2>4, <2>5 DEF CkTypes
<1>6. \A v \in Writers : ~writer'[v].alone
    BY <1>1, <1>2 DEF CkInv, Undisturbed
<1>7. FileExpected'
    <2>1. CASE writer[w].alone
        <3>1. Undisturbed(w) BY <2>1 DEF CkInv
        <3>2. expected' = outcomes BY <2>1 DEF K!Ends
        <3>3. QED BY <2>1, <3>1, <3>2 DEF FileExpected
    <2>2. CASE ~writer[w].alone
        <3>1. expected' = K!Results BY <2>2 DEF K!Ends
        <3>2. file' # K!Absent => data'[file'] \in 0 .. MaxSaves BY DEF CkInv, CkTypes
        <3>3. file' # K!Absent => Readable' \in K!Results
            BY <3>2, CheckpointsAssumption DEF Readable, K!Results, K!Absent, K!Mangled
        <3>4. QED BY <3>1, <3>3 DEF FileExpected
    <2>3. QED BY <2>1, <2>2
<1>8. QED BY <1>3, <1>5, <1>6, <1>7 DEF CkInv

\* A save opens, or shares, the temporary file.
LEMMA CkOpen == ASSUME CkInv, NEW w \in Writers, K!OpenTmp(w) PROVE CkInv'
<1> DEFINE inode == IF tmp = K!Absent THEN CHOOSE i \in K!Nodes : i \notin K!Used ELSE tmp
           others == {v \in Writers : K!Started(v)}
           new == [stage |-> "fill", number |-> saves + 1, inode |-> inode, alone |-> others = {}]
<1>1. /\ ~K!Started(w) /\ saves < MaxSaves /\ saves' = saves + 1
      /\ writer' = [v \in Writers |-> IF v = w THEN new ELSE [writer[v] EXCEPT !.alone = FALSE]]
      /\ tmp' = inode /\ data' = [data EXCEPT ![inode] = K!Mangled]
      /\ load' = K!Quieted
      /\ UNCHANGED <<keyed, production, file, sigTmp, sig, expected>>
    BY DEF K!OpenTmp
<1>2. inode \in K!Nodes /\ inode # file
    <2>1. CASE tmp = K!Absent
        <3>1. inode \in K!Nodes /\ inode \notin K!Used BY <2>1, InodeLeft
        <3>2. QED BY <3>1 DEF K!Used
    <2>2. CASE tmp # K!Absent BY <2>2 DEF CkInv, CkTypes
    <2>3. QED BY <2>1, <2>2
<1> HIDE DEF inode
<1>0. /\ saves \in 0 .. MaxSaves /\ MaxSaves \in Nat /\ load \in Loads
      /\ data \in [K!Nodes -> 0 .. MaxSaves] /\ \A i \in K!Nodes : data[i] <= saves
      /\ writer \in [Writers -> Saving] /\ \A v \in Writers : writer[v].number <= saves
      /\ file \in K!Nodes \cup {K!Absent} /\ keyed \in BOOLEAN /\ production \in BOOLEAN
    BY CheckpointsAssumption DEF CkInv, CkTypes
<1>3. /\ new \in Saving /\ new.stage = "fill" /\ new.number = saves + 1 /\ new.inode = inode
      /\ new.alone <=> others = {}
    <2>1. saves + 1 \in 0 .. MaxSaves /\ "fill" \in SaveStages BY <1>0, <1>1 DEF SaveStages
    <2>2. inode \in K!Nodes \cup {K!Absent} /\ (others = {}) \in BOOLEAN BY <1>2
    <2>3. QED BY <2>1, <2>2 DEF Saving
<1> HIDE DEF new
<1>4. \A v \in Writers :
          LET r == [writer[v] EXCEPT !.alone = FALSE] IN
          /\ r \in Saving /\ r.stage = writer[v].stage /\ r.number = writer[v].number
          /\ r.inode = writer[v].inode /\ r.alone = FALSE
    BY <1>0 DEF Saving
<1>5. /\ writer' \in [Writers -> Saving] /\ writer'[w] = new
      /\ \A v \in Writers : v # w =>
            /\ writer'[v].stage = writer[v].stage /\ writer'[v].number = writer[v].number
            /\ writer'[v].inode = writer[v].inode /\ writer'[v].alone = FALSE
    BY <1>1, <1>3, <1>4
<1>6. /\ K!Quieted \in Loads /\ K!Quieted.quiet = FALSE BY <1>0 DEF K!Quieted, Loads
<1>7. /\ data' \in [K!Nodes -> 0 .. MaxSaves] /\ data'[inode] = 0
      /\ \A i \in K!Nodes : i # inode => data'[i] = data[i]
      /\ \A i \in K!Nodes : data'[i] <= saves /\ data'[i] < saves + 1 /\ data'[i] <= saves'
    BY <1>0, <1>1, <1>2 DEF K!Mangled
<1>8. CkTypes'
    <2>1. saves' \in 0 .. MaxSaves /\ \A v \in Writers : writer'[v].number <= saves'
        BY <1>0, <1>1, <1>3, <1>5 DEF Saving
    <2>2. \A v \in Writers : /\ K!Started(v)' => writer'[v].inode \in K!Nodes
                             /\ ~K!Started(v)' => ~writer'[v].alone
        BY <1>2, <1>3, <1>5 DEF K!Started, CkInv, CkTypes
    <2>3. load' \in Loads /\ tmp' \in K!Nodes \cup {K!Absent} /\ tmp' # file'
        BY <1>1, <1>2, <1>6
    <2>4. QED BY <1>0, <1>1, <1>5, <1>7, <2>1, <2>2, <2>3 DEF CkTypes
<1>9. \A v \in Writers : v # w => (K!Started(v)' <=> K!Started(v)) BY <1>5 DEF K!Started
<1>10. ASSUME NEW v \in Writers, writer'[v].alone PROVE Undisturbed(v)'
    <2>1. v = w /\ others = {} BY <1>3, <1>5, <1>10
    <2>2. K!Started(v)' /\ \A u \in Writers : K!Started(u)' => u = v
        BY <1>3, <1>5, <1>9, <2>1 DEF K!Started
    <2>3. writer'[v].number = saves + 1 /\ saves + 1 >= 1 /\ writer'[v].stage = "fill"
          /\ tmp' = writer'[v].inode /\ tmp' = inode
        BY <1>0, <1>1, <1>3, <1>5, <2>1
    <2>4. QED BY <1>7, <2>2, <2>3 DEF Undisturbed, K!Mangled
<1>11. FileExpected'
    <2> SUFFICES ASSUME Alone', file # K!Absent PROVE Readable' \in expected
        BY <1>1 DEF FileExpected
    <2>1. others = {} BY <1>3, <1>5 DEF Alone, K!Started
    <2>2. Alone /\ ~BetweenRenames BY <2>1 DEF Alone, BetweenRenames, K!Started
    <2>3. Readable \in expected BY <2>2 DEF CkInv, FileExpected
    <2>4. data'[file] = data[file] BY <1>0, <1>2, <1>7
    <2>5. Readable' = Readable BY <1>1, <2>4 DEF Readable, K!Result
    <2>6. QED BY <2>3, <2>5
<1>12. LoadQuiet' BY <1>1, <1>6 DEF LoadQuiet
<1>13. QED BY <1>8, <1>10, <1>11, <1>12 DEF CkInv

\* A save writes its state into the file it opened.
LEMMA CkFill == ASSUME CkInv, NEW w \in Writers, K!FillTmp(w) PROVE CkInv'
<1> DEFINE to == IF keyed THEN "sign" ELSE "replace"
<1>1. /\ writer[w].stage = "fill" /\ writer' = [writer EXCEPT ![w].stage = to]
      /\ load' = K!Quieted
      /\ UNCHANGED <<keyed, production, tmp, file, sigTmp, sig, saves, expected>>
    BY DEF K!FillTmp, K!Goes
<1>2. to \in SaveStages \ {"idle"} /\ K!Started(w) BY <1>1 DEF SaveStages, K!Started
<1>t. (keyed => to = "sign") /\ (~keyed => to = "replace") OBVIOUS
<1> HIDE DEF to
<1>0. /\ saves \in 0 .. MaxSaves /\ MaxSaves \in Nat
      /\ data \in [K!Nodes -> 0 .. MaxSaves] /\ \A i \in K!Nodes : data[i] <= saves
      /\ writer[w] \in Saving /\ writer[w].number <= saves /\ writer[w].inode \in K!Nodes
    BY <1>2, CheckpointsAssumption DEF CkInv, CkTypes
<1>3. PICK written \in {writer[w].number, K!Mangled} :
          /\ data[writer[w].inode] = K!Mangled => written = writer[w].number
          /\ data' = [data EXCEPT ![writer[w].inode] = written]
    BY DEF K!FillTmp
<1>4. /\ writer' \in [Writers -> Saving]
      /\ writer'[w].stage = to /\ writer'[w].number = writer[w].number
      /\ writer'[w].inode = writer[w].inode /\ writer'[w].alone = writer[w].alone
      /\ \A v \in Writers : v # w => writer'[v] = writer[v]
      /\ \A v \in Writers : K!Started(v)' <=> K!Started(v)
      /\ \A v \in Writers : writer[v].alone => v = w
      /\ Alone' <=> Alone
      /\ \A v \in Writers : writer[v].number <= saves => writer'[v].number <= saves
      /\ \A v \in Writers : writer[v].inode \in K!Nodes => writer'[v].inode \in K!Nodes
      /\ \A v \in Writers : writer'[v].alone <=> writer[v].alone
    BY <1>1, <1>2, GoesOn
<1>5. written \in 0 .. MaxSaves /\ written <= saves BY <1>0 DEF Saving, K!Mangled
<1>6. /\ data' \in [K!Nodes -> 0 .. MaxSaves] /\ data'[writer[w].inode] = written
      /\ \A i \in K!Nodes : i # writer[w].inode => data'[i] = data[i]
      /\ \A i \in K!Nodes : data'[i] <= saves
    BY <1>0, <1>3, <1>5
<1>7. LoadQuiet' /\ load' \in Loads BY <1>1, <1>2, LoadsBeside
<1>8. CkTypes' BY <1>1, <1>4, <1>6, <1>7 DEF CkInv, CkTypes
<1>9. ASSUME NEW v \in Writers, writer'[v].alone PROVE Undisturbed(v)'
    <2>1. v = w /\ Undisturbed(w) BY <1>4, <1>9 DEF CkInv
    <2>2. tmp = writer[w].inode /\ written = writer[w].number BY <1>1, <1>3, <2>1 DEF Undisturbed
    <2>3. /\ K!Started(w)' /\ \A u \in Writers : K!Started(u)' => u = w
          /\ writer'[w].number >= 1 /\ tmp' = writer'[w].inode
        BY <1>1, <1>4, <2>1 DEF Undisturbed
    <2>4. \A i \in K!Nodes : i # tmp' => data'[i] < writer'[w].number
        BY <1>1, <1>4, <1>6, <2>1, <2>2 DEF Undisturbed
    <2>5. data'[tmp'] = writer'[w].number BY <1>1, <1>4, <1>6, <2>2
    <2>6. QED BY <1>1, <1>t, <1>4, <2>1, <2>3, <2>4, <2>5 DEF Undisturbed
<1>10. FileExpected'
    <2> SUFFICES ASSUME Alone', file # K!Absent PROVE Readable' \in expected
        BY <1>1 DEF FileExpected
    <2>1. writer[w].alone /\ Alone BY <1>2, <1>4 DEF Alone
    <2>2. Undisturbed(w) BY <2>1 DEF CkInv
    <2>3. ~BetweenRenames BY <1>1, <2>2 DEF Undisturbed, BetweenRenames, K!Started
    <2>4. Readable \in expected BY <2>1, <2>3 DEF CkInv, FileExpected
    <2>5. file \in K!Nodes /\ file # writer[w].inode BY <1>0, <2>2, NodesFinite DEF Undisturbed, CkInv, CkTypes
    <2>6. data'[file] = data[file] BY <1>6, <2>5
    <2>7. Readable' = Readable BY <1>1, <2>6 DEF Readable, K!Result
    <2>8. QED BY <2>4, <2>7
<1>11. QED BY <1>7, <1>8, <1>9, <1>10 DEF CkInv

\* A save writes the signature beside it, when there is a key.
LEMMA CkSign == ASSUME CkInv, NEW w \in Writers, K!WriteSig(w) PROVE CkInv'
<1>1. /\ writer[w].stage = "sign" /\ writer' = [writer EXCEPT ![w].stage = "sigReplace"]
      /\ sigTmp' = writer[w].number
      /\ UNCHANGED <<keyed, production, data, tmp, file, sig, saves, expected, load>>
    BY DEF K!WriteSig, K!Goes
<1>2. "sigReplace" \in SaveStages \ {"idle"} /\ K!Started(w) BY <1>1 DEF SaveStages, K!Started
<1>4. /\ writer' \in [Writers -> Saving]
      /\ writer'[w].stage = "sigReplace" /\ writer'[w].number = writer[w].number
      /\ writer'[w].inode = writer[w].inode /\ writer'[w].alone = writer[w].alone
      /\ \A v \in Writers : v # w => writer'[v] = writer[v]
      /\ \A v \in Writers : K!Started(v)' <=> K!Started(v)
      /\ \A v \in Writers : writer[v].alone => v = w
      /\ Alone' <=> Alone
      /\ \A v \in Writers : writer[v].number <= saves => writer'[v].number <= saves
      /\ \A v \in Writers : writer[v].inode \in K!Nodes => writer'[v].inode \in K!Nodes
      /\ \A v \in Writers : writer'[v].alone <=> writer[v].alone
    BY <1>1, <1>2, GoesOn
<1>7. LoadQuiet' /\ load' \in Loads BY <1>1, <1>2, LoadsBeside
<1>8. CkTypes' BY <1>1, <1>4, <1>7 DEF CkInv, CkTypes
<1>9. ASSUME NEW v \in Writers, writer'[v].alone PROVE Undisturbed(v)'
    <2>1. v = w /\ Undisturbed(w) BY <1>4, <1>9 DEF CkInv
    <2>2. QED BY <1>1, <1>4, <2>1 DEF Undisturbed
<1>10. FileExpected'
    <2> SUFFICES ASSUME Alone', file # K!Absent PROVE Readable' \in expected
        BY <1>1 DEF FileExpected
    <2>1. writer[w].alone /\ Alone BY <1>2, <1>4 DEF Alone
    <2>2. Undisturbed(w) BY <2>1 DEF CkInv
    <2>3. ~BetweenRenames BY <1>1, <2>2 DEF Undisturbed, BetweenRenames, K!Started
    <2>4. Readable \in expected BY <2>1, <2>3 DEF CkInv, FileExpected
    <2>7. Readable' = Readable BY <1>1 DEF Readable, K!Result
    <2>8. QED BY <2>4, <2>7
<1>11. QED BY <1>7, <1>8, <1>9, <1>10 DEF CkInv

\* A save renames the signature into place.
LEMMA CkReplaceSig == ASSUME CkInv, NEW w \in Writers, K!ReplaceSig(w) PROVE CkInv'
<1>1. /\ writer[w].stage = "sigReplace" /\ load' = K!Quieted
      /\ UNCHANGED <<keyed, production, data, tmp, file, saves>>
    BY DEF K!ReplaceSig
<1>2. "replace" \in SaveStages \ {"idle"} /\ K!Started(w) BY <1>1 DEF SaveStages, K!Started
<1>3. CASE sigTmp = K!Absent
    <2>1. K!Ends(w, K!Results) BY <1>3 DEF K!ReplaceSig
    <2>2. file # K!Absent => data[file] \in 0 .. MaxSaves BY DEF CkInv, CkTypes
    <2>3. file' # K!Absent => Readable' \in K!Results
        BY <1>1, <2>2, CheckpointsAssumption DEF Readable, K!Results, K!Absent, K!Mangled
    <2>4. tmp' \in K!Nodes \cup {K!Absent} /\ file' \in K!Nodes \cup {K!Absent} /\ (tmp' # K!Absent => tmp' # file')
        BY <1>1 DEF CkInv, CkTypes
    <2>5. QED BY <1>1, <1>2, <2>1, <2>3, <2>4, SaveEnds
<1>4. CASE sigTmp # K!Absent
    <2>1. /\ writer' = [writer EXCEPT ![w].stage = "replace"] /\ sig' = sigTmp /\ sigTmp' = K!Absent
          /\ UNCHANGED expected
        BY <1>4 DEF K!ReplaceSig, K!Goes
    <2>2. /\ writer' \in [Writers -> Saving]
          /\ writer'[w].stage = "replace" /\ writer'[w].number = writer[w].number
          /\ writer'[w].inode = writer[w].inode /\ writer'[w].alone = writer[w].alone
          /\ \A v \in Writers : v # w => writer'[v] = writer[v]
          /\ \A v \in Writers : K!Started(v)' <=> K!Started(v)
          /\ \A v \in Writers : writer[v].alone => v = w
          /\ Alone' <=> Alone
          /\ \A v \in Writers : writer[v].number <= saves => writer'[v].number <= saves
          /\ \A v \in Writers : writer[v].inode \in K!Nodes => writer'[v].inode \in K!Nodes
          /\ \A v \in Writers : writer'[v].alone <=> writer[v].alone
        BY <1>2, <2>1, GoesOn
    <2>3. LoadQuiet' /\ load' \in Loads BY <1>1, <1>2, LoadsBeside
    <2>4. CkTypes' BY <1>1, <2>2, <2>3 DEF CkInv, CkTypes
    <2>5. ASSUME NEW v \in Writers, writer'[v].alone PROVE Undisturbed(v)'
        <3>1. v = w /\ Undisturbed(w) BY <2>2, <2>5 DEF CkInv
        <3>2. QED BY <1>1, <2>1, <2>2, <3>1 DEF Undisturbed
    <2>6. FileExpected'
        <3> SUFFICES ASSUME Alone' PROVE BetweenRenames'
            BY DEF FileExpected
        <3>1. writer[w].alone BY <1>2, <2>2 DEF Alone
        <3>2. keyed BY <1>1, <3>1 DEF CkInv, Undisturbed
        <3>3. QED BY <1>1, <2>2, <3>2 DEF BetweenRenames
    <2>7. QED BY <2>3, <2>4, <2>5, <2>6 DEF CkInv
<1>5. QED BY <1>3, <1>4

\* A save renames the state into place.
LEMMA CkReplaceFile == ASSUME CkInv, NEW w \in Writers, K!ReplaceFile(w) PROVE CkInv'
<1>1. /\ writer[w].stage = "replace" /\ load' = K!Quieted /\ K!Ends(w, {writer[w].number})
      /\ UNCHANGED <<keyed, production, data, sig, saves>>
      /\ IF tmp = K!Absent THEN UNCHANGED <<tmp, file>> ELSE file' = tmp /\ tmp' = K!Absent
    BY DEF K!ReplaceFile
<1>2. K!Started(w) BY <1>1 DEF K!Started
<1>3. tmp' \in K!Nodes \cup {K!Absent} /\ file' \in K!Nodes \cup {K!Absent} /\ (tmp' # K!Absent => tmp' # file')
    BY <1>1 DEF CkInv, CkTypes
<1>4. ASSUME Undisturbed(w) PROVE Readable' = writer[w].number
    <2>1. tmp \in K!Nodes /\ data[tmp] = writer[w].number /\ writer[w].number >= 1
          /\ (keyed => sig = writer[w].number)
        BY <1>1, <1>2, <1>4 DEF Undisturbed, CkInv, CkTypes
    <2>2. file' = tmp BY <1>1, <2>1, NodesFinite
    <2>3. data'[file'] = writer[w].number BY <1>1, <2>1, <2>2
    <2>4. writer[w].number \in Nat BY CheckpointsAssumption DEF CkInv, CkTypes, Saving
    <2>5. writer[w].number # K!Mangled /\ writer[w].number # K!Absent BY <2>1, <2>4 DEF K!Mangled, K!Absent
    <2>6. ASSUME NEW n, n = writer[w].number PROVE K!Result(n)' = "state"
        <3>1. keyed' => sig' # K!Absent /\ sig' = n BY <1>1, <2>1, <2>5, <2>6
        <3>2. n # K!Mangled BY <2>5, <2>6
        <3>3. QED BY <3>1, <3>2 DEF K!Result
    <2>7. QED BY <2>3, <2>6 DEF Readable
<1>5. QED BY <1>1, <1>2, <1>3, <1>4, SaveEnds

\* A writer dies at any step of its save.
LEMMA CkCrash == ASSUME CkInv, NEW w \in Writers, K!Crash(w) PROVE CkInv'
<1> DEFINE outcomes == IF keyed /\ writer[w].stage = "replace" THEN {K!Mangled} ELSE expected
<1>1. /\ K!Started(w) /\ K!Ends(w, outcomes)
      /\ UNCHANGED <<keyed, production, data, tmp, file, sigTmp, sig, saves, load>>
    BY DEF K!Crash
<1>2. tmp' \in K!Nodes \cup {K!Absent} /\ file' \in K!Nodes \cup {K!Absent} /\ (tmp' # K!Absent => tmp' # file')
    BY <1>1 DEF CkInv, CkTypes
<1>3. Readable' = Readable BY <1>1 DEF Readable, K!Result
<1>4. ASSUME Undisturbed(w), writer[w].alone, file # K!Absent PROVE Readable \in outcomes
    <2>1. CASE keyed /\ writer[w].stage = "replace"
        <3>1. /\ file \in K!Nodes /\ file # tmp /\ sig = writer[w].number /\ writer[w].number \in Nat
              /\ tmp \in K!Nodes /\ data[file] \in Nat
            BY <1>1, <1>4, <2>1, NodesFinite, CheckpointsAssumption DEF Undisturbed, CkInv, CkTypes, Saving
        <3>2. data[file] < sig BY <1>4, <3>1 DEF Undisturbed
        <3>3. sig # K!Absent /\ sig # data[file] BY <3>1, <3>2 DEF K!Absent
        <3>4. K!Result(data[file]) # "state" BY <2>1, <3>3 DEF K!Result
        <3>5. QED BY <2>1, <3>4 DEF Readable
    <2>2. CASE ~(keyed /\ writer[w].stage = "replace")
        <3>1. Alone /\ ~BetweenRenames BY <1>4, <2>2 DEF Undisturbed, Alone, BetweenRenames, K!Started
        <3>2. QED BY <1>4, <2>2, <3>1 DEF CkInv, FileExpected
    <2>3. QED BY <2>1, <2>2
<1> HIDE DEF outcomes
<1>5. Undisturbed(w) /\ writer[w].alone /\ file' # K!Absent => Readable' \in outcomes BY <1>1, <1>3, <1>4
<1>6. QED BY <1>1, <1>2, <1>5, SaveEnds

\* A load reads the state, then its signature.
LEMMA CkLoad == ASSUME CkInv, K!ReadFile \/ K!ReadSig \/ K!LoadAgain PROVE CkInv'
<1>1. UNCHANGED <<keyed, production, data, tmp, file, sigTmp, sig, writer, saves, expected>>
    BY DEF K!ReadFile, K!ReadSig, K!LoadAgain
<1>2. load \in Loads /\ LoadQuiet BY DEF CkInv, CkTypes
<1>3. file # K!Absent => data[file] \in 0 .. MaxSaves BY DEF CkInv, CkTypes
<1>4. file # K!Absent => data[file] \in K!Results /\ Readable \in K!Results
    BY <1>3, CheckpointsAssumption DEF Readable, K!Results, K!Absent, K!Mangled
<1>5. K!Absent \in K!Results /\ K!Mangled \in K!Results BY CheckpointsAssumption DEF K!Results, K!Absent, K!Mangled
<1>6. load' \in Loads /\ LoadQuiet'
    <2>1. CASE K!ReadFile
        <3> DEFINE new == [stage |-> IF file = K!Absent THEN "idle" ELSE "signature",
                           read |-> IF file = K!Absent THEN K!Absent ELSE data[file],
                           quiet |-> \A w \in Writers : ~K!Started(w), result |-> K!Absent]
        <3>1. load' = new BY <2>1 DEF K!ReadFile
        <3>2. /\ new \in Loads
              /\ new.quiet <=> Quiet
              /\ file = K!Absent => new.stage = "idle"
              /\ file # K!Absent => new.stage = "signature" /\ new.read = data[file]
            BY <1>4, <1>5 DEF Loads, Quiet
        <3> HIDE DEF new
        <3>3. Quiet' <=> Quiet BY <1>1 DEF Quiet, K!Started
        <3>4. load'.stage # "idle" => load'.stage = "signature" /\ file # K!Absent /\ load'.read = data[file]
            BY <3>1, <3>2
        <3>5. load'.quiet => Quiet' BY <3>1, <3>2, <3>3
        <3>6. load'.stage # "done" BY <3>1, <3>2
        <3>7. load'.quiet /\ load'.stage # "idle" => Quiet' /\ file' # K!Absent /\ load'.read = data'[file']
            BY <1>1, <3>4, <3>5
        <3>8. load' \in Loads BY <3>1, <3>2
        <3>9. QED BY <3>6, <3>7, <3>8 DEF LoadQuiet
    <2>2. CASE K!ReadSig
        <3> DEFINE result == IF K!Result(load.read) = "state" THEN load.read ELSE K!Mangled
        <3>1. load.stage = "signature" /\ load' = [load EXCEPT !.stage = "done", !.result = result]
            BY <2>2 DEF K!ReadSig
        <3>2. result \in K!Results BY <1>2, <1>5 DEF Loads
        <3>3. load.quiet => Quiet /\ file # K!Absent /\ result = Readable
            BY <1>2, <3>1 DEF LoadQuiet, Readable
        <3> HIDE DEF result
        <3>4. \A r \in K!Results : \A l \in Loads : [l EXCEPT !.stage = "done", !.result = r] \in Loads
            BY DEF Loads
        <3>5. load' \in Loads BY <1>2, <3>1, <3>2, <3>4
        <3>6. load'.quiet = load.quiet /\ load'.stage = "done" /\ load'.result = result
            BY <1>2, <3>1 DEF Loads
        <3>7. Readable' = Readable /\ (Quiet' <=> Quiet) BY <1>1 DEF Readable, K!Result, Quiet, K!Started
        <3>8. QED BY <1>1, <3>3, <3>5, <3>6, <3>7 DEF LoadQuiet
    <2>3. CASE K!LoadAgain
        <3>1. load' = [load EXCEPT !.stage = "idle"] BY <2>3 DEF K!LoadAgain
        <3>2. load' \in Loads /\ load'.stage = "idle" BY <1>2, <3>1 DEF Loads
        <3>3. QED BY <3>2 DEF LoadQuiet
    <2>4. QED BY <2>1, <2>2, <2>3
<1>7. CkTypes' BY <1>1, <1>6 DEF CkInv, CkTypes, K!Started
<1>8. \A w \in Writers : writer'[w].alone => Undisturbed(w)' BY <1>1 DEF CkInv, Undisturbed, K!Started
<1>9. FileExpected' BY <1>1 DEF CkInv, FileExpected, Alone, BetweenRenames, Readable, K!Result, K!Started
<1>10. QED BY <1>6, <1>7, <1>8, <1>9 DEF CkInv

\* Every step keeps the invariant.
LEMMA CkStep == CkInv /\ [K!Next]_K!checkpointVars => CkInv'
<1> SUFFICES ASSUME CkInv, [K!Next]_K!checkpointVars PROVE CkInv'
    OBVIOUS
<1>1. CASE UNCHANGED K!checkpointVars
    <2>1. UNCHANGED <<keyed, production, data, tmp, file, sigTmp, sig, writer, saves, expected, load>>
        BY <1>1 DEF K!checkpointVars
    <2>2. CkTypes' BY <2>1 DEF CkInv, CkTypes, K!Started
    <2>3. \A w \in Writers : writer'[w].alone => Undisturbed(w)' BY <2>1 DEF CkInv, Undisturbed, K!Started
    <2>4. FileExpected' BY <2>1 DEF CkInv, FileExpected, Alone, BetweenRenames, Readable, K!Result, K!Started
    <2>5. LoadQuiet' BY <2>1 DEF CkInv, LoadQuiet, Readable, K!Result, Quiet, K!Started
    <2>6. QED BY <2>2, <2>3, <2>4, <2>5 DEF CkInv
<1>2. CASE K!Next
    BY <1>2, CkOpen, CkFill, CkSign, CkReplaceSig, CkReplaceFile, CkCrash, CkLoad DEF K!Next
<1>3. QED BY <1>1, <1>2

\* A load that no save crossed gives what the last save expects.
LEMMA CkHolds == CkInv => K!CheckpointReadable
<1> SUFFICES ASSUME CkInv, load.stage = "done", load.quiet PROVE load.result \in expected
    BY DEF K!CheckpointReadable
<1>1. Quiet /\ file # K!Absent /\ load.result = Readable BY DEF CkInv, LoadQuiet
<1>2. Alone /\ ~BetweenRenames BY <1>1 DEF Quiet, Alone, BetweenRenames, K!Started
<1>3. QED BY <1>1, <1>2 DEF CkInv, FileExpected

\* In RunEffects Checkpoints moves as its module says, or not at all.
LEMMA CheckpointsBeside == RunEffectsSpec => K!Spec
  <1>1. RunEffectsInit => K!Init
    BY DEF RunEffectsInit
  <1>2. [RunEffectsNext]_runEffects => [K!Next]_K!checkpointVars
    BY DEF RunEffectsNext, SharedStep, SoloStep, RoutingStep, ContextStep, RepositoryStep, CheckpointsStep,
           CliStep, MergedStep, VerificationStep, VmsStep, runEffects, checkpoints, K!checkpointVars
  <1>. QED
    BY <1>1, <1>2, PTL DEF RunEffectsSpec, K!Spec

\* CheckpointReadable: a load that no save crosses gives the state of the last
\* save that ran alone and to its end, or what a save that was cut short may
\* have left since, however many writers shared the temporary file and wherever
\* one died (OrchestratorState.save_checkpoint, load_checkpoint).
THEOREM CheckpointIsReadable == RunEffectsSpec => []CheckpointReadable
  <1>1. K!Spec => []K!CheckpointReadable
    BY CkInit, CkStep, CkHolds, PTL DEF K!Spec
  <1>. QED
    BY <1>1, CheckpointsBeside, PTL DEF CheckpointReadable

----------------------------------------------------------------------------
(* Prompts (ContextBudget) *)

\* An entry is the symbol, its signature, or left out.
Forms == {"full", "signature", "none"}
CbInv ==
    /\ window \in Nat /\ instruction \in Nat
    /\ ranked \in Seq(SymbolSizes) /\ snippets \in Seq(SnippetSizes)
    /\ parts \in Seq(Forms) /\ truncated \in Seq(BOOLEAN) /\ Len(truncated) = Len(parts)
    /\ Len(parts) <= Len(ranked)
    /\ \A i \in 1 .. Len(parts) : ~truncated[i] => parts[i] = "full"
    /\ used \in Nat /\ used <= B!SymbolBudget + BodyCap + Wrapping
    /\ taken \in 0 .. Len(snippets)
    /\ memory \in Nat /\ (HeaderSize <= B!Share(20) => memory <= B!Share(20))
    /\ phase # "symbols" => Len(parts) = Len(ranked)

\* The lists that TLC enumerates are sequences.
LEMMA ListsAreSeqs == ASSUME NEW S PROVE B!Lists(S) \subseteq Seq(S)
<1> SUFFICES ASSUME NEW f \in B!Lists(S) PROVE f \in Seq(S)
    OBVIOUS
<1>1. PICK n \in 0 .. MaxItems : f \in [1 .. n -> S] BY DEF B!Lists
<1>2. n \in Nat BY ContextAssumption
<1>3. QED BY <1>1, <1>2, SeqDef

\* A share of the window is a natural number.
LEMMA ShareType == ASSUME window \in Nat, NEW p \in 0 .. 100
    PROVE  B!Share(p) \in Nat
<1>1. window * p \in Nat OBVIOUS
<1>2. QED BY <1>1 DEF B!Share

\* So is what the symbols may use.
LEMMA BudgetType == ASSUME window \in Nat PROVE B!SymbolBudget \in Nat
<1>1. B!Share(15) \in Nat /\ B!Share(55) \in Nat BY ShareType
<1>2. QED BY <1>1, ContextAssumption DEF B!SymbolBudget

\* An empty prompt.
LEMMA CbInit == B!Init => CbInv
<1> SUFFICES ASSUME B!Init PROVE CbInv
    OBVIOUS
<1>1. window \in Nat /\ instruction \in Nat BY ContextAssumption DEF B!Init
<1>2. ranked \in Seq(SymbolSizes) /\ snippets \in Seq(SnippetSizes) BY ListsAreSeqs DEF B!Init
<1>3. /\ parts = <<>> /\ truncated = <<>> /\ used = 0 /\ taken = 0 /\ phase = "symbols"
      /\ memory = 0 \/ memory = HeaderSize
    BY DEF B!Init
<1>4. B!SymbolBudget \in Nat /\ B!Share(20) \in Nat BY <1>1, BudgetType, ShareType
<1>5. 0 <= B!SymbolBudget + BodyCap + Wrapping BY <1>4, ContextAssumption
<1>6. memory \in Nat /\ (HeaderSize <= B!Share(20) => memory <= B!Share(20)) BY <1>3, <1>4, ContextAssumption
<1>7. Len(ranked) \in Nat /\ Len(snippets) \in Nat BY <1>2
<1>8. QED BY <1>1, <1>2, <1>3, <1>5, <1>6, <1>7 DEF CbInv

\* The next symbol becomes an entry that fits, or is flagged.
LEMMA EnterKept ==
    ASSUME CbInv, phase = "symbols", Len(parts) < Len(ranked),
           NEW form \in Forms, NEW tokens \in Nat, B!Enter(form, tokens),
           used + tokens <= B!SymbolBudget + BodyCap + Wrapping
    PROVE  CbInv'
<1>1. /\ parts' = Append(parts, form) /\ truncated' = Append(truncated, form # "full")
      /\ used' = used + tokens
      /\ UNCHANGED <<window, ranked, snippets, instruction, taken, memory, phase>>
    BY DEF B!Enter, B!inputs
<1>2. /\ parts' \in Seq(Forms) /\ Len(parts') = Len(parts) + 1
      /\ parts'[Len(parts) + 1] = form
      /\ \A i \in 1 .. Len(parts) : parts'[i] = parts[i]
      /\ Len(parts) \in Nat /\ Len(ranked) \in Nat
    BY <1>1 DEF CbInv
<1>3. /\ truncated' \in Seq(BOOLEAN) /\ Len(truncated') = Len(parts) + 1
      /\ truncated'[Len(parts) + 1] = (form # "full")
      /\ \A i \in 1 .. Len(parts) : truncated'[i] = truncated[i]
    BY <1>1 DEF CbInv
<1>4. \A i \in 1 .. Len(parts') : ~truncated'[i] => parts'[i] = "full"
    <2> SUFFICES ASSUME NEW i \in 1 .. Len(parts'), ~truncated'[i] PROVE parts'[i] = "full"
        OBVIOUS
    <2>1. CASE i = Len(parts) + 1
        <3>1. form # "full" => truncated'[i] BY <1>3, <2>1
        <3>2. QED BY <1>2, <2>1, <3>1
    <2>2. CASE i # Len(parts) + 1
        <3>1. i \in 1 .. Len(parts) BY <1>2, <2>2
        <3>2. QED BY <1>2, <1>3, <3>1 DEF CbInv
    <2>3. QED BY <2>1, <2>2
<1>5. B!SymbolBudget' = B!SymbolBudget /\ B!Share(20)' = B!Share(20) BY <1>1 DEF B!SymbolBudget, B!Share
<1>6. used' \in Nat /\ used' <= B!SymbolBudget' + BodyCap + Wrapping BY <1>1, <1>5 DEF CbInv
<1>7. Len(parts') <= Len(ranked) BY <1>2
<1>8. QED BY <1>1, <1>2, <1>3, <1>4, <1>5, <1>6, <1>7 DEF CbInv

\* Every step keeps the invariant.
LEMMA CbStep == CbInv /\ [B!Next]_B!vars => CbInv'
<1> SUFFICES ASSUME CbInv, [B!Next]_B!vars PROVE CbInv'
    OBVIOUS
<1>0. /\ window \in Nat /\ used \in Nat /\ memory \in Nat /\ B!SymbolBudget \in Nat /\ B!Share(20) \in Nat
      /\ Len(parts) \in Nat /\ Len(ranked) \in Nat /\ Len(snippets) \in Nat
    <2>1. window \in Nat /\ used \in Nat /\ memory \in Nat BY DEF CbInv
    <2>2. B!SymbolBudget \in Nat BY <2>1, BudgetType
    <2>3. B!Share(20) \in Nat BY <2>1, ShareType
    <2>4. parts \in Seq(Forms) /\ ranked \in Seq(SymbolSizes) /\ snippets \in Seq(SnippetSizes)
        BY DEF CbInv
    <2>5. QED BY <2>1, <2>2, <2>3, <2>4
<1>1. CASE UNCHANGED B!vars
    BY <1>1 DEF B!vars, B!inputs, CbInv, B!SymbolBudget, B!Share
<1>2. CASE B!AddSymbol
    <2> DEFINE symbol == ranked[Len(parts) + 1]
               remaining == B!SymbolBudget - used
    <2>1. /\ phase = "symbols" /\ Len(parts) < Len(ranked)
          /\ IF used >= B!SymbolBudget THEN B!Enter("none", 0)
             ELSE IF symbol.sig * 2 <= remaining THEN B!Enter("full", symbol.sig + B!Body(symbol))
             ELSE IF symbol.sig <= remaining THEN B!Enter("signature", symbol.sig + NoteSize)
             ELSE B!Enter("none", 0)
        BY <1>2 DEF B!AddSymbol
    <2>2. symbol \in SymbolSizes
        <3>1. Len(parts) + 1 \in 1 .. Len(ranked) BY <1>0, <2>1
        <3>2. QED BY <3>1 DEF CbInv
    <2>3. symbol.sig \in Nat /\ symbol.file \in Nat BY <2>2, ContextAssumption
    <2> HIDE DEF symbol
    <2>4. B!Body(symbol) \in Nat /\ B!Body(symbol) <= BodyCap + Wrapping
        BY <2>3, ContextAssumption DEF B!Body
    <2>5. {"full", "signature", "none"} \subseteq Forms /\ used <= B!SymbolBudget + BodyCap + Wrapping
        BY DEF Forms, CbInv
    <2>6. CASE B!Enter("none", 0)
        <3>1. used + 0 <= B!SymbolBudget + BodyCap + Wrapping BY <1>0, <2>5
        <3>2. QED BY <2>1, <2>5, <2>6, <3>1, EnterKept
    <2>7. CASE B!Enter("full", symbol.sig + B!Body(symbol)) /\ symbol.sig * 2 <= remaining
        <3> DEFINE s == symbol.sig
                   b == B!Body(symbol)
                   budget == B!SymbolBudget
        <3>3. /\ s \in Nat /\ b \in Nat /\ budget \in Nat /\ s * 2 <= budget - used
              /\ b <= BodyCap + Wrapping
            BY <1>0, <2>3, <2>4, <2>7
        <3> HIDE DEF s, b, budget
        <3>4. used + (s + b) <= budget + BodyCap + Wrapping /\ s + b \in Nat
            BY <1>0, <3>3, ContextAssumption
        <3>1. used + (symbol.sig + B!Body(symbol)) <= B!SymbolBudget + BodyCap + Wrapping
              /\ symbol.sig + B!Body(symbol) \in Nat
            BY <3>4 DEF s, b, budget
        <3>2. QED BY <2>1, <2>5, <2>7, <3>1, EnterKept
    <2>8. CASE B!Enter("signature", symbol.sig + NoteSize) /\ symbol.sig <= remaining
        <3>1. used + (symbol.sig + NoteSize) <= B!SymbolBudget + BodyCap + Wrapping
              /\ symbol.sig + NoteSize \in Nat
            BY <1>0, <2>3, <2>8, ContextAssumption
        <3>2. QED BY <2>1, <2>5, <2>8, <3>1, EnterKept
    <2>9. QED BY <2>1, <2>6, <2>7, <2>8
<1>3. CASE B!EndSymbols
    BY <1>3 DEF B!EndSymbols, B!inputs, CbInv, B!SymbolBudget, B!Share
<1>4. CASE B!AddSnippet
    <2>1. /\ taken < Len(snippets) /\ phase = "memory"
          /\ memory + snippets[taken + 1] <= B!Share(20)
          /\ taken' = taken + 1 /\ memory' = memory + snippets[taken + 1]
          /\ UNCHANGED <<window, ranked, snippets, instruction, parts, truncated, used, phase>>
        BY <1>4 DEF B!AddSnippet, B!inputs
    <2>7. taken \in 0 .. Len(snippets) /\ snippets \in Seq(SnippetSizes) BY DEF CbInv
    <2>2. taken + 1 \in 1 .. Len(snippets) /\ taken + 1 \in 0 .. Len(snippets) BY <1>0, <2>1, <2>7
    <2>8. snippets[taken + 1] \in SnippetSizes BY <2>2, <2>7, ElementOfSeq
    <2>3. snippets[taken + 1] \in Nat BY <2>8, ContextAssumption
    <2>4. B!SymbolBudget' = B!SymbolBudget /\ B!Share(20)' = B!Share(20) BY <2>1 DEF B!SymbolBudget, B!Share
    <2>5. memory' \in Nat /\ memory' <= B!Share(20) BY <1>0, <2>1, <2>3
    <2>6. QED BY <2>1, <2>2, <2>4, <2>5 DEF CbInv
<1>5. CASE B!EndSnippets
    BY <1>5 DEF B!EndSnippets, B!inputs, CbInv, B!SymbolBudget, B!Share
<1>6. QED BY <1>1, <1>2, <1>3, <1>4, <1>5 DEF B!Next

\* The invariant has all that BudgetFlagged asks: the shares add up to the window.
LEMMA CbHolds == CbInv => B!BudgetFlagged
<1> SUFFICES ASSUME CbInv, phase = "done" PROVE B!BudgetFlagged
    BY DEF B!BudgetFlagged
<1>1. \A i \in DOMAIN ranked : ~truncated[i] => parts[i] = "full"
    <2>1. DOMAIN ranked = 1 .. Len(parts) BY DEF CbInv
    <2>2. QED BY <2>1 DEF CbInv
<1>2. used <= B!SymbolBudget + BodyCap + Wrapping BY DEF CbInv
<1>3. ASSUME BodyCap + Wrapping <= B!Share(10), HeaderSize <= B!Share(20), SystemSize + instruction <= B!Share(15)
      PROVE  B!Total <= window /\ B!HeadroomRemaining = window - B!Total
    <2>1. /\ B!Share(10) \in Nat /\ B!Share(15) \in Nat /\ B!Share(20) \in Nat /\ B!Share(55) \in Nat
          /\ window \in Nat /\ used \in Nat /\ memory \in Nat /\ instruction \in Nat
        BY ShareType DEF CbInv
    <2>2. B!SymbolBudget = B!Share(55)
        <3>1. ~(SystemSize > B!Share(15)) BY <1>3, <2>1, ContextAssumption
        <3>2. QED BY <2>1, <3>1 DEF B!SymbolBudget
    <2>3. memory <= B!Share(20) BY <1>3 DEF CbInv
    <2>4. B!Share(10) + B!Share(15) + B!Share(20) + B!Share(55) <= window
        <3>1. \A p \in {10, 15, 20, 55} : 100 * ((window * p) \div 100) <= window * p
            BY <2>1
        <3>2. QED BY <2>1, <3>1 DEF B!Share
    <2>5. B!Total <= window
        BY <1>2, <1>3, <2>1, <2>2, <2>3, <2>4, ContextAssumption DEF B!Total
    <2>6. B!Total \in Nat BY <2>1, ContextAssumption DEF B!Total
    <2>7. B!HeadroomRemaining = window - B!Total BY <2>1, <2>5, <2>6 DEF B!HeadroomRemaining
    <2>8. QED BY <2>5, <2>7
<1>4. QED BY <1>1, <1>2, <1>3 DEF B!BudgetFlagged

\* In RunEffects Context moves as its module says, or not at all.
LEMMA ContextBeside == RunEffectsSpec => B!Spec
  <1>1. RunEffectsInit => B!Init
    BY DEF RunEffectsInit
  <1>2. [RunEffectsNext]_runEffects => [B!Next]_B!vars
    BY DEF RunEffectsNext, SharedStep, SoloStep, RoutingStep, ContextStep, RepositoryStep, CheckpointsStep,
           CliStep, MergedStep, VerificationStep, VmsStep, runEffects, context, B!vars, B!inputs
  <1>. QED
    BY <1>1, <1>2, PTL DEF RunEffectsSpec, B!Spec

\* BudgetFlagged: whatever sizes the symbols, the memory, the instruction and
\* the window have, a symbol that is not flagged is there in full, the symbols
\* exceed their budget by one body at most, and the prompt fits every window
\* whose reserve holds one body (ContextBudgetManager.assemble_context).
THEOREM BudgetIsFlagged == RunEffectsSpec => []BudgetFlagged
  <1>1. B!Spec => []B!BudgetFlagged
    BY CbInit, CbStep, CbHolds, PTL DEF B!Spec
  <1>. QED
    BY <1>1, ContextBeside, PTL DEF BudgetFlagged

----------------------------------------------------------------------------
(* Reproduction and tests (Verification) *)

\* What the verifier runs for a world without a mock, and what it runs for the
\* base: the commands of the reproduction, where it left any.
Tests == IF world.script.tests = "yes" THEN "script" ELSE "suite"
OnBase == CASE preCmds = <<"script">> -> "script" [] preCmds = <<"file">> -> "file" [] OTHER -> Tests

Row(cmd, purpose) == [cmd |-> cmd, purpose |-> purpose]
Passes(cmd) == (cmd = "script" /\ world.repro[baseTree]) \/ (cmd = "suite" /\ world.suite[baseTree])

AllLeft == <<Row(Tests, "test"), Row(OnBase, "pre"), Row(Tests, "post")>>
BaseLeft == <<Row(OnBase, "pre"), Row(Tests, "post")>>
PostLeft == <<Row(Tests, "post")>>

\* Deterministic tests, and none of them a mock or refused by the policy.
Plain == ~world.mock /\ ~world.flaky
Runnable == Plain /\ world.script.tests # "refused"

\* What a result says of the tree: one that is not there yet says nothing.
Explained(r) ==
    /\ r.failedOnBase => toolFaults > 0 \/ ~Passes(OnBase)
    /\ (left = <<>> /\ r.passedAfter) => Passes(Tests)

\* What the proof needs to know of the types.
VerTypes ==
    /\ world \in V!Worlds /\ toolFaults \in Nat
    /\ stage \in {"reproduction", "patcher", "verifier", "pipeline", "decided", "done"}

\* The commands of the reproduction are those of the answer, unless its file
\* could not be written or deleted.
FromAnswer(cmds) ==
    cmds = CASE world.script.runs = "command" -> <<"script">>
             [] world.script.runs = "file" -> <<"file">>
             [] OTHER -> <<>>
BaseCommands ==
    stage # "reproduction" /\ ~world.mock =>
        /\ preCmds \in {<<>>, <<"script">>, <<"file">>}
        /\ toolFaults > 0 \/ FromAnswer(preCmds)

\* What a flip may rest on, other than the patch.
Misread ==
    \/ world.script.runs = "file"
    \/ world.script = [runs |-> "command", tests |-> "no"] /\ ~world.repro[baseTree]

\* The pipeline runs what is left of its three rows, in their order.
Pipeline ==
    stage = "pipeline" /\ Plain =>
        /\ Runnable
        /\ results \in [failedOnBase : BOOLEAN, passedAfter : BOOLEAN, testsPassed : BOOLEAN]
        /\ left \in {AllLeft, BaseLeft, PostLeft, <<>>}
        /\ Explained(results)

\* A flip was judged, and rests on a fault or on another command than the tests.
Judgement ==
    /\ verdict.flip => stage \in {"decided", "done"}
    /\ verdict.flip /\ Plain => (toolFaults > 0 \/ Misread) /\ Passes(Tests)

VerInv == VerTypes /\ BaseCommands /\ Pipeline /\ Judgement

\* Nothing was run yet.
LEMMA VerInit == V!Init => VerInv
  <1>. SUFFICES ASSUME V!Init PROVE VerInv
    OBVIOUS
  <1>1. PICK w \in V!Worlds : V!InitOf(w)
    BY DEF V!Init
  <1>. QED
    BY <1>1 DEF V!InitOf, VerInv, VerTypes, BaseCommands, Pipeline, Judgement, V!NoResults, V!NoVerdict

\* A command that runs in a sandbox fails where the tree does not pass it, or by a fault.
LEMMA AnswerOf ==
    ASSUME world \in V!Worlds, ~world.flaky, toolFaults \in Nat, NEW cmd \in {"script", "suite", "file"},
           NEW passed \in BOOLEAN, V!Executes(cmd, FALSE, passed)
    PROVE  /\ toolFaults' \in Nat /\ toolFaults' >= toolFaults
           /\ passed => Passes(cmd)
           /\ ~passed => toolFaults' > 0 \/ ~Passes(cmd)
  <1>1. world.repro[baseTree] \in BOOLEAN \/ baseTree \notin V!Trees
    BY DEF V!Worlds
  <1>2. CASE passed \in V!Outcomes(cmd, FALSE) /\ UNCHANGED toolFaults
    <2>1. CASE cmd = "script"
      <3>1. passed = world.repro[baseTree]
        BY <1>2, <2>1 DEF V!Outcomes
      <3>. QED  BY <3>1, <2>1, <1>2 DEF Passes
    <2>2. CASE cmd = "suite"
      <3>1. passed = world.suite[baseTree]
        BY <1>2, <2>2 DEF V!Outcomes
      <3>. QED  BY <3>1, <2>2, <1>2 DEF Passes
    <2>3. CASE cmd = "file"
      <3>1. passed = FALSE
        BY <1>2, <2>3 DEF V!Outcomes
      <3>. QED  BY <3>1, <2>3, <1>2 DEF Passes
    <2>. QED  BY <2>1, <2>2, <2>3
  <1>3. CASE passed = FALSE /\ toolFaults < MaxToolFaults /\ toolFaults' = toolFaults + 1
    BY <1>3
  <1>. QED  BY <1>2, <1>3 DEF V!Executes

\* Two rows, one after the other.
LEMMA TwoRows ==
    ASSUME NEW x, NEW y
    PROVE  <<x>> \o <<y>> = <<x, y>>
  <1>. DEFINE s == <<x>>
              u == <<y>>
              v == <<x, y>>
              S == {x, y}
  <1>1. s \in Seq(S) /\ u \in Seq(S) /\ v \in Seq(S) /\ Len(s) = 1 /\ Len(u) = 1 /\ Len(v) = 2
    OBVIOUS
  <1>2. s[1] = x /\ u[1] = y /\ v[1] = x /\ v[2] = y
    OBVIOUS
  <1>. HIDE DEF s, u, v, S
  <1>3. s \o u \in Seq(S) /\ Len(s \o u) = 2 /\ (s \o u)[1] = x /\ (s \o u)[2] = y
    BY <1>1, <1>2, ConcatProperties
  <1>4. \A i \in 1 .. Len(v) : (s \o u)[i] = v[i]
    BY <1>1, <1>2, <1>3
  <1>5. s \o u = v
    BY <1>1, <1>3, <1>4, SeqEqual
  <1>. QED
    BY <1>5 DEF s, u, v

\* Three rows, one after the other.
LEMMA ThreeRows ==
    ASSUME NEW x, NEW y, NEW z
    PROVE  <<x>> \o <<y>> \o <<z>> = <<x, y, z>>
  <1>. DEFINE s == <<x, y>>
              u == <<z>>
              v == <<x, y, z>>
              S == {x, y, z}
  <1>1. /\ s \in Seq(S) /\ u \in Seq(S) /\ v \in Seq(S)
        /\ Len(s) = 2 /\ Len(u) = 1 /\ Len(v) = 3
    OBVIOUS
  <1>2. s[1] = x /\ s[2] = y /\ u[1] = z /\ v[1] = x /\ v[2] = y /\ v[3] = z
    OBVIOUS
  <1>. HIDE DEF s, u, v, S
  <1>3. /\ s \o u \in Seq(S) /\ Len(s \o u) = Len(s) + Len(u)
        /\ \A i \in 1 .. Len(s) + Len(u) :
              (s \o u)[i] = IF i <= Len(s) THEN s[i] ELSE u[i - Len(s)]
    BY <1>1, ConcatProperties
  <1>4. (s \o u)[1] = x /\ (s \o u)[2] = y /\ (s \o u)[3] = z /\ Len(s \o u) = Len(v)
    BY <1>1, <1>2, <1>3
  <1>5. \A i \in 1 .. Len(v) : (s \o u)[i] = v[i]
    <2>1. \A i \in 1 .. 3 : i = 1 \/ i = 2 \/ i = 3
      OBVIOUS
    <2>. QED  BY <1>1, <1>2, <1>4, <2>1
  <1>6. s \o u = v
    BY <1>1, <1>3, <1>4, <1>5, SeqEqual
  <1>. QED
    BY <1>6, TwoRows DEF s, u, v

\* The rows of a pipeline of one test and one command for the base.
LEMMA PipelineRows ==
    ASSUME NEW a, NEW b
    PROVE  V!Purposed(<<a>>, "test") \o V!Purposed(<<b>>, "pre") \o V!Purposed(<<a>>, "post")
             = <<Row(a, "test"), Row(b, "pre"), Row(a, "post")>>
  <1>1. \A c, p : V!Purposed(<<c>>, p) = <<Row(c, p)>>
    BY DEF V!Purposed, Row
  <1>. DEFINE x == Row(a, "test")
              y == Row(b, "pre")
              z == Row(a, "post")
  <1>2. V!Purposed(<<a>>, "test") = <<x>> /\ V!Purposed(<<b>>, "pre") = <<y>> /\ V!Purposed(<<a>>, "post") = <<z>>
    BY <1>1
  <1>3. <<x>> \o <<y>> \o <<z>> = <<x, y, z>>
    BY ThreeRows
  <1>4. V!Purposed(<<a>>, "test") \o V!Purposed(<<b>>, "pre") \o V!Purposed(<<a>>, "post") = <<x, y, z>>
    <2>. HIDE DEF x, y, z
    <2>. QED  BY <1>2, <1>3
  <1>. QED
    BY <1>4

\* Every step keeps the invariant.
LEMMA VerStep == VerInv /\ [V!Next]_V!verificationVars => VerInv'
  <1>. SUFFICES ASSUME VerInv, [V!Next]_V!verificationVars PROVE VerInv'
    OBVIOUS
  <1>. USE DEF VerInv
  <1>1. CASE V!Reproduce
    <2>1. toolFaults' \in Nat
      <3>1. toolFaults' = toolFaults \/ toolFaults' = toolFaults + 1
        BY <1>1 DEF V!Reproduce, V!Executes
      <3>. QED  BY <3>1 DEF VerTypes
    <2>2. VerTypes'
      BY <1>1, <2>1 DEF V!Reproduce, VerTypes
    <2>3. BaseCommands'
      <3>. SUFFICES ASSUME ~world.mock PROVE preCmds' \in {<<>>, <<"script">>, <<"file">>} /\ FromAnswer(preCmds)'
        BY <1>1 DEF V!Reproduce, BaseCommands
      <3>0. world' = world
        BY <1>1 DEF V!Reproduce
      <3>1. CASE world.script.runs = "command"
        BY <1>1, <3>0, <3>1 DEF V!Reproduce, V!ReproCmd, FromAnswer
      <3>2. CASE world.script.runs = "file"
        BY <1>1, <3>0, <3>2 DEF V!Reproduce, V!ReproCmd, FromAnswer
      <3>3. CASE world.script.runs \notin {"command", "file"}
        BY <1>1, <3>0, <3>3 DEF V!Reproduce, V!ReproCmd, FromAnswer
      <3>. QED  BY <3>1, <3>2, <3>3
    <2>4. Pipeline'
      BY <1>1 DEF V!Reproduce, Pipeline
    <2>5. Judgement'
      BY <1>1 DEF V!Reproduce, Judgement
    <2>. QED  BY <2>2, <2>3, <2>4, <2>5
  <1>10. CASE V!ReproduceBadly
    <2>1. /\ stage = "reproduction" /\ stage' = "patcher" /\ UNCHANGED <<world, baseTree, verdict>>
          /\ toolFaults' = toolFaults + 1 /\ preCmds' \in {<<>>, <<"script">>}
      BY <1>10 DEF V!ReproduceBadly
    <2>2. VerTypes' /\ toolFaults' > 0
      BY <2>1 DEF VerTypes
    <2>3. BaseCommands' /\ Pipeline' /\ Judgement'
      BY <2>1, <2>2 DEF BaseCommands, Pipeline, Judgement
    <2>. QED  BY <2>2, <2>3
  <1>2. CASE V!Patch
    <2>1. VerTypes' /\ BaseCommands'
      BY <1>2 DEF V!Patch, VerTypes, BaseCommands, FromAnswer
    <2>2. Pipeline' /\ Judgement'
      BY <1>2 DEF V!Patch, Pipeline, Judgement
    <2>. QED  BY <2>1, <2>2
  <1>3. CASE V!VerifierRefused
    BY <1>3 DEF V!VerifierRefused, VerTypes, BaseCommands, FromAnswer, Pipeline, Judgement, V!NoVerdict
  <1>4. CASE V!VerifierStarts
    <2>1. VerTypes' /\ BaseCommands' /\ Judgement'
      BY <1>4 DEF V!VerifierStarts, VerTypes, BaseCommands, FromAnswer, Judgement, V!NoVerdict, V!NoResults
    <2>2. ASSUME Plain
          PROVE  Runnable' /\ left' = AllLeft' /\ left' # <<>>
      <3>1. world' = world /\ baseTree' = baseTree /\ preCmds' = preCmds /\ Runnable
        BY <1>4, <2>2 DEF V!VerifierStarts, Runnable, Plain
      <3>2. world.script.tests \in {"yes", "no"} /\ ~world.mock
        BY <3>1 DEF VerTypes, V!Worlds, V!Scripts, Runnable, Plain
      <3>3. V!TestCmds = <<Tests>>
        BY <3>2 DEF V!TestCmds, Tests
      <3>4. V!PreCmds = <<OnBase>>
        <4>1. preCmds \in {<<>>, <<"script">>, <<"file">>}
          BY <1>4, <3>2 DEF BaseCommands, V!VerifierStarts
        <4>2. CASE preCmds = <<>>
          BY <3>3, <4>2 DEF V!PreCmds, OnBase
        <4>3. CASE preCmds = <<"script">>
          BY <4>3 DEF V!PreCmds, OnBase
        <4>4. CASE preCmds = <<"file">>
          BY <4>4 DEF V!PreCmds, OnBase
        <4>. QED  BY <4>1, <4>2, <4>3, <4>4
      <3>5. left' = AllLeft
        BY <1>4, <3>3, <3>4, PipelineRows DEF V!VerifierStarts, AllLeft
      <3>6. AllLeft' = AllLeft
        BY <3>1 DEF AllLeft, Tests, OnBase
      <3>7. left' # <<>>
        BY <3>5 DEF AllLeft
      <3>. QED  BY <3>1, <3>5, <3>6, <3>7 DEF Runnable, Plain
    <2>3. results' = V!NoResults /\ world' = world
      BY <1>4 DEF V!VerifierStarts
    <2>4. Pipeline'
      BY <2>2, <2>3 DEF Pipeline, Plain, Explained, V!NoResults
    <2>. QED  BY <2>1, <2>4
  <1>5. CASE V!RunCommand
    <2>0. /\ stage = "pipeline" /\ left # <<>> /\ left' = Tail(left)
          /\ UNCHANGED <<world, stage, baseTree, preCmds, repro, verdict, status>>
      BY <1>5 DEF V!RunCommand
    <2>1. PICK passed \in BOOLEAN :
              /\ V!Executes(Head(left).cmd, FALSE, passed)
              /\ results' = CASE Head(left).purpose = "test" -> [results EXCEPT !.testsPassed = @ /\ passed]
                          [] Head(left).purpose = "pre"  -> [results EXCEPT !.failedOnBase = @ \/ ~passed]
                          [] Head(left).purpose = "post" -> [results EXCEPT !.passedAfter = @ /\ passed]
      BY <1>5 DEF V!RunCommand
    <2>2. VerTypes' /\ BaseCommands' /\ Judgement'
      <3>1. toolFaults' = toolFaults \/ (toolFaults \in Nat /\ toolFaults' = toolFaults + 1)
        BY <2>1 DEF V!Executes, VerTypes
      <3>2. toolFaults' \in Nat
        BY <3>1 DEF VerTypes
      <3>4. BaseCommands'
        <4>1. FromAnswer(preCmds)' <=> FromAnswer(preCmds)
          BY <2>0 DEF FromAnswer
        <4>2. toolFaults > 0 => toolFaults' > 0
          BY <3>1 DEF VerTypes
        <4>. QED  BY <2>0, <4>1, <4>2 DEF BaseCommands
      <3>5. Judgement'
        BY <2>0 DEF Judgement
      <3>6. VerTypes'
        BY <2>0, <3>2 DEF VerTypes
      <3>. QED  BY <3>4, <3>5, <3>6
    <2>3. ASSUME Plain
          PROVE  /\ results' \in [failedOnBase : BOOLEAN, passedAfter : BOOLEAN, testsPassed : BOOLEAN]
                 /\ left' \in {BaseLeft, PostLeft, <<>>}
                 /\ Explained(results)'
      <3>1. /\ Runnable /\ left \in {AllLeft, BaseLeft, PostLeft} /\ Explained(results)
            /\ results \in [failedOnBase : BOOLEAN, passedAfter : BOOLEAN, testsPassed : BOOLEAN]
        BY <2>0, <2>3 DEF Pipeline
      <3>2. /\ Tests \in {"script", "suite", "file"} /\ OnBase \in {"script", "suite", "file"}
            /\ Tests' = Tests /\ OnBase' = OnBase
        BY <2>0 DEF Tests, OnBase
      <3>3. /\ toolFaults \in Nat /\ world \in V!Worlds /\ ~world.flaky
        BY <2>3 DEF VerTypes, Plain
      <3>4. Passes(Tests)' = Passes(Tests) /\ Passes(OnBase)' = Passes(OnBase)
        BY <2>0, <3>2 DEF Passes
      <3>5. CASE left = AllLeft
        <4>1. Head(left) = Row(Tests, "test") /\ left' = BaseLeft /\ BaseLeft # <<>>
          BY <2>0, <3>5 DEF AllLeft, BaseLeft
        <4>2. results' = [results EXCEPT !.testsPassed = @ /\ passed]
          BY <2>1, <4>1 DEF Row
        <4>3. V!Executes(Tests, FALSE, passed)
          <5>1. V!Executes(Head(left).cmd, FALSE, passed)
            BY <2>1
          <5>2. Head(left).cmd = Tests
            BY <4>1 DEF Row
          <5>. QED  BY <5>1, <5>2
        <4>4. toolFaults' \in Nat /\ toolFaults' >= toolFaults
          BY <3>2, <3>3, <4>3, AnswerOf
        <4>5. results'.failedOnBase = results.failedOnBase
          BY <4>2, <3>1
        <4>6. Explained(results)'
          BY <3>1, <3>3, <3>4, <4>1, <4>4, <4>5 DEF Explained
        <4>. QED  BY <4>1, <4>2, <4>6, <3>1
      <3>6. CASE left = BaseLeft
        <4>1. Head(left) = Row(OnBase, "pre") /\ left' = PostLeft /\ PostLeft # <<>>
          BY <2>0, <3>6 DEF PostLeft, BaseLeft
        <4>2. results' = [results EXCEPT !.failedOnBase = @ \/ ~passed]
          BY <2>1, <4>1 DEF Row
        <4>3. V!Executes(OnBase, FALSE, passed)
          <5>1. V!Executes(Head(left).cmd, FALSE, passed)
            BY <2>1
          <5>2. Head(left).cmd = OnBase
            BY <4>1 DEF Row
          <5>. QED  BY <5>1, <5>2
        <4>4. toolFaults' \in Nat /\ toolFaults' >= toolFaults /\ (~passed => toolFaults' > 0 \/ ~Passes(OnBase))
          BY <3>2, <3>3, <4>3, AnswerOf
        <4>5. results'.failedOnBase = (results.failedOnBase \/ ~passed)
          BY <4>2, <3>1
        <4>6. Explained(results)'
          BY <3>1, <3>3, <3>4, <4>1, <4>4, <4>5 DEF Explained
        <4>. QED  BY <4>1, <4>2, <4>6, <3>1
      <3>7. CASE left = PostLeft
        <4>1. Head(left) = Row(Tests, "post") /\ left' = <<>>
          BY <2>0, <3>7 DEF PostLeft
        <4>2. results' = [results EXCEPT !.passedAfter = @ /\ passed]
          BY <2>1, <4>1 DEF Row
        <4>3. V!Executes(Tests, FALSE, passed)
          <5>1. V!Executes(Head(left).cmd, FALSE, passed)
            BY <2>1
          <5>2. Head(left).cmd = Tests
            BY <4>1 DEF Row
          <5>. QED  BY <5>1, <5>2
        <4>4. toolFaults' \in Nat /\ toolFaults' >= toolFaults /\ (passed => Passes(Tests))
          BY <3>2, <3>3, <4>3, AnswerOf
        <4>5. /\ results'.failedOnBase = results.failedOnBase
              /\ results'.passedAfter = (results.passedAfter /\ passed)
          BY <4>2, <3>1
        <4>6. Explained(results)'
          BY <3>1, <3>3, <3>4, <4>1, <4>4, <4>5 DEF Explained
        <4>. QED  BY <4>1, <4>2, <4>6, <3>1
      <3>. QED  BY <3>1, <3>5, <3>6, <3>7
    <2>4. BaseLeft' = BaseLeft /\ PostLeft' = PostLeft /\ (Runnable <=> Runnable') /\ (Plain <=> Plain')
      BY <2>0 DEF BaseLeft, PostLeft, Runnable, Plain, Tests, OnBase
    <2>5. Plain => Runnable
      BY <2>0 DEF Pipeline
    <2>6. Pipeline'
      BY <2>3, <2>4, <2>5 DEF Pipeline
    <2>. QED  BY <2>2, <2>6
  <1>6. CASE V!Decide
    <2>. DEFINE confidence == V!Confidence(V!Flip, world.lines)
    <2>1. /\ stage = "pipeline" /\ left = <<>> /\ stage' = "decided" /\ verdict'.flip = V!Flip
          /\ UNCHANGED <<world, baseTree, preCmds, repro, left, results, status, toolFaults>>
      BY <1>6 DEF V!Decide
    <2>2. VerTypes' /\ BaseCommands' /\ Pipeline'
      BY <2>1 DEF VerTypes, BaseCommands, FromAnswer, Pipeline
    <2>3. ASSUME Plain, V!Flip
          PROVE  (toolFaults > 0 \/ Misread) /\ Passes(Tests)
      <3>1. Explained(results) /\ Runnable
        BY <2>1, <2>3 DEF Pipeline
      <3>2. Passes(Tests) /\ (toolFaults > 0 \/ ~Passes(OnBase))
        BY <2>1, <2>3, <3>1 DEF Explained, V!Flip
      <3>3. ASSUME ~(toolFaults > 0), world.script.runs # "file" PROVE Misread
        <4>1. FromAnswer(preCmds) /\ ~Passes(OnBase)
          BY <2>1, <2>3, <3>2, <3>3 DEF BaseCommands, Plain
        <4>2. world.script.runs = "command"
          <5>1. CASE world.script.runs # "command"
            <6>1. preCmds = <<>>
              BY <3>3, <4>1, <5>1 DEF FromAnswer
            <6>2. OnBase = Tests
              BY <6>1 DEF OnBase
            <6>. QED  BY <3>2, <4>1, <6>2
          <5>. QED  BY <5>1
        <4>3. OnBase = "script"
          BY <4>1, <4>2 DEF FromAnswer, OnBase
        <4>4. ~world.repro[baseTree]
          BY <4>1, <4>3 DEF Passes
        <4>5. Tests # "script"
          BY <3>2, <4>1, <4>3
        <4>6. world.script \in V!Scripts
          BY DEF VerTypes, V!Worlds
        <4>7. world.script.tests = "no"
          BY <3>1, <4>5, <4>6 DEF V!Scripts, Runnable, Tests
        <4>8. world.script = [runs |-> "command", tests |-> "no"]
          BY <4>2, <4>6, <4>7 DEF V!Scripts
        <4>. QED  BY <4>4, <4>8 DEF Misread
      <3>. QED  BY <3>2, <3>3 DEF Misread
    <2>4. Judgement'
      BY <2>1, <2>3 DEF Judgement, Misread, Plain, Passes, Tests
    <2>. QED  BY <2>2, <2>4
  <1>7. CASE V!Finish
    <2>1. /\ stage = "decided" /\ stage' = "done"
          /\ UNCHANGED <<world, baseTree, preCmds, repro, left, results, verdict, toolFaults>>
      BY <1>7 DEF V!Finish
    <2>. QED  BY <2>1 DEF VerTypes, BaseCommands, FromAnswer, Pipeline, Judgement, Misread, Plain, Passes, Tests
  <1>8. CASE V!ReportCi
    <2>1. UNCHANGED <<world, stage, baseTree, preCmds, repro, left, results, verdict, toolFaults>>
      BY <1>8 DEF V!ReportCi
    <2>2. VerTypes' /\ BaseCommands' /\ Judgement'
      BY <2>1 DEF VerTypes, BaseCommands, FromAnswer, Judgement, Misread, Plain, Passes, Tests
    <2>3. stage' # "pipeline"
      BY <1>8 DEF V!ReportCi
    <2>. QED  BY <2>2, <2>3 DEF Pipeline
  <1>9. CASE UNCHANGED V!verificationVars
    <2>1. UNCHANGED <<world, stage, baseTree, preCmds, repro, left, results, verdict, toolFaults>>
      BY <1>9 DEF V!verificationVars
    <2>2. VerTypes' /\ BaseCommands' /\ Judgement'
      BY <2>1 DEF VerTypes, BaseCommands, FromAnswer, Judgement, Misread, Plain, Passes, Tests
    <2>3. Pipeline'
      BY <2>1 DEF Pipeline, Plain, Runnable, Explained, Passes, Tests, OnBase, AllLeft, BaseLeft, PostLeft
    <2>. QED  BY <2>2, <2>3
  <1>. QED
    BY <1>1, <1>2, <1>3, <1>4, <1>5, <1>6, <1>7, <1>8, <1>9, <1>10 DEF V!Next

\* The invariant has all that FlipSources asks.
LEMMA VerHolds == VerInv => V!FlipSources
  <1>. SUFFICES ASSUME VerInv, verdict.flip, ~world.mock, ~world.flaky
                PROVE  /\ toolFaults > 0 \/ Misread
                       /\ IF world.script.tests = "yes" THEN world.repro[baseTree] ELSE world.suite[baseTree]
    BY DEF V!FlipSources, Misread
  <1>1. (toolFaults > 0 \/ Misread) /\ Passes(Tests)
    BY DEF VerInv, Judgement, Plain
  <1>. QED  BY <1>1 DEF Passes, Tests

\* In RunEffects Verification moves as its module says, or not at all.
LEMMA VerificationBeside == RunEffectsSpec => V!Spec
  <1>1. RunEffectsInit => V!Init
    <2>1. V!InitOf(SomeWorld) => V!Init
      BY StandingAssumption DEF V!Init
    <2>. QED  BY <2>1 DEF RunEffectsInit
  <1>2. [RunEffectsNext]_runEffects => [V!Next]_V!verificationVars
    BY DEF RunEffectsNext, SharedStep, SoloStep, RoutingStep, ContextStep, RepositoryStep, CheckpointsStep,
           CliStep, MergedStep, VerificationStep, VmsStep, runEffects, verification, V!verificationVars
  <1>. QED
    BY <1>1, <1>2, PTL DEF RunEffectsSpec, V!Spec

\* FlipSources: a flip from failing to passing, of tests that are neither a
\* mock nor flaky, comes with a tool that failed, with code whose file is gone,
\* or with a command that only the reproduction took for one and that fails
\* after the patch too; and with tests that pass on the tree as it is then
\* (ReproductionAgent.execute, VerifierAgent.execute, evaluate_reproduction_async).
THEOREM FlipRests == RunEffectsSpec => []FlipSources
  <1>1. V!Spec => []V!FlipSources
    BY VerInit, VerStep, VerHolds, PTL DEF V!Spec
  <1>. QED
    BY <1>1, VerificationBeside, PTL DEF FlipSources

----------------------------------------------------------------------------
(* The working tree (Workspace) *)

\* Patcher agents, and snapshots of the tree on disk.
Agents == [stage : W!Stages, snapshot : Nat, result : W!Results]
Copies == [content : W!Tree, disk : {"kept", "expired", "excess"}]

\* What the proof needs to know of the types.
WsTypes ==
    /\ git \in BOOLEAN /\ tree \in W!Tree /\ patchFile \in TreeRuns \cup {NoTreeRun}
    /\ snapshots \in Seq(Copies)
    /\ agent \in [TreeRuns -> Agents]
    /\ \A r \in TreeRuns : agent[r].snapshot = W!None \/ agent[r].snapshot \in DOMAIN snapshots
    /\ mixed \subseteq TreeRuns /\ again \subseteq TreeRuns /\ rolled \subseteq TreeRuns

\* The file is that of every run whose file nobody else touched; a run has a
\* result when its patcher is over.
OwnFile ==
    \A r \in TreeRuns :
        /\ (agent[r].stage \in {"check", "apply", "unlink"} /\ r \notin mixed) => patchFile = r
        /\ agent[r].stage \in {"start", "pruned", "generate", "write", "check", "apply"}
             => agent[r].result = "none"

\* A run that may have written its patch.
Wrote(r) == r \in again \/ agent[r].stage \in {"check", "apply", "unlink", "end"}

\* Where the patch of a run that has not written it is not, and what snapshots hold.
Unwritten ==
    /\ \A r \in TreeRuns : ~Wrote(r) =>
          /\ patchFile # r /\ r \notin tree.patches
          /\ \A i \in DOMAIN snapshots : r \notin snapshots[i].content.patches
    /\ \A r \in TreeRuns : (r \notin again /\ agent[r].snapshot # W!None) =>
          r \notin snapshots[agent[r].snapshot].content.patches
    /\ ~git => \A i \in DOMAIN snapshots : snapshots[i].content.uncommitted = tree.uncommitted

\* Agents between the pruning of snapshots and their own snapshot.
Pruned == {r \in TreeRuns : agent[r].stage = "pruned"}

\* Only old snapshots are taken off the disk as too many, and few are there.
Room ==
    /\ \A i \in DOMAIN snapshots :
          snapshots[i].disk = "excess" => Len(snapshots) - i >= Retained - 1
    /\ Cardinality(W!OnDisk) + Cardinality(Pruned) <= Retained - 1 + Cardinality(TreeRuns)

WsInv == WsTypes /\ OwnFile /\ Unwritten /\ Room

\* The size of a set is the same seen from Workspace.
LEMMA RepositorySize == \A Z : W!Cardinality(Z) = Cardinality(Z)
  BY DEF W!Cardinality, Cardinality

\* An agent goes to its next stage, and the others stay.
LEMMA AgentStage ==
    ASSUME NEW f \in [TreeRuns -> Agents], NEW r \in TreeRuns, NEW st \in W!Stages,
           NEW g, g = [f EXCEPT ![r].stage = st]
    PROVE  /\ g \in [TreeRuns -> Agents] /\ \A q \in TreeRuns \ {r} : g[q] = f[q]
           /\ g[r].stage = st /\ g[r].result = f[r].result /\ g[r].snapshot = f[r].snapshot
  BY DEF Agents

\* An agent goes to its next stage with a result, and the others stay.
LEMMA AgentResult ==
    ASSUME NEW f \in [TreeRuns -> Agents], NEW r \in TreeRuns, NEW st \in W!Stages, NEW res \in W!Results,
           NEW g, g = [f EXCEPT ![r].stage = st, ![r].result = res]
    PROVE  /\ g \in [TreeRuns -> Agents] /\ \A q \in TreeRuns \ {r} : g[q] = f[q]
           /\ g[r].stage = st /\ g[r].result = res /\ g[r].snapshot = f[r].snapshot
  BY DEF Agents

\* Snapshots are numbered in the order they were made.
LEMMA CopiesAreSeqs ==
    ASSUME snapshots \in Seq(Copies)
    PROVE  /\ Len(snapshots) \in Nat /\ DOMAIN snapshots = 1 .. Len(snapshots)
           /\ \A i \in DOMAIN snapshots : snapshots[i] \in Copies
           /\ W!OnDisk \subseteq 1 .. Len(snapshots)
           /\ IsFiniteSet(W!OnDisk) /\ Cardinality(W!OnDisk) \in Nat
  <1>1. /\ Len(snapshots) \in Nat /\ DOMAIN snapshots = 1 .. Len(snapshots)
        /\ \A i \in DOMAIN snapshots : snapshots[i] \in Copies
    BY LenProperties, ElementOfSeq
  <1>2. W!OnDisk \subseteq 1 .. Len(snapshots)
    BY <1>1 DEF W!OnDisk
  <1>3. IsFiniteSet(1 .. Len(snapshots))
    BY <1>1, FS_Interval
  <1>4. IsFiniteSet(W!OnDisk)
    BY <1>2, <1>3, FS_Subset
  <1>. QED
    BY <1>1, <1>2, <1>4, FS_CardinalityType

\* No more agents are between the two steps than there are runs.
LEMMA PrunedIsFinite == IsFiniteSet(Pruned) /\ Cardinality(Pruned) \in Nat /\ Cardinality(Pruned) <= Cardinality(TreeRuns)
  <1>1. Pruned \subseteq TreeRuns
    BY DEF Pruned
  <1>. QED
    BY <1>1, RepositoryAssumption, FS_Subset, FS_CardinalityType

\* Of a finite set of numbers, no more than n have fewer than n above them.
LEMMA Youngest ==
    ASSUME NEW N, IsFiniteSet(N), N \subseteq Nat, NEW n \in Nat,
           NEW D, D = {i \in N : Cardinality({j \in N : j > i}) < n}
    PROVE  IsFiniteSet(D) /\ Cardinality(D) <= n
  <1>1. IsFiniteSet(D) /\ D \subseteq N /\ D \subseteq Nat
    BY FS_Subset
  <1>2. \A m \in D : Cardinality({j \in N : j > m}) < n
    OBVIOUS
  <1>3. SUFFICES ASSUME D # {} PROVE Cardinality(D) <= n
    <2>1. Cardinality({}) = 0
      BY FS_EmptySet
    <2>. QED  BY <1>1, <2>1
  <1>4. PICK m \in D : \A i \in D : ~(<<i, m>> \in OpToRel(<, Nat))
    BY <1>1, <1>3, WFMin, NatLessThanWellFounded
  <1>5. \A i \in D : ~(i < m)
    BY <1>1, <1>4 DEF OpToRel
  <1>. DEFINE Above == {j \in N : j > m}
  <1>6. D \ {m} \subseteq Above
    <2>. SUFFICES ASSUME NEW i \in D, i # m PROVE i > m /\ i \in N
      OBVIOUS
    <2>1. i \in Nat /\ m \in Nat /\ ~(i < m)
      BY <1>1, <1>5
    <2>. QED  BY <1>1, <2>1
  <1>7. IsFiniteSet(Above) /\ Cardinality(Above) < n /\ Cardinality(Above) \in Nat
    BY <1>2, FS_Subset, FS_CardinalityType
  <1>8. Cardinality(D \ {m}) <= Cardinality(Above)
    BY <1>6, <1>7, FS_Subset
  <1>9. Cardinality(D \ {m}) = Cardinality(D) - 1 /\ Cardinality(D) \in Nat
    BY <1>1, FS_RemoveElement, FS_CardinalityType
  <1>. HIDE DEF Above
  <1>. QED
    BY <1>7, <1>8, <1>9

\* No agent has begun.
LEMMA WsInit == W!Init => WsInv
  <1>. SUFFICES ASSUME W!Init PROVE WsInv
    OBVIOUS
  <1>1. /\ agent = [r \in TreeRuns |-> [stage |-> "start", snapshot |-> W!None, result |-> "none"]]
        /\ tree \in [patches : {{}}, uncommitted : BOOLEAN, leftOut : BOOLEAN]
        /\ git \in BOOLEAN /\ patchFile = NoTreeRun /\ snapshots = <<>>
        /\ mixed = {} /\ again = {} /\ rolled = {}
    BY DEF W!Init
  <1>2. agent \in [TreeRuns -> Agents]
    BY <1>1 DEF Agents, W!Stages, W!Results, W!None
  <1>3. tree \in W!Tree /\ tree.patches = {}
    BY <1>1 DEF W!Tree
  <1>4. snapshots \in Seq(Copies) /\ Len(snapshots) = 0 /\ DOMAIN snapshots = {}
    BY <1>1
  <1>5. WsTypes
    BY <1>1, <1>2, <1>3, <1>4 DEF WsTypes
  <1>6. OwnFile
    BY <1>1 DEF OwnFile
  <1>7. Unwritten
    BY <1>1, <1>3, <1>4, RepositoryAssumption DEF Unwritten, Wrote
  <1>8. W!OnDisk = {} /\ Pruned = {}
    BY <1>1, <1>4 DEF W!OnDisk, Pruned
  <1>9. Cardinality(W!OnDisk) = 0 /\ Cardinality(Pruned) = 0 /\ Cardinality(TreeRuns) \in Nat
    BY <1>8, FS_EmptySet, RepositoryAssumption, FS_CardinalityType
  <1>10. Room
    BY <1>4, <1>9, RepositoryAssumption DEF Room
  <1>. QED
    BY <1>5, <1>6, <1>7, <1>10 DEF WsInv

\* A step that leaves the snapshots and adds no run that has pruned keeps room.
LEMMA RoomKept ==
    ASSUME WsInv, UNCHANGED snapshots, Pruned' \subseteq Pruned
    PROVE  Room'
  <1>1. W!OnDisk' = W!OnDisk
    BY DEF W!OnDisk
  <1>2. Cardinality(Pruned') <= Cardinality(Pruned) /\ Cardinality(Pruned') \in Nat
    BY PrunedIsFinite, FS_Subset, FS_CardinalityType
  <1>3. Cardinality(W!OnDisk) \in Nat /\ Cardinality(Pruned) \in Nat /\ Cardinality(TreeRuns) \in Nat
    BY CopiesAreSeqs, PrunedIsFinite, RepositoryAssumption, FS_CardinalityType DEF WsInv, WsTypes
  <1>. QED
    BY <1>1, <1>2, <1>3, RepositoryAssumption DEF WsInv, Room

\* What a stage of one run leaves: snapshots and Git, the other runs, and its own
\* snapshot.
LEMMA StageKeeps ==
    ASSUME WsInv, NEW r \in TreeRuns, agent' \in [TreeRuns -> Agents], UNCHANGED <<git, snapshots>>,
           \A q \in TreeRuns \ {r} : agent'[q] = agent[q], agent'[r].snapshot = agent[r].snapshot,
           patchFile' \in TreeRuns \cup {NoTreeRun}, tree' \in W!Tree, tree'.uncommitted = tree.uncommitted,
           mixed' \subseteq TreeRuns, again \subseteq again', again' \subseteq TreeRuns, rolled' \subseteq TreeRuns,
           Wrote(r) => Wrote(r)',
           agent'[r].stage # "pruned",
           \A q \in TreeRuns : q \in tree'.patches => q \in tree.patches \/ q = patchFile \/ Wrote(q)',
           \A q \in TreeRuns : q = patchFile' => q = patchFile \/ Wrote(q)'
    PROVE  WsTypes' /\ Unwritten' /\ Room'
  <1>1. WsTypes'
    BY DEF WsInv, WsTypes
  <1>2. \A q \in TreeRuns : ~Wrote(q)' => ~Wrote(q)
    BY DEF Wrote
  <1>3. Unwritten'
    BY <1>2 DEF WsInv, Unwritten
  <1>4. Pruned' \subseteq Pruned
    BY DEF Pruned
  <1>5. Room'
    BY <1>4, RoomKept
  <1>. QED
    BY <1>1, <1>3, <1>5

\* Old snapshots are deleted before a new one is made (prune_snapshots).
LEMMA PruneStep ==
    ASSUME WsInv, NEW r \in TreeRuns, W!Prune(r)
    PROVE  WsInv'
  <1>1. /\ agent[r].stage = "start" /\ agent' = [agent EXCEPT ![r].stage = "pruned"]
        /\ UNCHANGED <<git, tree, patchFile, mixed, again, rolled>>
    BY DEF W!Prune, W!Step
  <1>2. PICK expired \in W!Expirable :
          snapshots' = [i \in DOMAIN snapshots |->
              IF i \in expired THEN [snapshots[i] EXCEPT !.disk = "expired"]
              ELSE IF i \in W!Excess(W!OnDisk, Retained - 1) THEN [snapshots[i] EXCEPT !.disk = "excess"]
              ELSE snapshots[i]]
    BY DEF W!Prune
  <1>3. agent \in [TreeRuns -> Agents] /\ snapshots \in Seq(Copies)
    BY DEF WsInv, WsTypes
  <1>4. /\ agent' \in [TreeRuns -> Agents] /\ \A q \in TreeRuns \ {r} : agent'[q] = agent[q]
        /\ agent'[r].stage = "pruned" /\ agent'[r].result = agent[r].result
        /\ agent'[r].snapshot = agent[r].snapshot
    <2>. DEFINE st == "pruned"
                g == agent'
    <2>1. st \in W!Stages /\ g = [agent EXCEPT ![r].stage = st] /\ st = "pruned" /\ agent' = g
      BY <1>1 DEF W!Stages
    <2>. HIDE DEF st, g
    <2>2. /\ g \in [TreeRuns -> Agents] /\ \A q \in TreeRuns \ {r} : g[q] = agent[q]
          /\ g[r].stage = st /\ g[r].result = agent[r].result /\ g[r].snapshot = agent[r].snapshot
      BY <1>3, <2>1, AgentStage
    <2>. QED  BY <2>1, <2>2
  <1>5. /\ Len(snapshots) \in Nat /\ DOMAIN snapshots = 1 .. Len(snapshots)
        /\ \A i \in DOMAIN snapshots : snapshots[i] \in Copies
        /\ W!OnDisk \subseteq 1 .. Len(snapshots) /\ IsFiniteSet(W!OnDisk) /\ Cardinality(W!OnDisk) \in Nat
    BY <1>3, CopiesAreSeqs
  <1>6. \A i \in DOMAIN snapshots :
          /\ snapshots'[i] \in Copies /\ snapshots'[i].content = snapshots[i].content
          /\ i \in expired => snapshots'[i].disk = "expired"
          /\ (i \notin expired /\ i \in W!Excess(W!OnDisk, Retained - 1)) => snapshots'[i].disk = "excess"
          /\ (i \notin expired /\ i \notin W!Excess(W!OnDisk, Retained - 1)) => snapshots'[i].disk = snapshots[i].disk
    BY <1>2, <1>5 DEF Copies
  <1>7. DOMAIN snapshots' = DOMAIN snapshots
    BY <1>2
  <1>8. snapshots' \in Seq(Copies) /\ Len(snapshots') = Len(snapshots)
    <2>1. snapshots' \in [1 .. Len(snapshots) -> Copies]
      BY <1>2, <1>5, <1>6, <1>7
    <2>. QED  BY <1>5, <2>1
  <1>9. WsTypes'
    <2>1. WsTypes
      BY DEF WsInv
    <2>2. \A q \in TreeRuns : agent'[q].snapshot = agent[q].snapshot
      BY <1>4
    <2>3. \A q \in TreeRuns : agent'[q].snapshot = W!None \/ agent'[q].snapshot \in DOMAIN snapshots'
      BY <1>7, <2>1, <2>2 DEF WsTypes
    <2>. QED  BY <1>1, <1>4, <1>8, <2>1, <2>3 DEF WsTypes
  <1>10. OwnFile'
    BY <1>1, <1>4 DEF WsInv, OwnFile
  <1>11. Unwritten'
    <2>1. Unwritten /\ WsTypes
      BY DEF WsInv
    <2>2. \A q \in TreeRuns : Wrote(q)' <=> Wrote(q)
      BY <1>1, <1>4 DEF Wrote
    <2>3. \A q \in TreeRuns : agent'[q].snapshot = agent[q].snapshot
      BY <1>4
    <2>. QED  BY <1>1, <1>6, <1>7, <2>1, <2>2, <2>3 DEF Unwritten, WsTypes
  <1>12. Room'
    <2>1. \A i \in DOMAIN snapshots : i \in W!Excess(W!OnDisk, Retained - 1) => Len(snapshots) - i >= Retained - 1
      <3>. SUFFICES ASSUME NEW i \in DOMAIN snapshots, i \in W!Excess(W!OnDisk, Retained - 1)
                    PROVE  Len(snapshots) - i >= Retained - 1
        OBVIOUS
      <3>. DEFINE Above == {j \in W!OnDisk : j > i}
      <3>1. Cardinality(Above) >= Retained - 1
        BY RepositorySize DEF W!Excess
      <3>2. i \in Nat /\ i <= Len(snapshots)
        BY <1>5
      <3>3. Above \subseteq (i + 1) .. Len(snapshots)
        <4>. SUFFICES ASSUME NEW j \in W!OnDisk, j > i PROVE j \in (i + 1) .. Len(snapshots)
          OBVIOUS
        <4>1. j \in Nat /\ j <= Len(snapshots)
          BY <1>5
        <4>. QED  BY <1>5, <3>2, <4>1
      <3>4. /\ IsFiniteSet((i + 1) .. Len(snapshots))
            /\ Cardinality((i + 1) .. Len(snapshots)) = Len(snapshots) - i
        <4>1. i + 1 \in Int /\ Len(snapshots) \in Int
          BY <1>5, <3>2
        <4>2. /\ IsFiniteSet((i + 1) .. Len(snapshots))
              /\ Cardinality((i + 1) .. Len(snapshots))
                    = IF i + 1 > Len(snapshots) THEN 0 ELSE Len(snapshots) - (i + 1) + 1
          BY <4>1, FS_Interval
        <4>. QED  BY <1>5, <3>2, <4>2
      <3>5. Cardinality(Above) <= Len(snapshots) - i /\ Cardinality(Above) \in Nat
        BY <3>3, <3>4, FS_Subset, FS_CardinalityType
      <3>. HIDE DEF Above
      <3>. QED  BY <1>5, <3>1, <3>2, <3>5, RepositoryAssumption
    <2>2. \A i \in DOMAIN snapshots' :
            snapshots'[i].disk = "excess" => Len(snapshots') - i >= Retained - 1
      BY <1>6, <1>7, <1>8, <2>1 DEF WsInv, Room
    <2>. DEFINE Young == {i \in W!OnDisk : Cardinality({j \in W!OnDisk : j > i}) < Retained - 1}
    <2>3. W!OnDisk' \subseteq Young
      <3>. SUFFICES ASSUME NEW i \in W!OnDisk' PROVE i \in W!OnDisk /\ i \notin W!Excess(W!OnDisk, Retained - 1)
        <4>1. \A j \in W!OnDisk : Cardinality({k \in W!OnDisk : k > j}) \in Nat
          BY <1>5, FS_Subset, FS_CardinalityType
        <4>2. \A j \in W!OnDisk : j \notin W!Excess(W!OnDisk, Retained - 1) => j \in Young
          BY RepositorySize, <4>1, RepositoryAssumption DEF W!Excess
        <4>. QED  BY <4>2
      <3>1. i \in DOMAIN snapshots /\ snapshots'[i].disk = "kept"
        BY <1>7 DEF W!OnDisk
      <3>. QED  BY <1>6, <3>1 DEF W!OnDisk
    <2>4. IsFiniteSet(Young) /\ Cardinality(Young) <= Retained - 1
      <3>1. W!OnDisk \subseteq Nat /\ Retained - 1 \in Nat
        BY <1>5, RepositoryAssumption
      <3>. QED  BY <1>5, <3>1, Youngest
    <2>5. Cardinality(W!OnDisk') <= Cardinality(Young) /\ Cardinality(W!OnDisk') \in Nat /\ Cardinality(Young) \in Nat
      BY <2>3, <2>4, FS_Subset, FS_CardinalityType
    <2>6. IsFiniteSet(Pruned') /\ Cardinality(Pruned') <= Cardinality(TreeRuns) /\ Cardinality(Pruned') \in Nat
      <3>1. Pruned' \subseteq TreeRuns
        BY DEF Pruned
      <3>. QED  BY <3>1, RepositoryAssumption, FS_Subset, FS_CardinalityType
    <2>. HIDE DEF Young
    <2>7. Cardinality(W!OnDisk') + Cardinality(Pruned') <= Retained - 1 + Cardinality(TreeRuns)
      BY <2>4, <2>5, <2>6, RepositoryAssumption, FS_CardinalityType
    <2>. QED  BY <2>2, <2>7 DEF Room
  <1>. QED
    BY <1>9, <1>10, <1>11, <1>12 DEF WsInv

\* A snapshot of the tree is made (create_snapshot).
LEMMA CreateStep ==
    ASSUME WsInv, NEW r \in TreeRuns, W!CreateSnapshot(r)
    PROVE  WsInv'
  <1>. DEFINE n == Len(snapshots)
  <1>1. /\ agent[r].stage = "pruned" /\ snapshots' = Append(snapshots, [content |-> W!Copied, disk |-> "kept"])
        /\ agent' = [agent EXCEPT ![r].stage = "generate", ![r].snapshot = n + 1]
        /\ UNCHANGED <<git, tree, patchFile, mixed, again, rolled>>
    BY DEF W!CreateSnapshot
  <1>2. agent \in [TreeRuns -> Agents] /\ snapshots \in Seq(Copies) /\ tree \in W!Tree
    BY DEF WsInv, WsTypes
  <1>3. /\ n \in Nat /\ DOMAIN snapshots = 1 .. n
        /\ \A i \in DOMAIN snapshots : snapshots[i] \in Copies
        /\ W!OnDisk \subseteq 1 .. n /\ IsFiniteSet(W!OnDisk) /\ Cardinality(W!OnDisk) \in Nat
    BY <1>2, CopiesAreSeqs
  <1>4. /\ agent' \in [TreeRuns -> Agents] /\ \A q \in TreeRuns \ {r} : agent'[q] = agent[q]
        /\ agent'[r].stage = "generate" /\ agent'[r].result = agent[r].result
        /\ agent'[r].snapshot = n + 1
    <2>1. agent' = [agent EXCEPT ![r].stage = "generate", ![r].snapshot = n + 1]
      BY <1>1
    <2>2. "generate" \in W!Stages /\ n + 1 \in Nat
      BY <1>3 DEF W!Stages
    <2>. QED  BY <1>2, <2>1, <2>2 DEF Agents
  <1>5. /\ W!Copied \in W!Tree /\ W!Copied.patches \subseteq tree.patches
        /\ ~git => W!Copied.uncommitted = tree.uncommitted
    BY <1>2 DEF W!Copied, W!Tree
  <1>6. [content |-> W!Copied, disk |-> "kept"] \in Copies
    BY <1>5 DEF Copies
  <1>7. /\ snapshots' \in Seq(Copies) /\ Len(snapshots') = n + 1
        /\ DOMAIN snapshots' = 1 .. n + 1
        /\ snapshots'[n + 1] = [content |-> W!Copied, disk |-> "kept"]
        /\ \A i \in 1 .. n : snapshots'[i] = snapshots[i]
    BY <1>1, <1>2, <1>3, <1>6
  <1>. HIDE DEF n
  <1>8. WsTypes'
    <2>1. \A q \in TreeRuns : agent'[q].snapshot = W!None \/ agent'[q].snapshot \in DOMAIN snapshots'
      <3>. SUFFICES ASSUME NEW q \in TreeRuns PROVE agent'[q].snapshot = W!None \/ agent'[q].snapshot \in 1 .. n + 1
        BY <1>7
      <3>1. agent[q].snapshot = W!None \/ agent[q].snapshot \in 1 .. n
        BY <1>3 DEF WsInv, WsTypes
      <3>2. CASE q = r
        BY <1>3, <1>4, <3>2
      <3>3. CASE q # r
        BY <1>3, <1>4, <3>1, <3>3
      <3>. QED  BY <3>2, <3>3
    <2>. QED  BY <1>1, <1>4, <1>7, <2>1 DEF WsInv, WsTypes
  <1>9. OwnFile'
    BY <1>1, <1>4 DEF WsInv, OwnFile
  <1>10. Unwritten'
    <2>1. Unwritten /\ WsTypes
      BY DEF WsInv
    <2>2. \A q \in TreeRuns : Wrote(q)' <=> Wrote(q)
      BY <1>1, <1>4 DEF Wrote
    <2>3. \A q \in TreeRuns : ~Wrote(q)' =>
            /\ patchFile' # q /\ q \notin tree'.patches
            /\ \A i \in DOMAIN snapshots' : q \notin snapshots'[i].content.patches
      <3>. SUFFICES ASSUME NEW q \in TreeRuns, ~Wrote(q), NEW i \in 1 .. n + 1
                    PROVE  q \notin snapshots'[i].content.patches
        BY <1>1, <1>7, <2>1, <2>2 DEF Unwritten
      <3>1. CASE i \in 1 .. n
        BY <1>3, <1>7, <2>1, <3>1 DEF Unwritten
      <3>2. CASE i = n + 1
        BY <1>5, <1>7, <2>1, <3>2 DEF Unwritten
      <3>. QED  BY <1>3, <3>1, <3>2
    <2>4. \A q \in TreeRuns : (q \notin again' /\ agent'[q].snapshot # W!None) =>
            q \notin snapshots'[agent'[q].snapshot].content.patches
      <3>. SUFFICES ASSUME NEW q \in TreeRuns, q \notin again, agent'[q].snapshot # W!None
                    PROVE  q \notin snapshots'[agent'[q].snapshot].content.patches
        BY <1>1
      <3>1. CASE q = r
        <4>1. ~Wrote(r)
          BY <1>1, <3>1 DEF Wrote
        <4>2. ~Wrote(r)'
          BY <4>1, <2>2
        <4>. QED  BY <1>3, <1>4, <1>7, <2>3, <3>1, <4>2
      <3>2. CASE q # r
        <4>1. agent[q].snapshot \in 1 .. n
          BY <1>3, <1>4, <2>1, <3>2 DEF WsTypes
        <4>. QED  BY <1>4, <1>7, <2>1, <3>2, <4>1 DEF Unwritten
      <3>. QED  BY <3>1, <3>2
    <2>5. ~git' => \A i \in DOMAIN snapshots' : snapshots'[i].content.uncommitted = tree'.uncommitted
      <3>. SUFFICES ASSUME ~git, NEW i \in 1 .. n + 1
                    PROVE  snapshots'[i].content.uncommitted = tree.uncommitted
        BY <1>1, <1>7
      <3>1. CASE i \in 1 .. n
        BY <1>3, <1>7, <2>1, <3>1 DEF Unwritten
      <3>2. CASE i = n + 1
        BY <1>5, <1>7, <3>2
      <3>. QED  BY <1>3, <3>1, <3>2
    <2>. QED  BY <2>3, <2>4, <2>5 DEF Unwritten
  <1>11. Room'
    <2>1. W!OnDisk' = W!OnDisk \cup {n + 1}
      BY <1>3, <1>7 DEF W!OnDisk
    <2>2. Cardinality(W!OnDisk') = Cardinality(W!OnDisk) + 1
      <3>1. n + 1 \notin W!OnDisk
        BY <1>3
      <3>. QED  BY <1>3, <2>1, <3>1, FS_AddElement
    <2>3. r \in Pruned /\ Pruned' = Pruned \ {r}
      BY <1>1, <1>4 DEF Pruned
    <2>4. Cardinality(Pruned') = Cardinality(Pruned) - 1
      BY <2>3, PrunedIsFinite, FS_RemoveElement
    <2>5. Cardinality(W!OnDisk') + Cardinality(Pruned') <= Retained - 1 + Cardinality(TreeRuns)
      <3>1. Cardinality(W!OnDisk) + Cardinality(Pruned) <= Retained - 1 + Cardinality(TreeRuns)
        BY DEF WsInv, Room
      <3>2. Cardinality(Pruned) \in Nat /\ Cardinality(TreeRuns) \in Nat
        BY PrunedIsFinite, RepositoryAssumption, FS_CardinalityType
      <3>. QED  BY <1>3, <2>2, <2>4, <3>1, <3>2, RepositoryAssumption
    <2>6. \A i \in DOMAIN snapshots' :
            snapshots'[i].disk = "excess" => Len(snapshots') - i >= Retained - 1
      <3>. SUFFICES ASSUME NEW i \in 1 .. n + 1, snapshots'[i].disk = "excess"
                    PROVE  (n + 1) - i >= Retained - 1
        <4>1. DOMAIN snapshots' = 1 .. n + 1 /\ Len(snapshots') = n + 1
          BY <1>7
        <4>. QED  BY <4>1
      <3>1. i # n + 1
        BY <1>7
      <3>2. i \in 1 .. n
        BY <1>3, <3>1
      <3>3. n - i >= Retained - 1
        BY <1>3, <1>7, <3>2 DEF WsInv, Room, n
      <3>. QED  BY <1>3, <3>2, <3>3, RepositoryAssumption
    <2>. QED  BY <2>5, <2>6 DEF Room
  <1>. QED
    BY <1>8, <1>9, <1>10, <1>11 DEF WsInv

\* The model proposes a patch, or the run ends without one.
LEMMA GenerateStep ==
    ASSUME WsInv, NEW r \in TreeRuns, W!Generate(r)
    PROVE  WsInv'
  <1>1. agent \in [TreeRuns -> Agents] /\ UNCHANGED <<git, tree, patchFile, snapshots, mixed, again, rolled>>
    BY DEF W!Generate, WsInv, WsTypes
  <1>2. /\ agent' \in [TreeRuns -> Agents] /\ \A q \in TreeRuns \ {r} : agent'[q] = agent[q]
        /\ agent'[r].snapshot = agent[r].snapshot /\ agent[r].stage = "generate"
        /\ \/ agent'[r].stage = "write" /\ agent'[r].result = agent[r].result
           \/ agent'[r].stage = "end"
    <2>1. CASE W!Step(r, "generate", "write")
      BY <1>1, <2>1 DEF W!Step, Agents, W!Stages
    <2>2. ASSUME NEW result \in {"blocked", "invalid"}, W!End(r, "generate", result)
          PROVE  /\ agent' \in [TreeRuns -> Agents] /\ \A q \in TreeRuns \ {r} : agent'[q] = agent[q]
                 /\ agent'[r].snapshot = agent[r].snapshot /\ agent[r].stage = "generate"
                 /\ agent'[r].stage = "end"
      BY <1>1, <2>2 DEF W!End, Agents, W!Stages, W!Results
    <2>. QED  BY <2>1, <2>2 DEF W!Generate
  <1>3. OwnFile'
    BY <1>1, <1>2 DEF WsInv, OwnFile
  <1>4. Wrote(r) => Wrote(r)'
    BY <1>1, <1>2 DEF Wrote
  <1>5. WsTypes' /\ Unwritten' /\ Room'
    <2>1. WsTypes
      BY DEF WsInv
    <2>. QED  BY <1>1, <1>2, <1>4, <2>1, StageKeeps DEF WsTypes
  <1>. QED
    BY <1>3, <1>5 DEF WsInv

\* The patch is written over whatever file is there.
LEMMA WriteStep ==
    ASSUME WsInv, NEW r \in TreeRuns, W!WritePatch(r)
    PROVE  WsInv'
  <1>1. /\ agent \in [TreeRuns -> Agents] /\ UNCHANGED <<git, tree, snapshots, again, rolled>>
        /\ patchFile' = r /\ mixed' = mixed \cup W!Others(r)
    BY DEF W!WritePatch, WsInv, WsTypes
  <1>2. /\ agent' \in [TreeRuns -> Agents] /\ \A q \in TreeRuns \ {r} : agent'[q] = agent[q]
        /\ agent'[r].snapshot = agent[r].snapshot /\ agent[r].stage = "write"
        /\ agent'[r].stage = "check" /\ agent'[r].result = agent[r].result
    BY <1>1 DEF W!WritePatch, W!Step, Agents, W!Stages
  <1>3. OwnFile'
    BY <1>1, <1>2 DEF WsInv, OwnFile, W!Others
  <1>4. Wrote(r)'
    BY <1>1, <1>2 DEF Wrote
  <1>5. WsTypes' /\ Unwritten' /\ Room'
    <2>1. WsTypes /\ mixed' \subseteq TreeRuns
      BY <1>1 DEF WsInv, WsTypes, W!Others
    <2>. QED  BY <1>1, <1>2, <1>4, <2>1, StageKeeps DEF WsTypes
  <1>. QED
    BY <1>3, <1>5 DEF WsInv

\* git looks at the file, whoever wrote it.
LEMMA CheckStep ==
    ASSUME WsInv, NEW r \in TreeRuns, W!CheckPatch(r)
    PROVE  WsInv'
  <1>1. agent \in [TreeRuns -> Agents] /\ UNCHANGED <<git, tree, patchFile, snapshots, mixed, again, rolled>>
    BY DEF W!CheckPatch, WsInv, WsTypes
  <1>2. /\ agent' \in [TreeRuns -> Agents] /\ \A q \in TreeRuns \ {r} : agent'[q] = agent[q]
        /\ agent'[r].snapshot = agent[r].snapshot /\ agent[r].stage = "check"
        /\ \/ agent'[r].stage \in {"apply", "unlink"} /\ agent'[r].result = agent[r].result
           \/ agent'[r].stage = "end"
    <2>1. CASE W!Step(r, "check", "apply")
      BY <1>1, <2>1 DEF W!Step, Agents, W!Stages
    <2>2. CASE W!Step(r, "check", "unlink")
      BY <1>1, <2>2 DEF W!Step, Agents, W!Stages
    <2>3. CASE W!End(r, "check", "conflict")
      BY <1>1, <2>3 DEF W!End, Agents, W!Stages, W!Results
    <2>. QED  BY <2>1, <2>2, <2>3 DEF W!CheckPatch
  <1>3. OwnFile'
    BY <1>1, <1>2 DEF WsInv, OwnFile
  <1>4. Wrote(r) => Wrote(r)'
    BY <1>1, <1>2 DEF Wrote
  <1>5. WsTypes' /\ Unwritten' /\ Room'
    <2>1. WsTypes
      BY DEF WsInv
    <2>. QED  BY <1>1, <1>2, <1>4, <2>1, StageKeeps DEF WsTypes
  <1>. QED
    BY <1>3, <1>5 DEF WsInv

\* The run whose patch is applied is the one that applies it, or one whose
\* file was taken.
LEMMA ApplyEffect ==
    ASSUME WsInv, NEW r \in TreeRuns, W!ApplyPatch(r)
    PROVE  /\ UNCHANGED <<git, patchFile, snapshots, mixed, again>>
           /\ agent' \in [TreeRuns -> Agents] /\ \A q \in TreeRuns \ {r} : agent'[q] = agent[q]
           /\ agent'[r].snapshot = agent[r].snapshot
           /\ agent[r].stage = "apply" /\ agent'[r].stage = "unlink"
           /\ tree' \in W!Tree /\ tree'.uncommitted = tree.uncommitted
           /\ rolled' \subseteq rolled
           /\ \/ agent'[r].result # "applied" /\ tree' = tree
              \/ /\ agent'[r].result = "applied" /\ patchFile \in TreeRuns /\ patchFile \notin tree.patches
                 /\ tree'.patches = tree.patches \cup {patchFile}
  <1>1. agent \in [TreeRuns -> Agents] /\ tree \in W!Tree /\ patchFile \in TreeRuns \cup {NoTreeRun}
    BY DEF WsInv, WsTypes
  <1>2. CASE patchFile = NoTreeRun \/ patchFile \in tree.patches
    BY <1>1, <1>2 DEF W!ApplyPatch, Agents, W!Stages, W!Results
  <1>3. CASE ~(patchFile = NoTreeRun \/ patchFile \in tree.patches)
    <2>1. patchFile \in TreeRuns /\ patchFile \notin tree.patches
      BY <1>1, <1>3
    <2>2. /\ agent[r].stage = "apply" /\ agent' = [agent EXCEPT ![r].stage = "unlink", ![r].result = "applied"]
          /\ tree' = [tree EXCEPT !.patches = @ \cup {patchFile}]
          /\ rolled' = rolled \ {r} /\ UNCHANGED <<git, patchFile, snapshots, mixed, again>>
      BY <1>3 DEF W!ApplyPatch
    <2>3. tree' \in W!Tree /\ tree'.uncommitted = tree.uncommitted /\ tree'.patches = tree.patches \cup {patchFile}
      BY <1>1, <2>1, <2>2 DEF W!Tree
    <2>4. /\ agent' \in [TreeRuns -> Agents] /\ \A q \in TreeRuns \ {r} : agent'[q] = agent[q]
          /\ agent'[r].snapshot = agent[r].snapshot /\ agent'[r].stage = "unlink"
          /\ agent'[r].result = "applied"
      BY <1>1, <2>2 DEF Agents, W!Stages, W!Results
    <2>. QED  BY <2>1, <2>2, <2>3, <2>4
  <1>. QED
    BY <1>2, <1>3

\* git applies the file, whoever wrote it.
LEMMA ApplyStep ==
    ASSUME WsInv, NEW r \in TreeRuns, W!ApplyPatch(r)
    PROVE  WsInv'
  <1>1. /\ UNCHANGED <<git, patchFile, snapshots, mixed, again>>
        /\ agent' \in [TreeRuns -> Agents] /\ \A q \in TreeRuns \ {r} : agent'[q] = agent[q]
        /\ agent'[r].snapshot = agent[r].snapshot
        /\ agent[r].stage = "apply" /\ agent'[r].stage = "unlink"
        /\ tree' \in W!Tree /\ tree'.uncommitted = tree.uncommitted
        /\ rolled' \subseteq rolled
        /\ tree' = tree \/ tree'.patches = tree.patches \cup {patchFile}
    BY ApplyEffect
  <1>2. OwnFile'
    BY <1>1 DEF WsInv, OwnFile
  <1>3. Wrote(r)'
    BY <1>1 DEF Wrote
  <1>4. \A q \in TreeRuns : q \in tree'.patches => q \in tree.patches \/ q = patchFile
    BY <1>1
  <1>5. WsTypes' /\ Unwritten' /\ Room'
    <2>1. WsTypes
      BY DEF WsInv
    <2>2. rolled' \subseteq TreeRuns
      BY <1>1, <2>1 DEF WsTypes
    <2>. QED  BY <1>1, <1>3, <1>4, <2>1, <2>2, StageKeeps DEF WsTypes
  <1>. QED
    BY <1>2, <1>5 DEF WsInv

\* The file is deleted, whoever wrote it.
LEMMA UnlinkStep ==
    ASSUME WsInv, NEW r \in TreeRuns, W!UnlinkPatch(r)
    PROVE  WsInv'
  <1>1. /\ agent \in [TreeRuns -> Agents] /\ UNCHANGED <<git, tree, snapshots, again, rolled>>
        /\ patchFile' = NoTreeRun /\ mixed' = IF patchFile = r THEN mixed ELSE mixed \cup W!Others(r)
    BY DEF W!UnlinkPatch, WsInv, WsTypes
  <1>2. /\ agent' \in [TreeRuns -> Agents] /\ \A q \in TreeRuns \ {r} : agent'[q] = agent[q]
        /\ agent'[r].snapshot = agent[r].snapshot /\ agent[r].stage = "unlink" /\ agent'[r].stage = "end"
        /\ agent'[r].result # "applied" \/ agent'[r].result = agent[r].result
    <2>1. PICK res \in W!Results : W!End(r, "unlink", res) /\ (res # "applied" \/ res = agent[r].result)
      BY <1>1 DEF W!UnlinkPatch, Agents, W!Results
    <2>. QED  BY <1>1, <2>1 DEF W!End, Agents, W!Stages
  <1>3. OwnFile'
    <2>1. \A q \in TreeRuns \ {r} :
            (agent[q].stage \in {"check", "apply", "unlink"} /\ q \notin mixed) => patchFile = q
      BY DEF WsInv, OwnFile
    <2>2. \A q \in TreeRuns \ {r} : ~(agent'[q].stage \in {"check", "apply", "unlink"} /\ q \notin mixed')
      BY <1>1, <1>2, <2>1 DEF W!Others
    <2>. QED  BY <1>2, <2>2 DEF WsInv, OwnFile
  <1>4. Wrote(r)'
    BY <1>1, <1>2 DEF Wrote
  <1>5. WsTypes' /\ Unwritten' /\ Room'
    <2>1. WsTypes /\ mixed' \subseteq TreeRuns
      BY <1>1 DEF WsInv, WsTypes, W!Others
    <2>2. \A q \in TreeRuns : q # patchFile'
      BY <1>1, RepositoryAssumption
    <2>. QED  BY <1>1, <1>2, <1>4, <2>1, <2>2, StageKeeps DEF WsTypes
  <1>. QED
    BY <1>3, <1>5 DEF WsInv

\* A retry of the run begins where the first attempt did.
LEMMA AgainStep ==
    ASSUME WsInv, NEW r \in TreeRuns, W!PatchAgain(r)
    PROVE  WsInv'
  <1>1. /\ agent \in [TreeRuns -> Agents] /\ UNCHANGED <<git, tree, patchFile, snapshots, rolled>>
        /\ again' = again \cup {r} /\ mixed' = mixed \ {r}
    BY DEF W!PatchAgain, WsInv, WsTypes
  <1>2. /\ agent' \in [TreeRuns -> Agents] /\ \A q \in TreeRuns \ {r} : agent'[q] = agent[q]
        /\ agent'[r].snapshot = agent[r].snapshot /\ agent'[r].stage = "start" /\ agent'[r].result = "none"
    BY <1>1 DEF W!PatchAgain, Agents, W!Stages, W!Results
  <1>3. OwnFile'
    BY <1>1, <1>2 DEF WsInv, OwnFile
  <1>4. Wrote(r)'
    BY <1>1 DEF Wrote
  <1>5. WsTypes' /\ Unwritten' /\ Room'
    <2>1. WsTypes /\ again' \subseteq TreeRuns /\ mixed' \subseteq TreeRuns
      BY <1>1 DEF WsInv, WsTypes
    <2>. QED  BY <1>1, <1>2, <1>4, <2>1, StageKeeps DEF WsTypes
  <1>. QED
    BY <1>3, <1>5 DEF WsInv

\* What a rollback takes back, and what it leaves alone (rollback).
LEMMA RollbackEffect ==
    ASSUME WsInv, NEW r \in TreeRuns, W!Rollback(r)
    PROVE  /\ UNCHANGED <<git, patchFile, snapshots, agent, mixed, again>>
           /\ agent[r].snapshot # W!None /\ agent[r].snapshot \in DOMAIN snapshots
           /\ tree' = snapshots[agent[r].snapshot].content /\ tree' \in W!Tree
           /\ rolled' = rolled \cup {r}
  <1>1. /\ UNCHANGED <<git, patchFile, snapshots, agent, mixed, again>>
        /\ agent[r].snapshot # W!None /\ agent[r].snapshot \in W!OnDisk
        /\ tree' = snapshots[agent[r].snapshot].content /\ rolled' = rolled \cup {r}
    BY DEF W!Rollback, W!Restored
  <1>2. agent[r].snapshot \in DOMAIN snapshots
    BY <1>1 DEF W!OnDisk
  <1>3. snapshots[agent[r].snapshot] \in Copies
    BY <1>2, CopiesAreSeqs DEF WsInv, WsTypes
  <1>. QED
    BY <1>1, <1>2, <1>3 DEF Copies

\* A rollback restores the tree of the snapshot of its run.
LEMMA RollbackStep ==
    ASSUME WsInv, NEW r \in TreeRuns, W!Rollback(r)
    PROVE  WsInv'
  <1>1. /\ UNCHANGED <<git, patchFile, snapshots, agent, mixed, again>>
        /\ agent[r].snapshot # W!None /\ agent[r].snapshot \in DOMAIN snapshots
        /\ tree' = snapshots[agent[r].snapshot].content /\ tree' \in W!Tree
        /\ rolled' = rolled \cup {r}
    BY RollbackEffect
  <1>2. WsTypes' /\ OwnFile'
    BY <1>1 DEF WsInv, WsTypes, OwnFile
  <1>3. \A q \in TreeRuns : Wrote(q)' <=> Wrote(q)
    BY <1>1 DEF Wrote
  <1>4. Unwritten'
    BY <1>1, <1>3 DEF WsInv, Unwritten
  <1>5. Room'
    <2>1. Pruned' = Pruned
      BY <1>1 DEF Pruned
    <2>. QED  BY <1>1, <2>1, RoomKept
  <1>. QED
    BY <1>2, <1>4, <1>5 DEF WsInv

\* Every step keeps the invariant.
LEMMA WsStep == WsInv /\ [W!Next]_W!workspaceVars => WsInv'
  <1>. SUFFICES ASSUME WsInv, [W!Next]_W!workspaceVars PROVE WsInv'
    OBVIOUS
  <1>1. ASSUME NEW r \in TreeRuns, W!Patch(r) \/ W!PatchAgain(r) \/ W!Rollback(r) PROVE WsInv'
    BY <1>1, PruneStep, CreateStep, GenerateStep, WriteStep, CheckStep, ApplyStep, UnlinkStep,
       AgainStep, RollbackStep DEF W!Patch
  <1>2. CASE UNCHANGED W!workspaceVars
    <2>1. UNCHANGED <<git, tree, patchFile, snapshots, agent, mixed, again, rolled>>
      BY <1>2 DEF W!workspaceVars
    <2>2. WsTypes' /\ OwnFile'
      BY <2>1 DEF WsInv, WsTypes, OwnFile
    <2>3. Unwritten'
      BY <2>1 DEF WsInv, Unwritten, Wrote
    <2>4. Room'
      <3>1. Pruned' = Pruned
        BY <2>1 DEF Pruned
      <3>. QED  BY <2>1, <3>1, RoomKept
    <2>. QED  BY <2>2, <2>3, <2>4 DEF WsInv
  <1>. QED
    BY <1>1, <1>2 DEF W!Next

\* What a step of AppliedIsOwn may do.
Owned ==
    \A r \in TreeRuns :
        /\ W!SaysApplied(r) => W!Enters(r) \/ r \in mixed
        /\ W!Enters(r) => \/ \E q \in {r} \cup mixed : W!SaysApplied(q)
                       \/ UNCHANGED agent

\* Only ApplyPatch says "applied", and the other stages leave the patches of the tree.
LEMMA QuietStages ==
    ASSUME WsInv, NEW r \in TreeRuns,
           W!Prune(r) \/ W!CreateSnapshot(r) \/ W!Generate(r) \/ W!WritePatch(r) \/ W!CheckPatch(r)
             \/ W!UnlinkPatch(r) \/ W!PatchAgain(r)
    PROVE  tree' = tree /\ rolled' = rolled /\ \A q \in TreeRuns : ~W!SaysApplied(q)
  <1>1. agent \in [TreeRuns -> Agents]
    BY DEF WsInv, WsTypes
  <1>2. tree' = tree /\ rolled' = rolled
    BY DEF W!Prune, W!CreateSnapshot, W!Generate, W!WritePatch, W!CheckPatch, W!UnlinkPatch, W!PatchAgain
  <1>3. /\ \A q \in TreeRuns \ {r} : agent'[q] = agent[q]
        /\ agent'[r].result # "applied" \/ agent'[r].result = agent[r].result
    <2>1. CASE W!Prune(r)
      BY <1>1, <2>1 DEF W!Prune, W!Step, Agents
    <2>2. CASE W!CreateSnapshot(r)
      BY <1>1, <2>2 DEF W!CreateSnapshot, Agents
    <2>3. CASE W!Generate(r)
      <3>1. W!Step(r, "generate", "write") \/ \E result \in {"blocked", "invalid"} : W!End(r, "generate", result)
        BY <2>3 DEF W!Generate
      <3>2. CASE W!Step(r, "generate", "write")
        BY <1>1, <3>2 DEF W!Step, Agents
      <3>3. CASE \E result \in {"blocked", "invalid"} : W!End(r, "generate", result)
        BY <1>1, <3>3 DEF W!End, Agents
      <3>. QED  BY <3>1, <3>2, <3>3
    <2>4. CASE W!WritePatch(r)
      BY <1>1, <2>4 DEF W!WritePatch, W!Step, Agents
    <2>5. CASE W!CheckPatch(r)
      <3>1. W!Step(r, "check", "apply") \/ W!Step(r, "check", "unlink") \/ W!End(r, "check", "conflict")
        BY <2>5 DEF W!CheckPatch
      <3>. QED  BY <1>1, <3>1 DEF W!Step, W!End, Agents
    <2>6. CASE W!UnlinkPatch(r)
      <3>1. PICK res : W!End(r, "unlink", res) /\ (res # "applied" \/ res = agent[r].result)
        BY <2>6 DEF W!UnlinkPatch
      <3>. QED  BY <1>1, <3>1 DEF W!End, Agents
    <2>7. CASE W!PatchAgain(r)
      BY <1>1, <2>7 DEF W!PatchAgain, Agents
    <2>. QED  BY <2>1, <2>2, <2>3, <2>4, <2>5, <2>6, <2>7
  <1>. QED
    BY <1>2, <1>3 DEF W!SaysApplied

\* Every step says "applied" only of a patch it applied.
LEMMA OwnedStep == WsInv /\ [W!Next]_W!workspaceVars => Owned
  <1>. SUFFICES ASSUME WsInv, [W!Next]_W!workspaceVars PROVE Owned
    OBVIOUS
  <1>1. ASSUME NEW p \in TreeRuns,
               W!Prune(p) \/ W!CreateSnapshot(p) \/ W!Generate(p) \/ W!WritePatch(p) \/ W!CheckPatch(p)
                 \/ W!UnlinkPatch(p) \/ W!PatchAgain(p)
        PROVE  Owned
    BY <1>1, QuietStages DEF Owned, W!Enters
  <1>2. ASSUME NEW p \in TreeRuns, W!Rollback(p) PROVE Owned
    BY <1>2, RollbackEffect DEF Owned, W!SaysApplied
  <1>3. ASSUME NEW p \in TreeRuns, W!ApplyPatch(p) PROVE Owned
    <2>1. /\ \A q \in TreeRuns \ {p} : agent'[q] = agent[q]
          /\ agent[p].stage = "apply"
          /\ \/ agent'[p].result # "applied" /\ tree' = tree
             \/ /\ agent'[p].result = "applied" /\ patchFile \in TreeRuns /\ patchFile \notin tree.patches
                /\ tree'.patches = tree.patches \cup {patchFile}
      BY <1>3, ApplyEffect
    <2>2. agent[p].result = "none" /\ (p \notin mixed => patchFile = p)
      BY <2>1 DEF WsInv, OwnFile
    <2>3. \A q \in TreeRuns : W!SaysApplied(q) => q = p
      BY <2>1 DEF W!SaysApplied
    <2>4. CASE agent'[p].result # "applied" /\ tree' = tree
      BY <2>3, <2>4 DEF Owned, W!Enters, W!SaysApplied
    <2>5. CASE /\ agent'[p].result = "applied" /\ patchFile \in TreeRuns /\ patchFile \notin tree.patches
               /\ tree'.patches = tree.patches \cup {patchFile}
      <3>1. W!SaysApplied(p)
        BY <2>2, <2>5 DEF W!SaysApplied
      <3>2. \A r \in TreeRuns : W!Enters(r) <=> r = patchFile
        BY <2>5 DEF W!Enters
      <3>. QED  BY <2>2, <2>3, <3>1, <3>2 DEF Owned
    <2>. QED  BY <2>1, <2>4, <2>5
  <1>4. CASE UNCHANGED W!workspaceVars
    BY <1>4 DEF W!workspaceVars, Owned, W!SaysApplied, W!Enters
  <1>. QED
    BY <1>1, <1>2, <1>3, <1>4 DEF W!Next, W!Patch

\* What a step of TakenBack may do.
Cleared ==
    \A r \in rolled' \ rolled :
        /\ r \notin again => r \notin tree'.patches
        /\ ~git => tree'.uncommitted = tree.uncommitted

\* Every rollback leaves the tree without the patch of its run.
LEMMA ClearedStep == WsInv /\ [W!Next]_W!workspaceVars => Cleared
  <1>. SUFFICES ASSUME WsInv, [W!Next]_W!workspaceVars PROVE Cleared
    OBVIOUS
  <1>1. ASSUME NEW p \in TreeRuns,
               W!Prune(p) \/ W!CreateSnapshot(p) \/ W!Generate(p) \/ W!WritePatch(p) \/ W!CheckPatch(p)
                 \/ W!UnlinkPatch(p) \/ W!PatchAgain(p)
        PROVE  Cleared
    BY <1>1, QuietStages DEF Cleared
  <1>2. ASSUME NEW p \in TreeRuns, W!ApplyPatch(p) PROVE Cleared
    BY <1>2, ApplyEffect DEF Cleared
  <1>3. ASSUME NEW p \in TreeRuns, W!Rollback(p) PROVE Cleared
    <2>1. /\ agent[p].snapshot # W!None /\ agent[p].snapshot \in DOMAIN snapshots
          /\ tree' = snapshots[agent[p].snapshot].content /\ rolled' = rolled \cup {p}
      BY <1>3, RollbackEffect
    <2>. QED  BY <2>1 DEF Cleared, WsInv, Unwritten
  <1>4. CASE UNCHANGED W!workspaceVars
    BY <1>4 DEF W!workspaceVars, Cleared
  <1>. QED
    BY <1>1, <1>2, <1>3, <1>4 DEF W!Next, W!Patch

\* What is left on disk is what pruning may leave.
LEMMA RoomSuffices == WsInv => W!SnapshotsKept
  <1>. SUFFICES ASSUME WsInv PROVE W!SnapshotsKept
    OBVIOUS
  <1>1. Cardinality(W!OnDisk) \in Nat /\ Cardinality(Pruned) \in Nat /\ Cardinality(TreeRuns) \in Nat
    BY CopiesAreSeqs, PrunedIsFinite, RepositoryAssumption, FS_CardinalityType DEF WsInv, WsTypes
  <1>2. Cardinality(W!OnDisk) + Cardinality(Pruned) <= Retained - 1 + Cardinality(TreeRuns)
    BY DEF WsInv, Room
  <1>3. Cardinality(W!OnDisk) <= Retained - 1 + Cardinality(TreeRuns)
    BY <1>1, <1>2, RepositoryAssumption
  <1>. QED
    BY RepositorySize, <1>3 DEF WsInv, Room, W!SnapshotsKept

\* In RunEffects Repository moves as its module says, or not at all.
LEMMA RepositoryBeside == RunEffectsSpec => W!Spec
  <1>1. RunEffectsInit => W!Init
    BY DEF RunEffectsInit
  <1>2. [RunEffectsNext]_runEffects => [W!Next]_W!workspaceVars
    BY DEF RunEffectsNext, SharedStep, SoloStep, RoutingStep, ContextStep, RepositoryStep, CheckpointsStep,
           CliStep, MergedStep, VerificationStep, VmsStep, runEffects, repository, W!workspaceVars
  <1>. QED
    BY <1>1, <1>2, PTL DEF RunEffectsSpec, W!Spec

\* AppliedIsOwn: a run is told "applied" only as its own patch enters the tree,
\* unless another run wrote or removed the shared patch file in between; and no
\* patch enters unnoticed (PatcherAgent.execute).
THEOREM PatchIsOwn == RunEffectsSpec => AppliedIsOwn
  <1>1. WsInv /\ [W!Next]_W!workspaceVars => [Owned]_W!workspaceVars
    BY OwnedStep
  <1>2. W!Spec => W!AppliedIsOwn
    BY WsInit, WsStep, <1>1, PTL DEF W!Spec, W!AppliedIsOwn, Owned
  <1>. QED
    BY <1>2, RepositoryBeside DEF AppliedIsOwn

\* RollbackClears: a rollback takes the patch of its run out of the tree,
\* unless the run patched twice; it leaves the user's uncommitted work where
\* the snapshots are copies; and a snapshot that is pruned as one too many has
\* younger ones on disk (WorktreeManager.restore_snapshot, create_snapshot,
\* prune_snapshots).
THEOREM PatchIsTakenBack == RunEffectsSpec => RollbackClears
  <1>1. WsInv /\ [W!Next]_W!workspaceVars => [Cleared]_W!workspaceVars
    BY ClearedStep
  <1>2. W!Spec => W!RollbackClears
    BY WsInit, WsStep, RoomSuffices, <1>1, PTL DEF W!Spec, W!RollbackClears, W!TakenBack, Cleared
  <1>. QED
    BY <1>2, RepositoryBeside DEF RollbackClears

----------------------------------------------------------------------------
(* Which models are asked (ModelRouter) *)

\* The size of a set is the same seen from ModelRouter.
LEMMA RouterSize == \A Z : R!Cardinality(Z) = Cardinality(Z)
  BY DEF R!Cardinality, Cardinality

\* What the proof needs to know of the types.
Call == [model : Models, ok : BOOLEAN, at : Nat]
RoutingTypes ==
    /\ default \in Models \cup {"auto"} /\ auto \in BOOLEAN
    /\ eligible \in Seq(Models)
    /\ calls \in Seq(Call) /\ clock \in Nat
    /\ headroom \in [Models -> Int]

\* What is ahead of x in Z, in the order Rel.
AheadIn(Z, Rel, x) == {y \in Z : <<y, x>> \in Rel}

\* The places of a finite set in a strict total order: as many are ahead as
\* the place says, and every place is taken once.
LEMMA Places ==
  ASSUME NEW Z, IsFiniteSet(Z), NEW Rel,
         \A x \in Z : <<x, x>> \notin Rel,
         \A x, y, z \in Z : <<x, y>> \in Rel /\ <<y, z>> \in Rel => <<x, z>> \in Rel,
         \A x, y \in Z : x = y \/ <<x, y>> \in Rel \/ <<y, x>> \in Rel
  PROVE  \A k \in 1 .. Cardinality(Z) :
            \E x \in Z : Cardinality(AheadIn(Z, Rel, x)) + 1 = k
<1> DEFINE A(x) == {y \in Z : <<y, x>> \in Rel}
           f == [x \in Z |-> Cardinality(A(x)) + 1]
           N == 1 .. Cardinality(Z)
<1>1. Cardinality(Z) \in Nat
  BY FS_CardinalityType
<1>2. \A x \in Z : IsFiniteSet(A(x)) /\ Cardinality(A(x)) \in Nat /\ Cardinality(A(x)) < Cardinality(Z)
  <2> TAKE x \in Z
  <2>1. A(x) \subseteq Z /\ A(x) # Z
    OBVIOUS
  <2>2. IsFiniteSet(A(x)) /\ Cardinality(A(x)) <= Cardinality(Z)
        /\ (Cardinality(A(x)) = Cardinality(Z) => A(x) = Z)
    BY <2>1, FS_Subset
  <2> QED
    BY <2>1, <2>2, <1>1, FS_CardinalityType
<1>3. f \in [Z -> N]
  <2>1. \A x \in Z : Cardinality(A(x)) + 1 \in N
    <3> HIDE DEF A
    <3> QED
      BY <1>1, <1>2
  <2> HIDE DEF A
  <2> QED
    BY <2>1
<1>4. \A x, y \in Z : <<x, y>> \in Rel => Cardinality(A(x)) < Cardinality(A(y))
  <2> TAKE x, y \in Z
  <2> HAVE <<x, y>> \in Rel
  <2>1. A(x) \subseteq A(y) /\ x \in A(y) /\ x \notin A(x)
    OBVIOUS
  <2>2. A(x) # A(y)
    BY <2>1
  <2>3. Cardinality(A(x)) <= Cardinality(A(y)) /\ (Cardinality(A(x)) = Cardinality(A(y)) => A(x) = A(y))
    BY <2>1, <1>2, FS_Subset
  <2> HIDE DEF A
  <2> QED
    BY <2>2, <2>3, <1>2
<1>5. \A x, y \in Z : f[x] = f[y] => x = y
  <2> TAKE x, y \in Z
  <2> HAVE f[x] = f[y]
  <2>1. Cardinality(A(x)) \in Nat /\ Cardinality(A(y)) \in Nat /\ Cardinality(A(x)) + 1 = Cardinality(A(y)) + 1
    BY <1>2
  <2>2. (<<x, y>> \in Rel => Cardinality(A(x)) < Cardinality(A(y)))
        /\ (<<y, x>> \in Rel => Cardinality(A(y)) < Cardinality(A(x)))
    BY <1>4
  <2> HIDE DEF A
  <2> QED
    BY <2>1, <2>2
<1> HIDE DEF f, N
<1>6. f \in Injection(Z, N)
  BY <1>3, <1>5 DEF Injection, IsInjective
<1>7. IsFiniteSet(N) /\ Cardinality(N) = Cardinality(Z)
  BY <1>1, FS_Interval DEF N
<1>8. f \in Surjection(Z, N)
  BY <1>6, <1>7, FS_Injection
<1>9. \A k \in N : \E x \in Z : f[x] = k
  BY <1>8 DEF Surjection
<1> HIDE DEF A
<1>10. \A k \in N : \E x \in Z : Cardinality(A(x)) + 1 = k
  BY <1>9 DEF f
<1> QED
  BY <1>10 DEF A, N, AheadIn

\* What a list holds is finite, and so is what a function makes of a finite set.
LEMMA ImageFinite ==
  ASSUME NEW S, IsFiniteSet(S), NEW T, NEW f \in [S -> T]
  PROVE  IsFiniteSet({f[x] : x \in S})
<1> DEFINE I == {f[x] : x \in S}
<1>1. f \in Surjection(S, I)
  BY DEF Surjection
<1> QED
  BY <1>1, FS_Surjection

\* A finite set of naturals has a greatest element.
LEMMA Greatest ==
  ASSUME NEW Z, Z \subseteq Nat, IsFiniteSet(Z), Z # {}
  PROVE  \E g \in Z : \A x \in Z : x <= g
<1> DEFINE Rel == {r \in Z \X Z : r[1] > r[2]}
<1>1. \A x, y \in Z : <<x, y>> \in Rel <=> x > y
  OBVIOUS
<1> HIDE DEF Rel
<1>2. Cardinality(Z) \in Nat /\ Cardinality(Z) # 0
  BY FS_CardinalityType, FS_EmptySet
<1>3. \A k \in 1 .. Cardinality(Z) : \E x \in Z : Cardinality(AheadIn(Z, Rel, x)) + 1 = k
  <2>1. \A x \in Z : <<x, x>> \notin Rel
    BY <1>1
  <2>2. \A x, y, z \in Z : <<x, y>> \in Rel /\ <<y, z>> \in Rel => <<x, z>> \in Rel
    BY <1>1
  <2>3. \A x, y \in Z : x = y \/ <<x, y>> \in Rel \/ <<y, x>> \in Rel
    <3> TAKE x, y \in Z
    <3>1. x \in Nat /\ y \in Nat
      OBVIOUS
    <3> QED
      BY <1>1, <3>1
  <2>4. IsFiniteSet(Z)
    OBVIOUS
  <2> QED
    BY <2>1, <2>2, <2>3, <2>4, Places
<1>4. PICK g \in Z : Cardinality(AheadIn(Z, Rel, g)) + 1 = 1
  BY <1>2, <1>3
<1> DEFINE A == AheadIn(Z, Rel, g)
<1>5. IsFiniteSet(A) /\ Cardinality(A) \in Nat
  BY FS_Subset, FS_CardinalityType DEF AheadIn
<1>6. A = {}
  <2> HIDE DEF A
  <2>1. Cardinality(A) = 0
    BY <1>4, <1>5 DEF A
  <2> QED
    BY <2>1, <1>5, FS_EmptySet
<1>7. \A x \in Z : ~(x > g)
  BY <1>1, <1>6 DEF AheadIn
<1> QED
  BY <1>7

\* Products of numbers, as the scores are made of.
LEMMA Products ==
  /\ \A x, y \in Int : x * y \in Int
  /\ \A x, y \in Nat : x * y \in Nat
  /\ \A x, y \in Nat \ {0} : x * y \in Nat \ {0}
  OBVIOUS

\* The greatest price is one, and no listed model costs more.
LEMMA PriceBounds ==
  ASSUME RoutingTypes
  PROVE  /\ R!MaxPrice \in Nat \ {0}
         /\ \A m \in R!ToSet(eligible) : R!Listed(m) => Price[m] \in Nat /\ Price[m] <= R!MaxPrice
<1> DEFINE named == R!ToSet(eligible) \cup {default}
           c == [m \in named |-> IF R!Listed(m) THEN Price[m] ELSE 0]
           Counted == {c[m] : m \in named}
<1>1. named \subseteq Models \cup {"auto"} /\ R!ToSet(eligible) = {eligible[i] : i \in 1 .. Len(eligible)}
  <2>1. DOMAIN eligible = 1 .. Len(eligible) /\ \A i \in 1 .. Len(eligible) : eligible[i] \in Models
    BY DEF RoutingTypes
  <2>2. default \in Models \cup {"auto"}
    BY DEF RoutingTypes
  <2> QED
    BY <2>1, <2>2 DEF R!ToSet
<1>2. IsFiniteSet(named)
  <2>1. IsFiniteSet(1 .. Len(eligible))
    BY FS_Interval DEF RoutingTypes
  <2>2. IsFiniteSet({eligible[i] : i \in 1 .. Len(eligible)})
    <3>1. eligible \in [1 .. Len(eligible) -> Models]
      BY DEF RoutingTypes
    <3> QED
      BY <2>1, <3>1, ImageFinite
  <2> QED
    BY <1>1, <2>2, FS_AddElement
<1>3. \A m \in named : (IF R!Listed(m) THEN Price[m] ELSE 0) \in Nat
  BY <1>1, RoutingAssumption DEF R!Listed, R!Unlisted
<1>4. c \in [named -> Nat]
  BY <1>3
<1>5. Counted \subseteq Nat /\ Counted # {} /\ IsFiniteSet(Counted)
  <2> HIDE DEF c, named
  <2>1. IsFiniteSet(Counted)
    BY <1>2, <1>4, ImageFinite
  <2>2. Counted \subseteq Nat
    BY <1>4
  <2>3. default \in named
    BY DEF named
  <2> QED
    BY <2>1, <2>2, <2>3
<1> DEFINE D == CHOOSE p \in Counted : \A q \in Counted : q <= p
<1>6. D \in Counted /\ \A q \in Counted : q <= D
  <2> HIDE DEF Counted
  <2>1. \E g \in Counted : \A x \in Counted : x <= g
    BY <1>5, Greatest
  <2> QED
    BY <2>1
<1>7. Counted = {IF R!Listed(m) THEN Price[m] ELSE 0 : m \in named}
  OBVIOUS
<1>8. R!MaxPrice = IF D = 0 THEN 1000000 ELSE D
  <2> HIDE DEF Counted
  <2> QED
    BY <1>7 DEF R!MaxPrice
<1>9. \A m \in named : R!Listed(m) => Price[m] \in Counted /\ Price[m] \in Nat
  BY <1>3, <1>7
<1> HIDE DEF Counted, D, c
<1> QED
  BY <1>5, <1>6, <1>8, <1>9

\* A score is a fraction; it is positive only for a model that is usable, and
\* for every listed one of the list that is.
LEMMA Scores ==
  ASSUME RoutingTypes, NEW m \in Models \cup {"auto"}
  PROVE  /\ R!Score(m).num \in Int /\ R!Score(m).den \in Nat \ {0}
         /\ R!Score(m).num > 0 => R!Usable(m)
         /\ m \in R!ToSet(eligible) /\ R!Listed(m) /\ R!Usable(m) => R!Score(m).num > 0
<1> DEFINE price == IF R!Listed(m) THEN Price[m] ELSE 18
           seen == R!Cardinality(R!CallsOf(m))
           n == IF seen = 0 THEN 20 ELSE seen
           s == IF seen = 0 THEN 17 ELSE R!Cardinality(R!Succeeded(R!CallsOf(m)))
           top == R!MaxPrice
<1>1. top \in Nat \ {0}
  BY PriceBounds
<1>2. price \in Nat
  BY RoutingAssumption DEF R!Listed, R!Unlisted
<1>3. n \in Nat \ {0} /\ s \in Nat
  <2>1. IsFiniteSet(1 .. Len(calls)) /\ R!CallsOf(m) \subseteq 1 .. Len(calls)
    BY FS_Interval DEF RoutingTypes, R!CallsOf
  <2>2. R!Succeeded(R!CallsOf(m)) \subseteq R!CallsOf(m)
    BY DEF R!Succeeded
  <2>3. IsFiniteSet(R!CallsOf(m)) /\ IsFiniteSet(R!Succeeded(R!CallsOf(m)))
    BY <2>1, <2>2, FS_Subset
  <2> QED
    BY <2>3, FS_CardinalityType, RouterSize
<1> HIDE DEF price, seen, n, s, top
<1>4. R!Score(m) = IF ~R!Usable(m) THEN [num |-> 0, den |-> 1]
                   ELSE [num |-> 23 * top * n - 10 * price * n + 14 * s * top, den |-> top * n]
  BY DEF R!Score, price, seen, n, s, top
<1>5. /\ top * n \in Nat \ {0} /\ 23 * top * n = 23 * (top * n)
      /\ price * n \in Nat /\ 10 * price * n = 10 * (price * n)
      /\ s * top \in Nat /\ 14 * s * top = 14 * (s * top)
  BY <1>1, <1>2, <1>3, Products
<1>6. CASE ~R!Usable(m)
  BY <1>4, <1>6
<1>7. CASE R!Usable(m)
  <2>1. R!Score(m).num = 23 * (top * n) - 10 * (price * n) + 14 * (s * top) /\ R!Score(m).den = top * n
    BY <1>4, <1>5, <1>7
  <2>2. m \in R!ToSet(eligible) /\ R!Listed(m) => price * n <= top * n
    <3> HAVE m \in R!ToSet(eligible) /\ R!Listed(m)
    <3>1. price <= top
      BY PriceBounds DEF price, top
    <3> QED
      BY <3>1, <1>1, <1>2, <1>3
  <2> DEFINE x == top * n  y == price * n  z == s * top
  <2> HIDE DEF x, y, z
  <2>3. x \in Nat \ {0} /\ y \in Nat /\ z \in Nat
    BY <1>5 DEF x, y, z
  <2>4. R!Score(m).num = 23 * x - 10 * y + 14 * z /\ R!Score(m).den = x
    BY <2>1 DEF x, y, z
  <2>5. m \in R!ToSet(eligible) /\ R!Listed(m) => y <= x
    BY <2>2 DEF x, y
  <2> QED
    BY <2>3, <2>4, <2>5, <1>7
<1> QED
  BY <1>6, <1>7

\* The places of the list with a positive score, and which is before which.
Point(i) == R!Score(R!Candidates[i])
PositivePlaces == {i \in DOMAIN R!Candidates : Point(i).num > 0}
Earlier(i, j) ==
    \/ Point(i).num * Point(j).den > Point(j).num * Point(i).den
    \/ Point(i).num * Point(j).den = Point(j).num * Point(i).den /\ i < j
BeforeIn == {r \in PositivePlaces \X PositivePlaces : Earlier(r[1], r[2])}

\* The candidates are models.
LEMMA CandidatesTyped ==
  ASSUME RoutingTypes
  PROVE  /\ R!Candidates \in Seq(Models \cup {"auto"})
         /\ IsFiniteSet(PositivePlaces) /\ PositivePlaces \subseteq DOMAIN R!Candidates
         /\ DOMAIN R!Candidates \subseteq Nat
         /\ \A i \in DOMAIN R!Candidates : Point(i).num \in Int /\ Point(i).den \in Nat \ {0}
<1>1. R!Candidates \in Seq(Models \cup {"auto"})
  <2>1. CASE eligible = <<>>
    BY <2>1 DEF R!Candidates, RoutingTypes
  <2>2. CASE eligible # <<>>
    BY <2>2 DEF R!Candidates, RoutingTypes
  <2> QED
    BY <2>1, <2>2
<1>2. DOMAIN R!Candidates = 1 .. Len(R!Candidates) /\ IsFiniteSet(1 .. Len(R!Candidates))
  BY <1>1, FS_Interval
<1>3. PositivePlaces \subseteq DOMAIN R!Candidates
  BY DEF PositivePlaces
<1>4. \A i \in DOMAIN R!Candidates : R!Candidates[i] \in Models \cup {"auto"}
  BY <1>1
<1>5. \A i \in DOMAIN R!Candidates : Point(i).num \in Int /\ Point(i).den \in Nat \ {0}
  BY <1>4, Scores DEF Point
<1> QED
  BY <1>1, <1>2, <1>3, <1>5, FS_Subset

\* Every place of the ranking is that of one candidate.
LEMMA RankedPlaces ==
  ASSUME RoutingTypes
  PROVE  \A k \in 1 .. Cardinality(PositivePlaces) :
            \E i \in PositivePlaces : Cardinality(AheadIn(PositivePlaces, BeforeIn, i)) + 1 = k
<1> USE CandidatesTyped
<1> DEFINE Z == PositivePlaces
<1>1. \A i, j \in Z : <<i, j>> \in BeforeIn <=> Earlier(i, j)
  BY DEF BeforeIn
<1>2. \A i \in Z : i \in Nat /\ Point(i).num \in Int /\ Point(i).den \in Nat \ {0}
  OBVIOUS
<1> HIDE DEF Z
<1>3. \A i \in Z : <<i, i>> \notin BeforeIn
  BY <1>1, <1>2, Products DEF Earlier
<1>4. \A i, j, l \in Z : <<i, j>> \in BeforeIn /\ <<j, l>> \in BeforeIn => <<i, l>> \in BeforeIn
  <2> TAKE i, j, l \in Z
  <2> HAVE <<i, j>> \in BeforeIn /\ <<j, l>> \in BeforeIn
  <2> DEFINE a == Point(i).num  b == Point(j).num  c == Point(l).num
             x == Point(i).den  y == Point(j).den  z == Point(l).den
  <2>1. a \in Int /\ b \in Int /\ c \in Int /\ x \in Nat \ {0} /\ y \in Nat \ {0} /\ z \in Nat \ {0}
    BY <1>2
  <2>2. (a * y > b * x \/ (a * y = b * x /\ i < j)) /\ (b * z > c * y \/ (b * z = c * y /\ j < l))
    BY <1>1 DEF Earlier
  <2>3. (a * z > c * x \/ (a * z = c * x /\ i < l)) => Earlier(i, l)
    BY DEF Earlier
  <2>4. i \in Nat /\ j \in Nat /\ l \in Nat
    BY <1>2
  <2> HIDE DEF a, b, c, x, y, z
  <2>5. /\ a * y > b * x /\ b * z >= c * y => a * z > c * x
        /\ a * y >= b * x /\ b * z > c * y => a * z > c * x
        /\ a * y = b * x /\ b * z = c * y => a * z = c * x
    <3>1. /\ a * y \in Int /\ b * x \in Int /\ b * z \in Int /\ c * y \in Int /\ a * z \in Int /\ c * x \in Int
      BY <2>1, Products
    <3>2. (a * y) * z = (a * z) * y /\ (b * x) * z = (b * z) * x /\ (c * y) * x = (c * x) * y
      BY <2>1
    <3>3. \A p, q \in Int : \A n \in Nat \ {0} :
             (p > q <=> p * n > q * n) /\ (p >= q <=> p * n >= q * n) /\ (p = q <=> p * n = q * n)
      OBVIOUS
    <3> DEFINE p == a * y  q == b * x  r == b * z  t == c * y  u == a * z  v == c * x
    <3>4. (p * z = u * y) /\ (q * z = r * x) /\ (t * x = v * y)
      BY <3>2
    <3>5. p \in Int /\ q \in Int /\ r \in Int /\ t \in Int /\ u \in Int /\ v \in Int
      BY <3>1
    <3> HIDE DEF p, q, r, t, u, v
    <3>6. (p > q <=> p * z > q * z) /\ (p >= q <=> p * z >= q * z) /\ (p = q <=> p * z = q * z)
      BY <2>1, <3>3, <3>5
    <3>7. (r > t <=> r * x > t * x) /\ (r >= t <=> r * x >= t * x) /\ (r = t <=> r * x = t * x)
      BY <2>1, <3>3, <3>5
    <3>8. (u > v <=> u * y > v * y) /\ (u = v <=> u * y = v * y)
      BY <2>1, <3>3, <3>5
    <3>9. /\ p * z \in Int /\ q * z \in Int /\ r * x \in Int /\ t * x \in Int /\ u * y \in Int /\ v * y \in Int
      BY <2>1, <3>5, Products
    <3>10. /\ p > q /\ r >= t => u > v
           /\ p >= q /\ r > t => u > v
           /\ p = q /\ r = t => u = v
      BY <3>4, <3>5, <3>6, <3>7, <3>8, <3>9
    <3> QED
      BY <3>10 DEF p, q, r, t, u, v
  <2>6. a * y \in Int /\ b * x \in Int /\ b * z \in Int /\ c * y \in Int
    BY <2>1, Products
  <2>7. a * z > c * x \/ (a * z = c * x /\ i < l)
    BY <2>2, <2>4, <2>5, <2>6
  <2> QED
    BY <1>1, <2>3, <2>7
<1>5. \A i, j \in Z : i = j \/ <<i, j>> \in BeforeIn \/ <<j, i>> \in BeforeIn
  <2> TAKE i, j \in Z
  <2>1. Point(i).num * Point(j).den \in Int /\ Point(j).num * Point(i).den \in Int
    BY <1>2, Products
  <2>2. (<<i, j>> \in BeforeIn <=> Earlier(i, j)) /\ (<<j, i>> \in BeforeIn <=> Earlier(j, i))
        /\ i \in Nat /\ j \in Nat
    BY <1>1, <1>2
  <2> DEFINE p == Point(i).num * Point(j).den  q == Point(j).num * Point(i).den
  <2>3. (Earlier(i, j) <=> p > q \/ (p = q /\ i < j)) /\ (Earlier(j, i) <=> q > p \/ (q = p /\ j < i))
    BY DEF Earlier
  <2> HIDE DEF p, q
  <2>4. p \in Int /\ q \in Int
    BY <2>1 DEF p, q
  <2> QED
    BY <2>2, <2>3, <2>4
<1>6. IsFiniteSet(Z)
  BY DEF Z
<1>7. \A k \in 1 .. Cardinality(Z) : \E i \in Z : Cardinality(AheadIn(Z, BeforeIn, i)) + 1 = k
  BY ONLY <1>3, <1>4, <1>5, <1>6, Places
<1> QED
  BY <1>7 DEF Z

\* So the ranking is of candidates with a positive score.
LEMMA RankedIsPlaces ==
  ASSUME RoutingTypes, NEW most \in Nat
  PROVE  /\ R!Ranked(most) \in Seq(Models \cup {"auto"}) /\ Len(R!Ranked(most)) <= most
         /\ most > 0 => (R!Ranked(most) = <<>> <=> PositivePlaces = {})
         /\ \A k \in DOMAIN R!Ranked(most) : \E i \in PositivePlaces : R!Ranked(most)[k] = R!Candidates[i]
         /\ most > 0 /\ PositivePlaces # {} => R!Ranked(most)[1] = R!Ranked(1)[1]
<1> USE CandidatesTyped
<1> DEFINE Z == PositivePlaces
           size == Cardinality(Z)
           N(n) == {l \in 1 .. n : l <= size}
           at == [k \in 1 .. size |-> CHOOSE i \in Z : Cardinality(AheadIn(Z, BeforeIn, i)) + 1 = k]
           points == [i \in DOMAIN R!Candidates |-> R!Score(R!Candidates[i])]
           positive == {i \in DOMAIN points : points[i].num > 0}
           place(i) == R!Cardinality({j \in positive : \/ points[j].num * points[i].den > points[i].num * points[j].den
                                                       \/ points[j].num * points[i].den = points[i].num * points[j].den /\ j < i}) + 1
<1>1. positive = Z
  BY DEF PositivePlaces, Point
<1>2. \A i \in Z : place(i) = Cardinality(AheadIn(Z, BeforeIn, i)) + 1
  <2> TAKE i \in Z
  <2>1. \A j \in Z : <<j, i>> \in BeforeIn <=>
           \/ points[j].num * points[i].den > points[i].num * points[j].den
           \/ points[j].num * points[i].den = points[i].num * points[j].den /\ j < i
    BY DEF BeforeIn, Earlier, Point
  <2>2. AheadIn(Z, BeforeIn, i)
         = {j \in positive : \/ points[j].num * points[i].den > points[i].num * points[j].den
                             \/ points[j].num * points[i].den = points[i].num * points[j].den /\ j < i}
    BY <1>1, <2>1 DEF AheadIn
  <2> QED
    BY <2>2, RouterSize
<1>3. \A n \in Nat : R!Ranked(n) = [k \in {l \in 1 .. n : l <= R!Cardinality(positive)} |->
                                      R!Candidates[CHOOSE i \in positive : place(i) = k]]
  BY DEF R!Ranked
<1>5. size \in Nat
  BY FS_CardinalityType
<1> HIDE DEF positive, place, points
<1>4. \A n \in Nat : R!Ranked(n) = [k \in N(n) |-> R!Candidates[at[k]]]
  <2> TAKE n \in Nat
  <2>1. R!Ranked(n) = [k \in {l \in 1 .. n : l <= R!Cardinality(positive)} |->
                         R!Candidates[CHOOSE i \in positive : place(i) = k]]
    BY <1>3
  <2>2. {l \in 1 .. n : l <= R!Cardinality(positive)} = N(n)
    BY <1>1, RouterSize
  <2>3. \A k \in N(n) : (CHOOSE i \in positive : place(i) = k) = at[k]
    <3> TAKE k \in N(n)
    <3>1. k \in 1 .. size
      BY <1>5
    <3>2. (CHOOSE i \in positive : place(i) = k) = (CHOOSE i \in Z : Cardinality(AheadIn(Z, BeforeIn, i)) + 1 = k)
      BY <1>1, <1>2
    <3> QED
      BY <3>1, <3>2
  <2> HIDE DEF at, N
  <2> QED
    BY <2>1, <2>2, <2>3
<1>6. \A k \in 1 .. size : at[k] \in Z /\ Cardinality(AheadIn(Z, BeforeIn, at[k])) + 1 = k
  BY RankedPlaces
<1> HIDE DEF at
<1>8. \A k \in 1 .. size : R!Candidates[at[k]] \in Models \cup {"auto"}
  BY <1>6
<1>9. size = 0 <=> Z = {}
  BY FS_EmptySet
<1> HIDE DEF size
<1>10. \A n \in Nat : N(n) = 1 .. (IF n < size THEN n ELSE size)
  BY <1>5
<1>11. \A n \in Nat : N(n) \subseteq 1 .. size
  BY <1>5
<1>12. \A n \in Nat : /\ R!Ranked(n) \in Seq(Models \cup {"auto"})
                      /\ Len(R!Ranked(n)) = (IF n < size THEN n ELSE size)
                      /\ DOMAIN R!Ranked(n) = N(n)
  <2> TAKE n \in Nat
  <2>1. R!Ranked(n) = [k \in 1 .. (IF n < size THEN n ELSE size) |-> R!Candidates[at[k]]]
    BY <1>4, <1>10
  <2>2. \A k \in 1 .. (IF n < size THEN n ELSE size) : R!Candidates[at[k]] \in Models \cup {"auto"}
    BY <1>8, <1>10, <1>11
  <2> QED
    BY <2>1, <2>2, <1>5, <1>10
<1> HIDE DEF N
<1>13. most > 0 => (R!Ranked(most) = <<>> <=> size = 0)
  BY <1>5, <1>12
<1>15. \A k \in DOMAIN R!Ranked(most) : \E i \in Z : R!Ranked(most)[k] = R!Candidates[i]
  BY <1>4, <1>6, <1>11, <1>12
<1>16. most > 0 /\ size # 0 => R!Ranked(most)[1] = R!Ranked(1)[1]
  <2> HAVE most > 0 /\ size # 0
  <2>1. 1 \in N(most) /\ 1 \in N(1)
    BY <1>5, <1>10
  <2> QED
    BY <2>1, <1>4
<1>17. Len(R!Ranked(most)) <= most
  BY <1>5, <1>12
<1> QED
  BY <1>9, <1>12, <1>13, <1>15, <1>16, <1>17

\* Nothing was recorded yet.
LEMMA RtInit == R!Init => RoutingTypes
<1> SUFFICES ASSUME NEW model \in Defaults, NEW list \in Eligible, R!InitOf(model, list) PROVE RoutingTypes
  BY DEF R!Init
<1>1. list \in Seq(Models) /\ model \in Models \cup {"auto"}
  BY RoutingAssumption
<1>2. eligible \in Seq(Models)
  <2>1. CASE model = "auto" \/ model \in R!ToSet(list)
    BY <1>1, <2>1 DEF R!InitOf
  <2>2. CASE ~(model = "auto" \/ model \in R!ToSet(list))
    <3>1. eligible = Append(list, model) /\ model \in Models
      BY <1>1, <2>2 DEF R!InitOf
    <3> QED
      BY <1>1, <3>1
  <2> QED
    BY <2>1, <2>2
<1>3. calls = <<>> /\ clock = 0 /\ headroom = [m \in Models |-> R!Unlimited] /\ default = model /\ auto \in BOOLEAN
  BY DEF R!InitOf
<1>4. calls \in Seq(Call)
  BY <1>3
<1>5. headroom \in [Models -> Int]
  BY <1>3 DEF R!Unlimited
<1> QED
  BY <1>1, <1>2, <1>3, <1>4, <1>5 DEF RoutingTypes

\* Every operation of the router keeps the types.
LEMMA RtStep == RoutingTypes /\ [R!RouterNext]_R!router => RoutingTypes'
<1> SUFFICES ASSUME RoutingTypes, R!RouterNext PROVE RoutingTypes'
  BY DEF R!router, RoutingTypes
<1>1. ASSUME NEW m \in Models, NEW ok \in BOOLEAN, R!RecordEvent(m, ok) PROVE RoutingTypes'
  <2> DEFINE call == [model |-> m, ok |-> ok, at |-> clock]
  <2>1. call \in Call /\ calls \in Seq(Call)
    BY DEF RoutingTypes, Call
  <2>2. calls' = Append(calls, call) \/ calls' = Tail(Append(calls, call))
    BY <1>1 DEF R!RecordEvent
  <2> HIDE DEF call
  <2>3. Append(calls, call) \in Seq(Call) /\ Append(calls, call) # <<>>
    BY <2>1
  <2>4. calls' \in Seq(Call)
    <3> DEFINE all == Append(calls, call)
    <3> HIDE DEF all
    <3>1. all \in Seq(Call) /\ all # <<>> /\ (calls' = all \/ calls' = Tail(all))
      BY <2>2, <2>3 DEF all
    <3>2. Tail(all) \in Seq(Call)
      BY <3>1
    <3> QED
      BY <3>1, <3>2
  <2> QED
    BY <1>1, <2>4 DEF RoutingTypes, R!RecordEvent
<1>2. ASSUME NEW m \in Models, R!SetQuotaHeadroom(m, 0) PROVE RoutingTypes'
  BY <1>2 DEF RoutingTypes, R!SetQuotaHeadroom
<1>3. ASSUME NEW list \in Eligible, R!SetEligible(list) PROVE RoutingTypes'
  BY <1>3, RoutingAssumption DEF RoutingTypes, R!SetEligible
<1>4. ASSUME NEW m \in Models \cup {"auto"}, R!SetModel(m) PROVE RoutingTypes'
  <2>1. eligible' \in Seq(Models)
    BY <1>4 DEF RoutingTypes, R!SetModel
  <2> QED
    BY <1>4, <2>1 DEF RoutingTypes, R!SetModel
<1>5. R!Tick => RoutingTypes'
  BY DEF RoutingTypes, R!Tick
<1> QED
  BY <1>1, <1>2, <1>3, <1>4, <1>5 DEF R!RouterNext

\* The choice of a model, whatever was recorded.
LEMMA ChosenIsUsable == RoutingTypes => R!RoutedToUsable
<1> SUFFICES ASSUME RoutingTypes, auto
             PROVE  \/ R!Usable(R!Resolved) /\ R!Cascade[1] = R!Resolved
                    \/ \A m \in R!ToSet(eligible) : R!Usable(m) => ~R!Listed(m)
  BY DEF R!RoutedToUsable
<1>1. R!Resolved = R!Selected
  BY DEF R!Resolved
<1>2. CASE PositivePlaces = {}
  <2> SUFFICES ASSUME NEW m \in R!ToSet(eligible), R!Usable(m), R!Listed(m) PROVE FALSE
    OBVIOUS
  <2>1. PICK i \in DOMAIN eligible : eligible[i] = m
    BY DEF R!ToSet
  <2>2. eligible # <<>> /\ m \in Models
    BY <2>1 DEF RoutingTypes
  <2>3. R!Candidates = eligible
    BY <2>2 DEF R!Candidates
  <2>4. R!Score(m).num > 0
    BY <2>2, Scores
  <2> QED
    BY <1>2, <2>1, <2>3, <2>4 DEF PositivePlaces, Point
<1>3. CASE PositivePlaces # {}
  <2>1. R!Ranked(1) # <<>> /\ R!Ranked(3) # <<>> /\ R!Ranked(3)[1] = R!Ranked(1)[1]
    BY <1>3, RankedIsPlaces
  <2>2. R!Selected = R!Ranked(1)[1] /\ R!Cascade = R!Ranked(3)
    BY <2>1 DEF R!Selected, R!Cascade
  <2>3. 1 \in DOMAIN R!Ranked(1)
    <3>1. R!Ranked(1) \in Seq(Models \cup {"auto"})
      BY RankedIsPlaces
    <3> QED
      BY <2>1, <3>1, LenProperties, EmptySeq
  <2>4. PICK i \in PositivePlaces : R!Ranked(1)[1] = R!Candidates[i]
    BY <2>3, RankedIsPlaces
  <2>5. R!Score(R!Candidates[i]).num > 0 /\ i \in DOMAIN R!Candidates
    BY DEF PositivePlaces, Point
  <2>6. R!Candidates[i] \in Models \cup {"auto"}
    BY <2>5, CandidatesTyped
  <2> QED
    BY <1>1, <2>1, <2>2, <2>4, <2>5, <2>6, Scores
<1> QED
  BY <1>2, <1>3

\* In RunEffects Routing moves as its module says, or not at all.
LEMMA RoutingBeside == RunEffectsSpec => R!Spec
  <1>1. RunEffectsInit => R!Init
    <2>1. R!InitOf(CHOOSE m \in Defaults : TRUE, CHOOSE list \in Eligible : TRUE) => R!Init
      BY RoutesAssumption DEF R!Init
    <2>. QED  BY <2>1 DEF RunEffectsInit
  <1>2. [RunEffectsNext]_runEffects => [R!RouterNext]_R!router
    BY DEF RunEffectsNext, SharedStep, SoloStep, RoutingStep, ContextStep, RepositoryStep, CheckpointsStep,
           CliStep, MergedStep, VerificationStep, VmsStep, runEffects, routing, R!router
  <1>. QED
    BY <1>1, <1>2, PTL DEF RunEffectsSpec, R!Spec

\* RoutedToUsable: whatever was recorded of calls and quotas, in whatever
\* window, automatic routing chooses a model that can answer, the first of the
\* cascade, unless no listed eligible model can
\* (ModelRouter.select_model, build_fallback_cascade).
THEOREM RoutedIsUsable == RunEffectsSpec => []RoutedToUsable
  <1>1. R!Spec => []R!RoutedToUsable
    BY RtInit, RtStep, ChosenIsUsable, PTL DEF R!Spec
  <1>. QED
    BY <1>1, RoutingBeside, PTL DEF RoutedToUsable

----------------------------------------------------------------------------
(* Reverts of merged patches (PostMerge) *)

\* Through the instance, a cardinality is the one of FiniteSets.
LEMMA MergedSize == \A Z : P!Cardinality(Z) = Cardinality(Z)
  BY DEF P!Cardinality, Cardinality

\* The elements of a set of numbers with k numbers up to them; those of a
\* sequence of texts that a set of places chooses, in order.
Ranked(of, k) == {i \in of : Cardinality({j \in of : j <= i}) = k}
Chosen(texts, of) == [k \in 1 .. Cardinality(of) |-> texts[P!Nth(of, k)]]

\* The k-th element is one of these.
LEMMA NthIs == ASSUME NEW of, NEW k PROVE P!Nth(of, k) = CHOOSE i \in Ranked(of, k) : TRUE
  BY MergedSize DEF P!Nth, Ranked

\* Where every place of one set comes before those of another, the elements of
\* both are first the former's and then the latter's.
LEMMA LowThenHigh ==
    ASSUME NEW low \in SUBSET Nat, NEW high \in SUBSET Nat, IsFiniteSet(low), IsFiniteSet(high),
           \A i \in low, j \in high : i < j
    PROVE  /\ Cardinality(low) \in Nat /\ Cardinality(high) \in Nat
           /\ Cardinality(low \cup high) = Cardinality(low) + Cardinality(high)
           /\ \A k \in 1 .. Cardinality(low) : P!Nth(low \cup high, k) = P!Nth(low, k)
           /\ \A k \in 1 .. Cardinality(high) : P!Nth(low \cup high, Cardinality(low) + k) = P!Nth(high, k)
<1> DEFINE both == low \cup high
           Upto(of, i) == {j \in of : j <= i}
           size == Cardinality(low)
<1>1. size \in Nat /\ Cardinality(high) \in Nat
  BY FS_CardinalityType
<1>2. low \cap high = {}
  OBVIOUS
<1>3. Cardinality(both) = size + Cardinality(high)
  <2>1. Cardinality(low \cap high) = 0
    BY <1>2, FS_EmptySet
  <2>2. Cardinality(both) = size + Cardinality(high) - Cardinality(low \cap high)
    BY FS_Union
  <2> QED
    BY <1>1, <2>1, <2>2
<1>a. ASSUME NEW i \in low, NEW j \in both PROVE j <= i <=> j \in low /\ j <= i
  <2>1. j \in high => i < j /\ i \in Nat /\ j \in Nat
    OBVIOUS
  <2> QED
    BY <2>1
<1>b. ASSUME NEW i \in high, NEW j \in both PROVE j <= i <=> j \in low \/ (j \in high /\ j <= i)
  <2>1. j \in low => j < i /\ i \in Nat /\ j \in Nat
    OBVIOUS
  <2> QED
    BY <2>1
<1>4. ASSUME NEW i \in low
      PROVE  Upto(both, i) = Upto(low, i) /\ Cardinality(Upto(low, i)) \in 0 .. size
  <2>1. Upto(both, i) = Upto(low, i)
    BY <1>a
  <2>2. Upto(low, i) \subseteq low
    OBVIOUS
  <2> HIDE DEF Upto
  <2> QED
    BY <2>1, <2>2, FS_Subset, FS_CardinalityType
<1>5. ASSUME NEW i \in high
      PROVE  /\ Cardinality(Upto(both, i)) = size + Cardinality(Upto(high, i))
             /\ Cardinality(Upto(high, i)) \in Nat \ {0}
  <2>1. Upto(both, i) = low \cup Upto(high, i)
    BY <1>b
  <2>4. Upto(high, i) \subseteq high /\ i \in Upto(high, i)
    OBVIOUS
  <2>5. low \cap Upto(high, i) = {}
    BY <1>2, <2>4
  <2> HIDE DEF Upto, both, size
  <2>2. IsFiniteSet(Upto(high, i)) /\ Cardinality(Upto(high, i)) \in Nat \ {0}
    BY <2>4, FS_Subset, FS_CardinalityType, FS_EmptySet
  <2>3. Cardinality(low \cap Upto(high, i)) = 0
    BY <2>5, FS_EmptySet
  <2>6. Cardinality(low \cup Upto(high, i)) = Cardinality(low) + Cardinality(Upto(high, i)) - Cardinality(low \cap Upto(high, i))
    BY <2>2, FS_Union
  <2> QED
    BY <1>1, <2>1, <2>2, <2>3, <2>6 DEF size
<1>6. ASSUME NEW k \in 1 .. size PROVE P!Nth(both, k) = P!Nth(low, k)
  <2>1. \A i \in high : Cardinality(Upto(both, i)) > k
    <3> HIDE DEF Upto, both
    <3> QED
      BY <1>1, <1>5
  <2>2. \A i \in both : Cardinality(Upto(both, i)) = k <=> i \in low /\ Cardinality(Upto(low, i)) = k
    <3> SUFFICES ASSUME NEW i \in both PROVE Cardinality(Upto(both, i)) = k <=> i \in low /\ Cardinality(Upto(low, i)) = k
      OBVIOUS
    <3> HIDE DEF Upto
    <3>1. CASE i \in low
      BY <1>4, <3>1
    <3>2. CASE i \in high
      BY <1>2, <2>1, <3>2
    <3> QED
      BY <3>1, <3>2
  <2>3. Ranked(both, k) = Ranked(low, k)
    BY <2>2 DEF Ranked
  <2> HIDE DEF both
  <2> QED
    BY <2>3, NthIs
<1>7. ASSUME NEW k \in 1 .. Cardinality(high) PROVE P!Nth(both, size + k) = P!Nth(high, k)
  <2>1. \A i \in low : Cardinality(Upto(both, i)) < size + k
    <3> SUFFICES ASSUME NEW i \in low PROVE Cardinality(Upto(both, i)) < size + k
      OBVIOUS
    <3>1. Cardinality(Upto(both, i)) \in 0 .. size
      BY <1>4
    <3> HIDE DEF Upto, both, size
    <3> QED
      BY <1>1, <3>1
  <2>2. \A i \in both : Cardinality(Upto(both, i)) = size + k <=> i \in high /\ Cardinality(Upto(high, i)) = k
    <3> SUFFICES ASSUME NEW i \in both
                 PROVE  Cardinality(Upto(both, i)) = size + k <=> i \in high /\ Cardinality(Upto(high, i)) = k
      OBVIOUS
    <3>1. CASE i \in low
      <4> HIDE DEF Upto, size
      <4> QED
        BY <1>1, <1>2, <1>4, <2>1, <3>1
    <3>2. CASE i \in high
      <4>1. /\ Cardinality(Upto(both, i)) = size + Cardinality(Upto(high, i))
            /\ Cardinality(Upto(high, i)) \in Nat
        BY <1>5, <3>2
      <4> HIDE DEF Upto, size, both
      <4> QED
        BY <1>1, <3>2, <4>1
    <3> QED
      BY <3>1, <3>2
  <2>3. Ranked(both, size + k) = Ranked(high, k)
    BY <2>2 DEF Ranked
  <2> HIDE DEF both, size
  <2> QED
    BY <2>3, NthIs
<1> QED
  BY <1>1, <1>3, <1>6, <1>7

\* Two choices that agree before a place and read alike read alike behind it:
\* they still do if what they choose before that place is another set.
Alike(texts, n, front, other, one, two) ==
    /\ n \in Nat
    /\ front \in SUBSET (1 .. n) /\ other \in SUBSET (1 .. n) /\ one \in SUBSET (1 .. n) /\ two \in SUBSET (1 .. n)
    /\ \A i \in front \cup other, j \in one \cup two : i < j
    /\ Chosen(texts, front \cup one) = Chosen(texts, front \cup two)
LEMMA TailsAlike ==
    ASSUME NEW texts, NEW n, NEW front, NEW other, NEW one, NEW two, Alike(texts, n, front, other, one, two)
    PROVE  Chosen(texts, other \cup one) = Chosen(texts, other \cup two)
<1>0. /\ n \in Nat
      /\ front \in SUBSET (1 .. n) /\ other \in SUBSET (1 .. n) /\ one \in SUBSET (1 .. n) /\ two \in SUBSET (1 .. n)
      /\ \A i \in front \cup other, j \in one \cup two : i < j
  BY DEF Alike
<1>a. Chosen(texts, front \cup one) = Chosen(texts, front \cup two)
  BY DEF Alike
<1>1. /\ IsFiniteSet(front) /\ IsFiniteSet(other) /\ IsFiniteSet(one) /\ IsFiniteSet(two)
      /\ front \in SUBSET Nat /\ other \in SUBSET Nat /\ one \in SUBSET Nat /\ two \in SUBSET Nat
  <2>1. IsFiniteSet(1 .. n) /\ 1 .. n \subseteq Nat
    BY <1>0, FS_Interval
  <2> QED
    BY <1>0, <2>1, FS_Subset
<1>2. /\ Cardinality(front) \in Nat /\ Cardinality(other) \in Nat /\ Cardinality(one) \in Nat /\ Cardinality(two) \in Nat
      /\ Cardinality(front \cup one) = Cardinality(front) + Cardinality(one)
      /\ Cardinality(front \cup two) = Cardinality(front) + Cardinality(two)
      /\ Cardinality(other \cup one) = Cardinality(other) + Cardinality(one)
      /\ Cardinality(other \cup two) = Cardinality(other) + Cardinality(two)
  BY <1>0, <1>1, LowThenHigh
<1>3. Cardinality(one) = Cardinality(two)
  <2>1. 1 .. Cardinality(front \cup one) = 1 .. Cardinality(front \cup two)
    BY <1>a DEF Chosen
  <2> QED
    BY <1>2, <2>1
<1> DEFINE size == Cardinality(one)
<1>4. ASSUME NEW k \in 1 .. size PROVE texts[P!Nth(one, k)] = texts[P!Nth(two, k)]
  <2> DEFINE at == Cardinality(front) + k
  <2>1. at \in 1 .. Cardinality(front \cup one) /\ at \in 1 .. Cardinality(front \cup two)
    BY <1>2, <1>3
  <2>2. P!Nth(front \cup one, at) = P!Nth(one, k)
    BY <1>0, <1>1, LowThenHigh
  <2>3. P!Nth(front \cup two, at) = P!Nth(two, k)
    <3>1. k \in 1 .. Cardinality(two)
      BY <1>3
    <3>2. \A i \in front, j \in two : i < j
      BY <1>0
    <3> HIDE DEF size
    <3> QED
      BY <1>1, <3>1, <3>2, LowThenHigh
  <2> HIDE DEF at
  <2>4. Chosen(texts, front \cup one)[at] = texts[P!Nth(front \cup one, at)]
    BY <2>1 DEF Chosen
  <2>5. Chosen(texts, front \cup two)[at] = texts[P!Nth(front \cup two, at)]
    BY <2>1 DEF Chosen
  <2> QED
    BY <1>a, <2>2, <2>3, <2>4, <2>5
<1>5. ASSUME NEW k \in 1 .. Cardinality(other) + size
      PROVE  texts[P!Nth(other \cup one, k)] = texts[P!Nth(other \cup two, k)]
  <2>1. CASE k \in 1 .. Cardinality(other)
    <3>1. P!Nth(other \cup one, k) = P!Nth(other, k)
      BY <1>0, <1>1, <2>1, LowThenHigh
    <3>2. P!Nth(other \cup two, k) = P!Nth(other, k)
      BY <1>0, <1>1, <2>1, LowThenHigh
    <3> QED
      BY <3>1, <3>2
  <2>2. CASE k \notin 1 .. Cardinality(other)
    <3> DEFINE q == k - Cardinality(other)
    <3>1. q \in 1 .. size /\ k = Cardinality(other) + q
      BY <1>2, <2>2
    <3> HIDE DEF q
    <3>2. P!Nth(other \cup one, k) = P!Nth(one, q)
      BY <1>0, <1>1, <3>1, LowThenHigh
    <3>3. P!Nth(other \cup two, k) = P!Nth(two, q)
      BY <1>0, <1>1, <1>3, <3>1, LowThenHigh
    <3> QED
      BY <1>4, <3>1, <3>2, <3>3
  <2> QED
    BY <2>1, <2>2
<1>6. Cardinality(other \cup one) = Cardinality(other) + size /\ Cardinality(other \cup two) = Cardinality(other) + size
  BY <1>2, <1>3
<1> HIDE DEF size
<1> QED
  BY <1>5, <1>6 DEF Chosen

\* A side chooses from the texts the places that are marked so, or not at all.
TextsOf(lines) == [i \in DOMAIN lines |-> lines[i].text]
Kept(lines, mark) == {i \in DOMAIN lines : lines[i].mark \in {"same", mark}}
LEMMA SideIs == ASSUME NEW lines, NEW mark PROVE P!Side(lines, mark) = Chosen(TextsOf(lines), Kept(lines, mark))
  BY MergedSize DEF P!Side, Chosen, TextsOf, Kept

\* The loop of generate_revert_patch, line after line.
NextPlace(p, i, at) ==
    IF at = "pair" THEN "out"
    ELSE IF P!FromHeader(p[i]) THEN "pair"
    ELSE IF p[i].mark = "range" \/ (at = "hunk" /\ ~P!ToHeader(p[i])) THEN "hunk"
    ELSE "out"
LEMMA BehindEach ==
    ASSUME NEW p, Len(p) \in Nat
    PROVE  /\ P!Behind(p)[0] = "out"
           /\ \A i \in 1 .. Len(p) : P!Behind(p)[i] = NextPlace(p, i, P!Behind(p)[i - 1])
<1> DEFINE Stands == {"out", "pair", "hunk"}
           Is(f) == f = [i \in 0 .. Len(p) |->
                            IF i = 0 THEN "out"
                            ELSE IF f[i - 1] = "pair" THEN "out"
                            ELSE IF P!FromHeader(p[i]) THEN "pair"
                            ELSE IF p[i].mark = "range" \/ (f[i - 1] = "hunk" /\ ~P!ToHeader(p[i])) THEN "hunk"
                            ELSE "out"]
           step == [i \in 1 .. Len(p) |-> [at \in Stands |-> NextPlace(p, i, at)]]
<1>1. P!Behind(p) = CHOOSE f : Is(f)
  BY DEF P!Behind
<1>2. step \in [1 .. Len(p) -> [Stands -> Stands]]
  BY DEF NextPlace
<1>3. PICK f \in [0 .. Len(p) -> Stands] : Recursively(Len(p), "out", step, f)
  <2> HIDE DEF step
  <2> QED
    BY <1>2, RecursionExists
<1>4. ASSUME NEW i \in 0 .. Len(p)
      PROVE  f[i] = IF i = 0 THEN "out" ELSE NextPlace(p, i, f[i - 1])
  <2>1. f[i] = IF i = 0 THEN "out" ELSE step[i][f[i - 1]]
    BY <1>3 DEF Recursively
  <2>2. CASE i = 0
    BY <2>1, <2>2
  <2>3. CASE i # 0
    <3>1. i \in 1 .. Len(p) /\ i - 1 \in 0 .. Len(p)
      BY <2>3
    <3>2. step[i][f[i - 1]] = NextPlace(p, i, f[i - 1])
      BY <3>1
    <3> QED
      BY <2>1, <2>3, <3>2
  <2> QED
    BY <2>2, <2>3
<1>5. f = [i \in 0 .. Len(p) |-> f[i]]
  OBVIOUS
<1>6. Is(f)
  <2> HIDE DEF step
  <2> QED
    BY <1>4, <1>5, Zenon DEF NextPlace
<1> HIDE DEF Is
<1>7. Is(P!Behind(p))
  BY <1>1, <1>6
<1>8. \A i \in 0 .. Len(p) : P!Behind(p)[i] = IF i = 0 THEN "out" ELSE NextPlace(p, i, P!Behind(p)[i - 1])
  <2> DEFINE g == P!Behind(p)
  <2>1. Is(g)
    BY <1>7
  <2> HIDE DEF g
  <2>2. \A i \in 0 .. Len(p) : g[i] = IF i = 0 THEN "out" ELSE NextPlace(p, i, g[i - 1])
    BY <2>1 DEF Is, NextPlace
  <2> QED
    BY <2>2 DEF g
<1>9. \A i \in 1 .. Len(p) : i \in 0 .. Len(p) /\ i # 0
  OBVIOUS
<1> QED
  BY <1>8, <1>9

\* A patch line by line: m mode lines, the headers, the ranges, the changes.
BodyLine == [mark : P!Marks, text : Texts, old : {0}, new : {0}]
Formed(m, from, to, old, new, body) ==
    [i \in 1 .. m + 3 + Len(body) |->
        IF i <= m THEN P!Line("mode", "new")
        ELSE IF i = m + 1 THEN P!Line("from", from)
        ELSE IF i = m + 2 THEN P!Line("to", to)
        ELSE IF i = m + 3 THEN P!Hunk(old, new)
        ELSE body[i - m - 3]]

\* Lines up to which none reads as a header; only these are turned round.
Reads(x) == P!FromHeader(x) \/ P!ToHeader(x)
Clear(body, i) == \A j \in 1 .. i : ~Reads(body[j])
Undone(body) == [i \in DOMAIN body |-> IF Clear(body, i) THEN P!Flip(body[i]) ELSE body[i]]

\* The fields of the lines of a patch; a hunk turned round.
LEMMA Fields ==
    \A x, y : /\ P!Line(x, y).mark = x /\ P!Line(x, y).text = y
             /\ P!Hunk(x, y).mark = "range" /\ P!Hunk(x, y).old = x /\ P!Hunk(x, y).new = y
             /\ P!Turned(P!Hunk(x, y)) = P!Hunk(y, x)
<1>1. \A x, y : P!Line(x, y).mark = x /\ P!Line(x, y).text = y
  BY DEF P!Line
<1>2. \A x, y : P!Hunk(x, y).mark = "range" /\ P!Hunk(x, y).old = x /\ P!Hunk(x, y).new = y
  BY DEF P!Hunk
<1>3. \A x : P!Turned(x) = P!Hunk(x.new, x.old)
  BY DEF P!Turned
<1> QED
  BY <1>1, <1>2, <1>3

\* Its lines.
LEMMA FormedLines ==
    ASSUME NEW m \in {0, 1}, NEW from, NEW to, NEW old, NEW new, NEW body \in Seq(BodyLine)
    PROVE  LET p == Formed(m, from, to, old, new, body)
           IN  /\ Len(p) = m + 3 + Len(body) /\ Len(body) \in Nat /\ DOMAIN p = 1 .. m + 3 + Len(body)
               /\ m = 1 => p[1] = P!Line("mode", "new")
               /\ p[m + 1] = P!Line("from", from) /\ p[m + 2] = P!Line("to", to)
               /\ p[m + 3] = P!Hunk(old, new)
               /\ \A i \in 1 .. Len(body) : p[m + 3 + i] = body[i] /\ body[i] \in BodyLine
<1> DEFINE p == Formed(m, from, to, old, new, body)
<1>1. Len(body) \in Nat /\ m \in Nat /\ DOMAIN body = 1 .. Len(body)
  OBVIOUS
<1>2. DOMAIN p = 1 .. m + 3 + Len(body) /\ Len(p) = m + 3 + Len(body)
  <2>1. p = [i \in 1 .. m + 3 + Len(body) |-> p[i]]
    BY DEF Formed
  <2> HIDE DEF p
  <2>2. m + 3 + Len(body) \in Nat
    BY <1>1
  <2> QED
    BY <2>1, <2>2
<1>3. ASSUME NEW i \in 1 .. m + 3 + Len(body)
      PROVE  p[i] = IF i <= m THEN P!Line("mode", "new")
                    ELSE IF i = m + 1 THEN P!Line("from", from)
                    ELSE IF i = m + 2 THEN P!Line("to", to)
                    ELSE IF i = m + 3 THEN P!Hunk(old, new)
                    ELSE body[i - m - 3]
  BY DEF Formed
<1> HIDE DEF p
<1>4. (m = 1 => p[1] = P!Line("mode", "new")) /\ p[m + 1] = P!Line("from", from) /\ p[m + 2] = P!Line("to", to)
      /\ p[m + 3] = P!Hunk(old, new)
  BY <1>1, <1>3
<1>5. ASSUME NEW i \in 1 .. Len(body) PROVE p[m + 3 + i] = body[i] /\ body[i] \in BodyLine
  <2>1. m + 3 + i \in 1 .. m + 3 + Len(body) /\ ~(m + 3 + i <= m + 3) /\ m + 3 + i - m - 3 = i
    BY <1>1
  <2> QED
    BY <1>1, <1>3, <2>1
<1> QED
  BY <1>1, <1>2, <1>4, <1>5 DEF p

\* Where the loop stands in it: in the hunk, up to a line that reads as a header.
LEMMA BehindFormed ==
    ASSUME NEW m \in {0, 1}, NEW from, NEW to, NEW old, NEW new, NEW body \in Seq(BodyLine),
           NEW p, p = Formed(m, from, to, old, new, body)
    PROVE  LET at == P!Behind(p)
           IN  /\ at[0] = "out" /\ at[m] = "out"
               /\ at[m + 1] = "pair" /\ at[m + 2] = "out" /\ at[m + 3] = "hunk"
               /\ \A i \in 1 .. Len(body) :
                     IF Clear(body, i) THEN at[m + 3 + i] = "hunk" ELSE at[m + 3 + i] \in {"out", "pair"}
<1> DEFINE at == P!Behind(p)
           n == Len(body)
           b == m + 3
<1>1. /\ Len(p) = b + n /\ n \in Nat /\ m \in Nat
      /\ m = 1 => p[1] = P!Line("mode", "new")
      /\ p[m + 1] = P!Line("from", from) /\ p[m + 2] = P!Line("to", to)
      /\ p[b] = P!Hunk(old, new)
      /\ \A i \in 1 .. n : p[b + i] = body[i] /\ body[i] \in BodyLine
  BY FormedLines
<1>2. at[0] = "out" /\ \A i \in 1 .. Len(p) : at[i] = NextPlace(p, i, at[i - 1])
  <2>1. Len(p) \in Nat
    BY <1>1
  <2> QED
    BY <2>1, BehindEach
<1> HIDE DEF at
<1>3. at[m] = "out"
  <2>1. CASE m = 0
    BY <1>2, <2>1
  <2>2. CASE m = 1
    <3>1. at[1] = NextPlace(p, 1, at[0])
      BY <1>1, <1>2, 1 - 1 = 0
    <3> QED
      BY <1>1, <1>2, <2>2, <3>1 DEF NextPlace, P!FromHeader, P!ToHeader, P!Line
  <2> QED
    BY <2>1, <2>2
<1>4. at[m + 1] = "pair"
  <2>1. at[m + 1] = NextPlace(p, m + 1, at[m])
    <3>1. m + 1 \in 1 .. Len(p) /\ (m + 1) - 1 = m
      BY <1>1
    <3> QED
      BY <1>2, <3>1
  <2> QED
    BY <1>1, <1>3, <2>1 DEF NextPlace, P!FromHeader, P!Line
<1>5. at[m + 2] = "out"
  <2>1. m + 2 \in 1 .. Len(p) /\ (m + 2) - 1 = m + 1
    BY <1>1
  <2> QED
    BY <1>2, <1>4, <2>1 DEF NextPlace
<1>6. at[b] = "hunk"
  <2>1. b \in 1 .. Len(p) /\ b - 1 = m + 2
    BY <1>1
  <2>2. at[b] = NextPlace(p, b, at[m + 2])
    BY <1>2, <2>1
  <2>3. p[b].mark = "range"
    BY <1>1, Fields
  <2> HIDE DEF b
  <2> QED
    BY <1>5, <2>2, <2>3 DEF NextPlace, P!FromHeader
<1> DEFINE Right(i) == IF Clear(body, i) THEN at[b + i] = "hunk" ELSE at[b + i] \in {"out", "pair"}
           G == {i \in 0 .. n : Right(i)}
<1>7. 0 \in G
  <2>1. Clear(body, 0) /\ b + 0 = b /\ 0 \in 0 .. n
    BY <1>1 DEF Clear
  <2> HIDE DEF b, n
  <2> QED
    BY <1>6, <2>1
<1> HIDE DEF Right
<1>8. \A i \in 0 .. n - 1 : i \in G => i + 1 \in G
  <2> SUFFICES ASSUME NEW i \in 0 .. n - 1, Right(i) PROVE Right(i + 1)
    BY <1>1
  <2>1. i + 1 \in 1 .. n /\ b + (i + 1) \in 1 .. Len(p) /\ (b + (i + 1)) - 1 = b + i
    BY <1>1
  <2>2. p[b + (i + 1)] = body[i + 1] /\ body[i + 1] \in BodyLine
    BY <1>1, <2>1
  <2>3. at[b + (i + 1)] = NextPlace(p, b + (i + 1), at[b + i])
    BY <1>2, <2>1
  <2>4. Clear(body, i + 1) <=> Clear(body, i) /\ ~Reads(body[i + 1])
    BY <1>1 DEF Clear
  <2>5. body[i + 1].mark \in {"same", "minus", "plus"}
    BY <2>2 DEF BodyLine, P!Marks
  <2> HIDE DEF b, n
  <2>6. CASE Clear(body, i)
    BY <2>2, <2>3, <2>4, <2>5, <2>6 DEF NextPlace, Reads, Right
  <2>7. CASE ~Clear(body, i)
    BY <2>2, <2>3, <2>4, <2>5, <2>7 DEF NextPlace, Reads, Right
  <2> QED
    BY <2>6, <2>7
<1> HIDE DEF G
<1>9. 0 .. n \subseteq G
  BY <1>1, <1>7, <1>8, UpToByInduction
<1>10. \A i \in 1 .. n : Right(i)
  BY <1>1, <1>9 DEF G
<1> QED
  BY <1>2, <1>3, <1>4, <1>5, <1>6, <1>10 DEF at, Right

\* What comes out: the headers and ranges change places, and the changes are
\* turned round up to a line that reads as a header.
LEMMA Reverted ==
    ASSUME NEW m \in {0, 1}, NEW from, NEW to, NEW old, NEW new, NEW body \in Seq(BodyLine),
           NEW p, p = Formed(m, from, to, old, new, body),
           NEW q, q = Formed(m, to, from, new, old, Undone(body))
    PROVE  /\ P!Revert(p) \in {P!Raised, q}
           /\ (\A i \in 1 .. Len(body) : Clear(body, i)) => P!Revert(p) = q
<1> DEFINE at == P!Behind(p)
           n == Len(body)
           b == m + 3
           Turn(i) == IF at[i] = "pair" THEN P!Header(p[i], p[i + 1])
                      ELSE IF at[i - 1] = "pair" THEN P!Header(p[i], p[i - 1])
                      ELSE IF p[i].mark = "range" THEN P!Turned(p[i])
                      ELSE IF at[i] = "hunk" THEN P!Flip(p[i]) ELSE p[i]
<1>1. /\ Len(p) = b + n /\ n \in Nat /\ m \in Nat /\ DOMAIN p = 1 .. b + n
      /\ m = 1 => p[1] = P!Line("mode", "new")
      /\ p[m + 1] = P!Line("from", from) /\ p[m + 2] = P!Line("to", to)
      /\ p[b] = P!Hunk(old, new)
      /\ \A i \in 1 .. n : p[b + i] = body[i] /\ body[i] \in BodyLine
  BY FormedLines
<1>2. /\ at[0] = "out" /\ at[m] = "out"
      /\ at[m + 1] = "pair" /\ at[m + 2] = "out" /\ at[b] = "hunk"
      /\ \A i \in 1 .. n : IF Clear(body, i) THEN at[b + i] = "hunk" ELSE at[b + i] \in {"out", "pair"}
  BY BehindFormed
<1>3. DOMAIN Undone(body) = 1 .. n /\ Len(Undone(body)) = n
  BY <1>1 DEF Undone
<1>4. P!Revert(p) = IF \E i \in DOMAIN p : at[i] = "pair" /\ ~(i < Len(p) /\ P!ToHeader(p[i + 1])) THEN P!Raised
                    ELSE [i \in DOMAIN p |-> Turn(i)]
  BY DEF P!Revert
<1> HIDE DEF at
<1>5. ASSUME NEW i \in 1 .. b + n
      PROVE  Turn(i) = IF i <= m THEN P!Line("mode", "new")
                       ELSE IF i = m + 1 THEN P!Line("from", to)
                       ELSE IF i = m + 2 THEN P!Line("to", from)
                       ELSE IF i = b THEN P!Hunk(new, old)
                       ELSE Undone(body)[i - m - 3]
  <2>1. CASE i <= m
    <3>1. i = 1 /\ m = 1 /\ i - 1 = 0
      BY <2>1
    <3>2. at[i] = "out" /\ at[i - 1] = "out" /\ p[i] = P!Line("mode", "new") /\ p[i].mark # "range"
      BY <1>1, <1>2, <3>1 DEF P!Line
    <3> QED
      BY <2>1, <3>2
  <2>2. CASE i = m + 1
    <3>1. p[i] = P!Line("from", from) /\ p[i + 1] = P!Line("to", to) /\ at[i] = "pair" /\ ~(i <= m)
      BY <1>1, <1>2, <2>2, (m + 1) + 1 = m + 2
    <3> QED
      BY <2>2, <3>1 DEF P!Header, P!Line
  <2>3. CASE i = m + 2
    <3>1. p[i] = P!Line("to", to) /\ p[i - 1] = P!Line("from", from) /\ at[i] = "out" /\ at[i - 1] = "pair"
          /\ ~(i <= m) /\ i # m + 1
      BY <1>1, <1>2, <2>3, (m + 2) - 1 = m + 1
    <3> QED
      BY <2>3, <3>1 DEF P!Header, P!Line
  <2>4. CASE i = b
    <3>1. p[i] = P!Hunk(old, new) /\ at[i] = "hunk" /\ at[i - 1] = "out" /\ ~(i <= m) /\ i # m + 1 /\ i # m + 2
      BY <1>1, <1>2, <2>4, b - 1 = m + 2
    <3> QED
      <4>1. p[i].mark = "range" /\ P!Turned(p[i]) = P!Hunk(new, old)
        BY <3>1, Fields
      <4> QED
        BY <2>4, <3>1, <4>1
  <2>5. CASE i > b
    <3> DEFINE k == i - m - 3
    <3>0. n \in Nat /\ m \in Nat
      BY <1>1
    <3>1. k \in 1 .. n /\ i = b + k /\ ~(i <= m) /\ i # m + 1 /\ i # m + 2 /\ i # b
      <4> HIDE DEF n
      <4> QED
        BY <2>5, <3>0
    <3>2. p[i] = body[k] /\ body[k] \in BodyLine
      BY <1>1, <3>1
    <3>3. p[i].mark \in {"same", "minus", "plus"}
      BY <3>2 DEF BodyLine, P!Marks
    <3>4. IF Clear(body, k) THEN at[i] = "hunk" ELSE at[i] \in {"out", "pair"}
      BY <1>2, <3>1
    <3>5. Clear(body, k) => at[i - 1] = "hunk"
      <4>1. CASE k = 1
        BY <1>1, <1>2, <3>1, <4>1, i - 1 = b
      <4>2. CASE k # 1
        <5>1. k - 1 \in 1 .. n /\ i - 1 = b + (k - 1)
          <6>1. b \in Nat /\ n \in Nat /\ k \in 1 .. n /\ i = b + k
            BY <1>1, <3>1
          <6> HIDE DEF k, b, n
          <6> QED
            BY <4>2, <6>1
        <5>2. Clear(body, k) => Clear(body, k - 1)
          <6>1. \A j \in 1 .. k - 1 : j \in 1 .. k
            BY <1>1, <3>1
          <6> HIDE DEF k
          <6> QED
            BY <6>1 DEF Clear
        <5> HIDE DEF k, b
        <5> QED
          BY <1>2, <5>1, <5>2
      <4> QED
        BY <4>1, <4>2
    <3>6. Undone(body)[k] = IF Clear(body, k) THEN P!Flip(p[i]) ELSE p[i]
      BY <1>3, <3>1, <3>2 DEF Undone
    <3>7. P!Header(p[i], p[i + 1]) = p[i] /\ P!Header(p[i], p[i - 1]) = p[i]
      BY <3>3 DEF P!Header
    <3> HIDE DEF b
    <3>8. Turn(i) = Undone(body)[k]
      BY <3>3, <3>4, <3>5, <3>6, <3>7
    <3> QED
      BY <3>1, <3>8
  <2> QED
    BY <1>1, <2>1, <2>2, <2>3, <2>4, <2>5
<1> HIDE DEF Turn
<1>6. [i \in DOMAIN p |-> Turn(i)] = q
  <2>1. q = [i \in 1 .. b + n |-> IF i <= m THEN P!Line("mode", "new")
                       ELSE IF i = m + 1 THEN P!Line("from", to)
                       ELSE IF i = m + 2 THEN P!Line("to", from)
                       ELSE IF i = b THEN P!Hunk(new, old)
                       ELSE Undone(body)[i - m - 3]]
    BY <1>3 DEF Formed
  <2> QED
    BY <1>1, <1>5, <2>1
<1>7. ASSUME \A i \in 1 .. Len(body) : Clear(body, i), NEW i \in DOMAIN p, at[i] = "pair"
      PROVE  i < Len(p) /\ P!ToHeader(p[i + 1])
  <2>1. i = m + 1
    <3>1. i > b => i - b \in 1 .. n /\ b + (i - b) = i
      BY <1>1
    <3>2. ~(i > b)
      BY <1>2, <1>7, <3>1
    <3>3. i <= m => i = m
      BY <1>1
    <3> QED
      BY <1>1, <1>2, <1>7, <3>2, <3>3
  <2> QED
    BY <1>1, <2>1, (m + 1) + 1 = m + 2 DEF P!ToHeader, P!Line
<1> QED
  BY <1>4, <1>6, <1>7

\* Lines that read so, one after another, are the patch.
LinedUp(p, m, from, to, old, new, body) ==
    /\ Len(p) = (m + 3) + Len(body) /\ p = [i \in 1 .. Len(p) |-> p[i]]
    /\ m = 1 => p[1] = P!Line("mode", "new")
    /\ p[m + 1] = P!Line("from", from) /\ p[m + 2] = P!Line("to", to) /\ p[m + 3] = P!Hunk(old, new)
    /\ \A i \in 1 .. (m + 3) + Len(body) : i > m + 3 => p[i] = body[i - (m + 3)]
LEMMA FormedIs ==
    ASSUME NEW m \in {0, 1}, NEW from, NEW to, NEW old, NEW new, NEW body, Len(body) \in Nat,
           NEW p, LinedUp(p, m, from, to, old, new, body)
    PROVE  p = Formed(m, from, to, old, new, body)
<1>0. /\ Len(p) = (m + 3) + Len(body) /\ p = [i \in 1 .. Len(p) |-> p[i]]
      /\ m = 1 => p[1] = P!Line("mode", "new")
      /\ p[m + 1] = P!Line("from", from) /\ p[m + 2] = P!Line("to", to) /\ p[m + 3] = P!Hunk(old, new)
      /\ \A i \in 1 .. (m + 3) + Len(body) : i > m + 3 => p[i] = body[i - (m + 3)]
  BY DEF LinedUp
<1>1. p = [i \in 1 .. (m + 3) + Len(body) |-> p[i]]
  BY <1>0
<1>2. ASSUME NEW i \in 1 .. (m + 3) + Len(body)
      PROVE  p[i] = IF i <= m THEN P!Line("mode", "new")
                    ELSE IF i = m + 1 THEN P!Line("from", from)
                    ELSE IF i = m + 2 THEN P!Line("to", to)
                    ELSE IF i = m + 3 THEN P!Hunk(old, new)
                    ELSE body[i - m - 3]
  <2>1. i <= m => i = 1 /\ m = 1
    OBVIOUS
  <2>2. i - (m + 3) = i - m - 3
    OBVIOUS
  <2>3. i <= m \/ i = m + 1 \/ i = m + 2 \/ i = m + 3 \/ i > m + 3
    OBVIOUS
  <2> QED
    BY <1>0, <2>1, <2>2, <2>3
<1>3. 1 .. (m + 3) + Len(body) = 1 .. m + 3 + Len(body)
  OBVIOUS
<1> QED
  BY <1>1, <1>2, <1>3, Zenon DEF Formed

\* A patch with a change is a header, a range that counts its lines, and lines
\* some of which changed; that of a created file has no old side.
LEMMA DiffIs ==
    ASSUME NEW p \in P!Patches
    PROVE  \E m \in {0, 1}, head \in Heads, body \in Seq(BodyLine) :
              /\ p = Formed(m, head.from, head.to, Len(P!OldOf(body)), Len(P!NewOf(body)), body)
              /\ Len(body) \in Nat \ {0}
              /\ \E i \in DOMAIN body : body[i].mark # "same"
              /\ head.from = P!DevNull => P!OldOf(body) = <<>>
<1>1. ASSUME NEW body \in P!Hunks
      PROVE  body \in Seq(BodyLine) /\ Len(body) \in Nat \ {0} /\ DOMAIN body = 1 .. Len(body)
  <2>1. PICK n \in 1 .. MaxLines : body \in [1 .. n -> {P!Line(mark, text) : mark \in P!Marks, text \in Texts}]
    BY DEF P!Hunks
  <2>2. {P!Line(mark, text) : mark \in P!Marks, text \in Texts} \subseteq BodyLine
    BY DEF P!Line, BodyLine
  <2>3. n \in Nat \ {0}
    OBVIOUS
  <2>4. body \in [1 .. n -> BodyLine]
    BY <2>1, <2>2
  <2> QED
    BY <2>3, <2>4
<1>2. ASSUME NEW head, NEW body \in Seq(BodyLine)
      PROVE  \E m \in {0, 1} :
                P!Diff(head, body) = Formed(m, head.from, head.to, Len(P!OldOf(body)), Len(P!NewOf(body)), body)
  <2> DEFINE old == Len(P!OldOf(body))
             new == Len(P!NewOf(body))
             start == <<P!Line("from", head.from), P!Line("to", head.to), P!Hunk(old, new)>>
             mode == <<P!Line("mode", "new")>>
  <2>1. P!Diff(head, body) = (IF head.mode THEN mode ELSE <<>>) \o start \o body
    BY DEF P!Diff
  <2>2. Len(start) = 3 /\ DOMAIN start = 1 .. 3
        /\ start[1] = P!Line("from", head.from) /\ start[2] = P!Line("to", head.to) /\ start[3] = P!Hunk(old, new)
    OBVIOUS
  <2>3. Len(mode) = 1 /\ DOMAIN mode = 1 .. 1 /\ mode[1] = P!Line("mode", "new")
    OBVIOUS
  <2> DEFINE All == BodyLine \cup {mode[1], start[1], start[2], start[3]}
  <2>4. mode \in Seq(All) /\ start \in Seq(All) /\ body \in Seq(All)
    <3>1. mode \in Seq(All)
      OBVIOUS
    <3>2. start \in Seq(All)
      <4>1. start \in [1 .. 3 -> All]
        BY <2>2
      <4> QED
        BY <4>1
    <3>3. body \in Seq(All)
      <4>1. BodyLine \subseteq All
        OBVIOUS
      <4> HIDE DEF All
      <4> QED
        BY <4>1
    <3> QED
      BY <3>1, <3>2, <3>3
  <2>5. PICK m \in {0, 1} : m = IF head.mode THEN 1 ELSE 0
    OBVIOUS
  <2> DEFINE first == IF head.mode THEN mode ELSE <<>>
             front == first \o start
             f == front \o body
  <2>6. first \in Seq(All) /\ Len(first) = m /\ (m = 1 => first[1] = mode[1])
    <3>1. << >> \in Seq(All) /\ Len(<< >>) = 0
      BY EmptySeq
    <3>2. CASE head.mode
      <4>1. first = mode /\ m = 1
        BY <2>5, <3>2
      <4> HIDE DEF first, mode, All
      <4> QED
        BY <2>3, <2>4, <4>1
    <3>3. CASE ~head.mode
      <4>1. first = << >> /\ m = 0
        BY <2>5, <3>3
      <4> HIDE DEF first, mode, All
      <4> QED
        BY <3>1, <4>1
    <3> QED
      BY <3>2, <3>3
  <2> HIDE DEF start, mode, old, new, All, first
  <2>7. /\ front \in Seq(All) /\ Len(front) = m + 3
        /\ m = 1 => front[1] = mode[1]
        /\ front[m + 1] = start[1] /\ front[m + 2] = start[2] /\ front[m + 3] = start[3]
    <3>1. /\ first \o start \in Seq(All) /\ Len(first \o start) = Len(first) + Len(start)
          /\ \A i \in 1 .. Len(first) + Len(start) :
                (first \o start)[i] = IF i <= Len(first) THEN first[i] ELSE start[i - Len(first)]
      BY <2>4, <2>6, ConcatProperties
    <3>2. Len(first) = m /\ Len(first) + Len(start) = m + 3
      BY <2>2, <2>6
    <3>3. \A i \in 1 .. m + 3 : front[i] = IF i <= m THEN first[i] ELSE start[i - m]
      BY <3>1, <3>2
    <3>4. (m + 1) - m = 1 /\ (m + 2) - m = 2 /\ (m + 3) - m = 3
      OBVIOUS
    <3> HIDE DEF front
    <3>5. m = 1 => front[1] = mode[1]
      BY <2>6, <3>3
    <3>6. front[m + 1] = start[1] /\ front[m + 2] = start[2] /\ front[m + 3] = start[3]
      BY <3>3, <3>4
    <3> QED
      BY <3>1, <3>2, <3>5, <3>6 DEF front
  <2> HIDE DEF front
  <2>8. /\ Len(f) = (m + 3) + Len(body) /\ Len(body) \in Nat /\ f \in Seq(All)
        /\ m = 1 => f[1] = P!Line("mode", "new")
        /\ f[m + 1] = P!Line("from", head.from) /\ f[m + 2] = P!Line("to", head.to) /\ f[m + 3] = P!Hunk(old, new)
        /\ \A i \in 1 .. (m + 3) + Len(body) : i > m + 3 => f[i] = body[i - (m + 3)]
    <3>1. /\ front \o body \in Seq(All) /\ Len(front \o body) = Len(front) + Len(body)
          /\ \A i \in 1 .. Len(front) + Len(body) :
                (front \o body)[i] = IF i <= Len(front) THEN front[i] ELSE body[i - Len(front)]
      BY <2>4, <2>7, ConcatProperties
    <3>2. Len(body) \in Nat
      OBVIOUS
    <3>3. f \in Seq(All) /\ Len(f) = (m + 3) + Len(body)
          /\ \A i \in 1 .. (m + 3) + Len(body) : f[i] = IF i <= m + 3 THEN front[i] ELSE body[i - (m + 3)]
      BY <2>7, <3>1
    <3> HIDE DEF f
    <3>4. /\ m = 1 => f[1] = front[1]
          /\ f[m + 1] = front[m + 1] /\ f[m + 2] = front[m + 2] /\ f[m + 3] = front[m + 3]
      <4>1. 1 \in 1 .. (m + 3) + Len(body) /\ 1 <= m + 3
            /\ m + 1 \in 1 .. (m + 3) + Len(body) /\ m + 1 <= m + 3
            /\ m + 2 \in 1 .. (m + 3) + Len(body) /\ m + 2 <= m + 3
            /\ m + 3 \in 1 .. (m + 3) + Len(body) /\ m + 3 <= m + 3
        BY <3>2
      <4> QED
        BY <3>3, <4>1
    <3>5. \A i \in 1 .. (m + 3) + Len(body) : i > m + 3 => f[i] = body[i - (m + 3)]
      BY <3>2, <3>3
    <3> QED
      BY <2>2, <2>3, <2>7, <3>2, <3>3, <3>4, <3>5
  <2> HIDE DEF f
  <2>9. f = Formed(m, head.from, head.to, old, new, body)
    <3>1. f = [i \in 1 .. Len(f) |-> f[i]]
      BY <2>8
    <3>2. LinedUp(f, m, head.from, head.to, old, new, body)
      BY <2>8, <3>1, Zenon DEF LinedUp
    <3> QED
      BY <2>8, <3>2, FormedIs, Zenon
  <2> QED
    BY <2>1, <2>9 DEF f, front, first, old, new
<1>3. ASSUME NEW body \in P!Hunks, P!OldOf(body) = <<>>
      PROVE  \E i \in DOMAIN body : body[i].mark # "same"
  <2>0. body \in Seq(BodyLine) /\ Len(body) \in Nat \ {0} /\ DOMAIN body = 1 .. Len(body)
    BY <1>1
  <2>1. body \in Seq(BodyLine) /\ 1 \in DOMAIN body
    BY <2>0
  <2> SUFFICES ASSUME body[1].mark = "same" PROVE FALSE
    BY <2>1
  <2>2. 1 \in Kept(body, "minus")
    BY <2>1 DEF Kept
  <2>3. IsFiniteSet(Kept(body, "minus"))
    <3>1. IsFiniteSet(1 .. Len(body))
      <4>1. Len(body) \in Int /\ 1 \in Int
        BY <2>0
      <4> QED
        BY <4>1, FS_Interval
    <3>2. Kept(body, "minus") \subseteq 1 .. Len(body)
      BY <2>0 DEF Kept
    <3> QED
      BY <3>1, <3>2, FS_Subset
  <2>4. Cardinality(Kept(body, "minus")) \in Nat \ {0}
    BY <2>2, <2>3, FS_CardinalityType, FS_EmptySet
  <2>5. P!OldOf(body) = Chosen(TextsOf(body), Kept(body, "minus"))
    BY SideIs DEF P!OldOf
  <2>6. DOMAIN P!OldOf(body) = 1 .. Cardinality(Kept(body, "minus"))
    BY <2>5 DEF Chosen
  <2> DEFINE size == Cardinality(Kept(body, "minus"))
  <2>7. 1 \in DOMAIN P!OldOf(body)
    <3>1. size \in Nat \ {0} /\ DOMAIN P!OldOf(body) = 1 .. size
      BY <2>4, <2>6
    <3> HIDE DEF size
    <3> QED
      BY <3>1
  <2>8. DOMAIN P!OldOf(body) = {}
    <3>1. DOMAIN << >> = {}
      OBVIOUS
    <3> QED
      BY <1>3, <3>1
  <2> QED
    BY <2>7, <2>8
<1>4. CASE \E head \in Heads, body \in P!Hunks :
              p = P!Diff(head, body) /\ head.from # P!DevNull /\ \E i \in DOMAIN body : body[i].mark # "same"
  BY <1>1, <1>2, <1>4
<1>5. CASE \E head \in Heads, body \in P!Hunks :
              p = P!Diff(head, body) /\ head.from = P!DevNull /\ P!OldOf(body) = <<>>
  BY <1>1, <1>2, <1>3, <1>5
<1>6. \/ \E head \in Heads, body \in P!Hunks :
            p = P!Diff(head, body) /\ head.from # P!DevNull /\ \E i \in DOMAIN body : body[i].mark # "same"
      \/ \E head \in Heads, body \in P!Hunks :
            p = P!Diff(head, body) /\ head.from = P!DevNull /\ P!OldOf(body) = <<>>
  <2> DEFINE Existing == {h \in Heads : h.from # P!DevNull}
             Created == {h \in Heads : h.from = P!DevNull}
             Changed == {l \in P!Hunks : \E i \in DOMAIN l : l[i].mark # "same"}
             Filled == {l \in P!Hunks : P!OldOf(l) = <<>>}
  <2>1. p \in {P!Diff(head, lines) : head \in Existing, lines \in Changed}
             \cup {P!Diff(head, lines) : head \in Created, lines \in Filled}
    BY DEF P!Patches
  <2>2. \/ \E head \in Existing, lines \in Changed : p = P!Diff(head, lines)
        \/ \E head \in Created, lines \in Filled : p = P!Diff(head, lines)
    <3> HIDE DEF Existing, Created, Changed, Filled
    <3> QED
      BY <2>1
  <2>3. /\ \A head \in Existing : head \in Heads /\ head.from # P!DevNull
        /\ \A head \in Created : head \in Heads /\ head.from = P!DevNull
        /\ \A lines \in Changed : lines \in P!Hunks /\ \E i \in DOMAIN lines : lines[i].mark # "same"
        /\ \A lines \in Filled : lines \in P!Hunks /\ P!OldOf(lines) = <<>>
    OBVIOUS
  <2> HIDE DEF Existing, Created, Changed, Filled
  <2> QED
    BY <2>2, <2>3
<1> QED
  BY <1>4, <1>5, <1>6

\* What git makes of a patch.
LEMMA AppliedFormed ==
    ASSUME NEW m \in {0, 1}, NEW from, NEW to, NEW old, NEW new, NEW body \in Seq(BodyLine),
           NEW p, p = Formed(m, from, to, old, new, body)
    PROVE  /\ P!First(p) = m + 1 /\ P!Body(p) = body
           /\ \A lines : P!Apply(p, lines) =
                 IF /\ m = 1 => from = P!DevNull
                    /\ Len(P!OldOf(body)) = old /\ Len(P!NewOf(body)) = new
                    /\ P!OldOf(body) = lines
                    /\ to = P!DevNull => P!NewOf(body) = <<>>
                 THEN P!NewOf(body) ELSE P!Rejected
<1>1. /\ Len(p) = m + 3 + Len(body) /\ Len(body) \in Nat
      /\ m = 1 => p[1] = P!Line("mode", "new")
      /\ p[m + 1] = P!Line("from", from) /\ p[m + 2] = P!Line("to", to)
      /\ p[m + 3] = P!Hunk(old, new)
      /\ \A i \in 1 .. Len(body) : p[m + 3 + i] = body[i] /\ body[i] \in BodyLine
  BY FormedLines
<1>2. P!First(p) = m + 1
  <2>1. CASE m = 0
    <3>1. p[1].mark = "from"
      BY <1>1, <2>1, Fields
    <3> QED
      BY <2>1, <3>1 DEF P!First
  <2>2. CASE m = 1
    <3>1. p[1].mark = "mode"
      BY <1>1, <2>2, Fields
    <3> QED
      BY <2>2, <3>1 DEF P!First
  <2> QED
    BY <2>1, <2>2
<1>3. P!Body(p) = body
  <2> DEFINE start == m + 4
  <2>1. P!Body(p) = SubSeq(p, start, Len(p))
    <3>1. P!First(p) + 3 = start
      BY <1>2
    <3> QED
      BY <3>1 DEF P!Body
  <2>2. start \in Int /\ Len(p) \in Int /\ Len(p) - start + 1 = Len(body)
        /\ (start <= Len(p) <=> Len(body) >= 1) /\ \A i \in 1 .. Len(body) : start + i - 1 = m + 3 + i
    BY <1>1
  <2>3. \A i \in start .. Len(p) : p[i] \in BodyLine
    <3> SUFFICES ASSUME NEW i \in start .. Len(p) PROVE p[i] \in BodyLine
      OBVIOUS
    <3>1. i - m - 3 \in 1 .. Len(body) /\ m + 3 + (i - m - 3) = i
      BY <1>1
    <3> QED
      BY <1>1, <3>1
  <2> HIDE DEF start
  <2>4. /\ SubSeq(p, start, Len(p)) \in Seq(BodyLine)
        /\ Len(SubSeq(p, start, Len(p))) = Len(body)
        /\ \A i \in 1 .. Len(body) : SubSeq(p, start, Len(p))[i] = p[start + i - 1]
    <3>1. /\ SubSeq(p, start, Len(p)) \in Seq(BodyLine)
          /\ Len(SubSeq(p, start, Len(p))) = IF start <= Len(p) THEN Len(p) - start + 1 ELSE 0
          /\ \A i \in 1 .. Len(p) - start + 1 : SubSeq(p, start, Len(p))[i] = p[start + i - 1]
      BY <2>2, <2>3, SubSeqProperties
    <3> QED
      BY <1>1, <2>2, <3>1
  <2>5. \A i \in 1 .. Len(body) : SubSeq(p, start, Len(p))[i] = body[i]
    BY <1>1, <2>2, <2>4
  <2> DEFINE cut == SubSeq(p, start, Len(p))
  <2>6. cut \in Seq(BodyLine) /\ Len(cut) = Len(body) /\ \A i \in 1 .. Len(body) : cut[i] = body[i]
    BY <2>4, <2>5
  <2> HIDE DEF cut
  <2>7. cut = body
    BY <2>6
  <2> QED
    BY <2>1, <2>7 DEF cut
<1>4. /\ P!First(p) = 2 <=> m = 1
      /\ m = 1 => p[2].text = from
      /\ p[P!First(p) + 1].text = to
      /\ p[P!First(p) + 2].old = old /\ p[P!First(p) + 2].new = new
  <2>1. (m + 1) + 1 = m + 2 /\ (m + 1) + 2 = m + 3 /\ (m + 1 = 2 <=> m = 1)
    OBVIOUS
  <2> QED
    BY <1>1, <1>2, <2>1, Fields
<1> QED
  BY <1>2, <1>3, <1>4 DEF P!Apply

\* What is turned round is a hunk of the same texts; the sides of the lines up
\* to the first that reads as a header change places.
LEMMA UndoneIs ==
    ASSUME NEW body \in Seq(BodyLine)
    PROVE  /\ Undone(body) \in Seq(BodyLine) /\ Len(Undone(body)) = Len(body) /\ DOMAIN Undone(body) = DOMAIN body
           /\ \A i \in DOMAIN body :
                 Undone(body)[i].mark = IF ~Clear(body, i) THEN body[i].mark
                                        ELSE IF body[i].mark = "plus" THEN "minus"
                                        ELSE IF body[i].mark = "minus" THEN "plus" ELSE "same"
           /\ TextsOf(Undone(body)) = TextsOf(body)
<1>1. DOMAIN body = 1 .. Len(body) /\ Len(body) \in Nat /\ \A i \in DOMAIN body : body[i] \in BodyLine
  OBVIOUS
<1>2. ASSUME NEW x \in BodyLine
      PROVE  /\ P!Flip(x) \in BodyLine /\ P!Flip(x).text = x.text
             /\ P!Flip(x).mark = IF x.mark = "plus" THEN "minus" ELSE IF x.mark = "minus" THEN "plus" ELSE "same"
             /\ x.mark \in {"same", "minus", "plus"}
  BY DEF BodyLine, P!Flip, P!Marks
<1>3. Undone(body) = [i \in 1 .. Len(body) |-> IF Clear(body, i) THEN P!Flip(body[i]) ELSE body[i]]
  BY <1>1 DEF Undone
<1>4. Undone(body) \in [1 .. Len(body) -> BodyLine]
  BY <1>1, <1>2, <1>3
<1>5. Undone(body) \in Seq(BodyLine) /\ Len(Undone(body)) = Len(body) /\ DOMAIN Undone(body) = DOMAIN body
  BY <1>1, <1>4
<1>6. ASSUME NEW i \in DOMAIN body
      PROVE  /\ Undone(body)[i].mark = IF ~Clear(body, i) THEN body[i].mark
                                        ELSE IF body[i].mark = "plus" THEN "minus"
                                        ELSE IF body[i].mark = "minus" THEN "plus" ELSE "same"
             /\ Undone(body)[i].text = body[i].text
  <2>1. body[i] \in BodyLine /\ i \in 1 .. Len(body)
    BY <1>1
  <2>2. Undone(body)[i] = IF Clear(body, i) THEN P!Flip(body[i]) ELSE body[i]
    BY <1>3, <2>1
  <2> QED
    BY <1>2, <2>1, <2>2
<1>7. TextsOf(Undone(body)) = TextsOf(body)
  BY <1>5, <1>6 DEF TextsOf
<1> QED
  BY <1>5, <1>6, <1>7

\* Up to a place and behind it, what a side of the turned lines keeps.
LEMMA UndoneKeeps ==
    ASSUME NEW body \in Seq(BodyLine), NEW U, U = {i \in DOMAIN body : Clear(body, i)}
    PROVE  /\ Kept(Undone(body), "minus") = (U \cap Kept(body, "plus")) \cup (Kept(body, "minus") \ U)
           /\ Kept(Undone(body), "plus") = (U \cap Kept(body, "minus")) \cup (Kept(body, "plus") \ U)
<1>1. \A i \in DOMAIN body : body[i].mark \in {"same", "minus", "plus"}
  <2>1. \A i \in DOMAIN body : body[i] \in BodyLine
    OBVIOUS
  <2>2. \A x \in BodyLine : x.mark \in {"same", "minus", "plus"}
    BY DEF BodyLine, P!Marks
  <2> QED
    BY <2>1, <2>2
<1>2. DOMAIN Undone(body) = DOMAIN body
  BY UndoneIs
<1>3. \A i \in DOMAIN body : Undone(body)[i].mark = IF ~Clear(body, i) THEN body[i].mark
                                        ELSE IF body[i].mark = "plus" THEN "minus"
                                        ELSE IF body[i].mark = "minus" THEN "plus" ELSE "same"
  BY UndoneIs
<1>4. \A i \in DOMAIN body : i \in U <=> Clear(body, i)
  OBVIOUS
<1>5. \A i \in DOMAIN body :
         /\ i \in Kept(Undone(body), "minus") <=> IF i \in U THEN i \in Kept(body, "plus") ELSE i \in Kept(body, "minus")
         /\ i \in Kept(Undone(body), "plus") <=> IF i \in U THEN i \in Kept(body, "minus") ELSE i \in Kept(body, "plus")
  BY <1>1, <1>2, <1>3, <1>4 DEF Kept
<1>6. /\ Kept(Undone(body), "minus") \subseteq DOMAIN body /\ Kept(Undone(body), "plus") \subseteq DOMAIN body
      /\ Kept(body, "minus") \subseteq DOMAIN body /\ Kept(body, "plus") \subseteq DOMAIN body
  BY <1>2 DEF Kept
<1> QED
  BY <1>5, <1>6

\* If the turned lines start from what the lines lead to, they lead to what the
\* lines start from: so they do when all lines are turned.
LEMMA UndoneSides ==
    ASSUME NEW body \in Seq(BodyLine)
    PROVE  /\ P!OldOf(Undone(body)) = P!NewOf(body) => P!NewOf(Undone(body)) = P!OldOf(body)
           /\ (\A i \in 1 .. Len(body) : Clear(body, i)) => P!OldOf(Undone(body)) = P!NewOf(body)
<1> DEFINE texts == TextsOf(body)
           n == Len(body)
           U == {i \in DOMAIN body : Clear(body, i)}
           olds == Kept(body, "minus")
           news == Kept(body, "plus")
           front == U \cap news
           other == U \cap olds
           one == olds \ U
           two == news \ U
<1>1. /\ P!OldOf(body) = Chosen(texts, olds) /\ P!NewOf(body) = Chosen(texts, news)
      /\ P!OldOf(Undone(body)) = Chosen(texts, front \cup one)
      /\ P!NewOf(Undone(body)) = Chosen(texts, other \cup two)
  <2>1. Kept(Undone(body), "minus") = front \cup one /\ Kept(Undone(body), "plus") = other \cup two
    BY UndoneKeeps
  <2>2. TextsOf(Undone(body)) = texts
    BY UndoneIs
  <2> QED
    BY <2>1, <2>2, SideIs DEF P!OldOf, P!NewOf
<1>2. front \cup two = news /\ other \cup one = olds
  OBVIOUS
<1>3. n \in Nat /\ DOMAIN body = 1 .. n
  OBVIOUS
<1>4. /\ front \in SUBSET (1 .. n) /\ other \in SUBSET (1 .. n) /\ one \in SUBSET (1 .. n) /\ two \in SUBSET (1 .. n)
      /\ front \cup other \subseteq U /\ (one \cup two) \cap U = {}
  BY <1>3 DEF Kept
<1>5. \A i \in front \cup other, j \in one \cup two : i < j
  <2>1. ASSUME NEW i \in 1 .. n, NEW j \in 1 .. n, i \in U, j \notin U PROVE i < j
    <3> SUFFICES ASSUME j <= i PROVE FALSE
      BY <1>3
    <3>1. Clear(body, i) /\ ~Clear(body, j)
      BY <1>3, <2>1
    <3>2. \A k \in 1 .. j : k \in 1 .. i
      BY <1>3
    <3> QED
      BY <3>1, <3>2 DEF Clear
  <2> HIDE DEF front, other, one, two, U, n
  <2> QED
    BY <1>4, <2>1
<1>6. ASSUME \A i \in 1 .. Len(body) : Clear(body, i)
      PROVE  P!OldOf(Undone(body)) = P!NewOf(body)
  <2>1. one = {} /\ two = {}
    BY <1>3, <1>6 DEF Kept
  <2>2. front \cup one = news
    BY <1>2, <2>1
  <2> QED
    BY <1>1, <2>2
<1> HIDE DEF texts, front, other, one, two, U, n, olds, news
<1>7. ASSUME Chosen(texts, front \cup one) = Chosen(texts, front \cup two)
      PROVE  Chosen(texts, other \cup one) = Chosen(texts, other \cup two)
  <2>1. Alike(texts, n, front, other, one, two)
    BY <1>3, <1>4, <1>5, <1>7 DEF Alike
  <2> QED
    BY <2>1, TailsAlike
<1> QED
  BY <1>1, <1>2, <1>6, <1>7

\* A patch is not the error of a line that was not understood, nor nothing.
LEMMA FormedIsSome ==
    ASSUME NEW m \in {0, 1}, NEW from, NEW to, NEW old, NEW new, NEW body \in Seq(BodyLine),
           NEW p, p = Formed(m, from, to, old, new, body)
    PROVE  p # P!Raised /\ p # << >>
<1>1. 2 \in DOMAIN p
  <2>1. DOMAIN p = 1 .. m + 3 + Len(body) /\ Len(body) \in Nat
    BY FormedLines
  <2> QED
    BY <2>1
<1>2. DOMAIN P!Raised = {1}
  BY DEF P!Raised
<1>3. DOMAIN << >> = {}
  OBVIOUS
<1> QED
  BY <1>1, <1>2, <1>3

\* The answer to a failure: an error, nothing, or the patch turned round; the
\* last if no line of a change reads as a header.
LEMMA Answered ==
    ASSUME NEW m \in {0, 1}, NEW from, NEW to, NEW old, NEW new, NEW body \in Seq(BodyLine),
           NEW p, p = Formed(m, from, to, old, new, body),
           NEW q, q = Formed(m, to, from, new, old, Undone(body))
    PROVE  /\ P!RevertPatch(p) \in {P!Raised, << >>, q}
           /\ (\A i \in 1 .. Len(body) : Clear(body, i)) /\ (\E i \in DOMAIN body : body[i].mark # "same")
                => P!RevertPatch(p) = q
<1>1. P!Revert(p) \in {P!Raised, q} /\ ((\A i \in 1 .. Len(body) : Clear(body, i)) => P!Revert(p) = q)
  BY Reverted
<1>2. P!RevertPatch(p) = IF P!Revert(p) = P!Raised THEN P!Raised
                         ELSE IF \E i \in DOMAIN p : P!Revert(p)[i].mark # p[i].mark THEN P!Revert(p) ELSE << >>
  BY DEF P!RevertPatch
<1>3. Undone(body) \in Seq(BodyLine) /\ Len(Undone(body)) = Len(body)
  BY UndoneIs
<1>4. q # P!Raised
  BY <1>3, FormedIsSome
<1>5. ASSUME \A i \in 1 .. Len(body) : Clear(body, i), NEW k \in DOMAIN body, body[k].mark # "same"
      PROVE  \E i \in DOMAIN p : q[i].mark # p[i].mark
  <2>1. k \in 1 .. Len(body) /\ Len(body) \in Nat /\ m + 3 + k \in 1 .. m + 3 + Len(body)
    OBVIOUS
  <2>2. m + 3 + k \in DOMAIN p /\ p[m + 3 + k] = body[k] /\ body[k] \in BodyLine
    BY <2>1, FormedLines
  <2>3. q[m + 3 + k] = Undone(body)[k]
    BY <1>3, <2>1, FormedLines
  <2>4. Clear(body, k)
    BY <1>5, <2>1
  <2>5. Undone(body)[k].mark # body[k].mark
    <3>1. body[k].mark \in {"same", "minus", "plus"}
      BY <2>2 DEF BodyLine, P!Marks
    <3>2. Undone(body)[k].mark = IF body[k].mark = "plus" THEN "minus"
                                 ELSE IF body[k].mark = "minus" THEN "plus" ELSE "same"
      BY <2>4, UndoneIs
    <3> QED
      BY <1>5, <3>1, <3>2
  <2> QED
    BY <2>2, <2>3, <2>5
<1> QED
  BY <1>1, <1>2, <1>4, <1>5

\* A patch whose report is not an error is undone as far as the report says.
LEMMA PatchUndone ==
    ASSUME NEW p \in P!Patches, P!RevertPatch(p) # P!Raised
    PROVE  LET old == P!OldOf(P!Body(p))
               new == P!NewOf(P!Body(p))
               revert == P!RevertPatch(p)
           IN  /\ P!Plain(p) => revert # << >> /\ P!Apply(revert, new) = old
               /\ (P!Plain(p) /\ P!Plain(revert)) => P!RevertPatch(revert) = p
               /\ revert # << >> => P!Apply(revert, new) \in {old, P!Rejected}
<1>1. PICK m \in {0, 1}, head \in Heads, body \in Seq(BodyLine) :
              /\ p = Formed(m, head.from, head.to, Len(P!OldOf(body)), Len(P!NewOf(body)), body)
              /\ Len(body) \in Nat \ {0}
              /\ \E i \in DOMAIN body : body[i].mark # "same"
              /\ head.from = P!DevNull => P!OldOf(body) = << >>
  BY DiffIs
<1> DEFINE from == head.from
           to == head.to
           old == P!OldOf(body)
           new == P!NewOf(body)
           undone == Undone(body)
           q == Formed(m, to, from, Len(new), Len(old), undone)
           revert == P!RevertPatch(p)
<1>2. P!First(p) = m + 1 /\ P!Body(p) = body
  BY <1>1, AppliedFormed
<1>3. undone \in Seq(BodyLine) /\ Len(undone) = Len(body) /\ DOMAIN undone = DOMAIN body /\ DOMAIN body = 1 .. Len(body)
  BY UndoneIs
<1>4. P!OldOf(undone) = new => P!NewOf(undone) = old
  BY UndoneSides
<1>5. revert \in {<< >>, q}
  BY <1>1, Answered
<1>6. q # << >>
  BY <1>1, <1>3, FormedIsSome
<1>7. /\ P!First(q) = m + 1 /\ P!Body(q) = undone
      /\ P!Apply(q, new) =
            IF /\ m = 1 => to = P!DevNull
               /\ Len(P!OldOf(undone)) = Len(new) /\ Len(P!NewOf(undone)) = Len(old)
               /\ P!OldOf(undone) = new
               /\ from = P!DevNull => P!NewOf(undone) = << >>
            THEN P!NewOf(undone) ELSE P!Rejected
  BY <1>1, <1>3, AppliedFormed
<1> HIDE DEF q, revert, undone, old, new, from, to
<1>8. revert # << >> => P!Apply(revert, new) \in {old, P!Rejected}
  BY <1>4, <1>5, <1>7
<1>9. ASSUME P!Plain(p)
      PROVE  /\ m = 0 /\ revert = q /\ P!Apply(q, new) = old
             /\ \A i \in 1 .. Len(body) : Clear(body, i)
  <2>1. m = 0
    BY <1>1, <1>2, <1>9 DEF P!Plain
  <2>2. \A i \in 1 .. Len(body) : ~Reads(body[i])
    BY <1>2, <1>3, <1>9 DEF P!Plain, Reads
  <2>3. \A i \in 1 .. Len(body) : Clear(body, i)
    BY <1>1, <2>2 DEF Clear
  <2>4. revert = q
    BY <1>1, <2>3, Answered DEF revert, q, undone, from, to, old, new
  <2>5. P!OldOf(undone) = new /\ P!NewOf(undone) = old
    BY <1>4, <2>3, UndoneSides DEF undone, new
  <2>6. from = P!DevNull => P!NewOf(undone) = << >>
    BY <1>1, <2>5 DEF from, old
  <2> QED
    BY <1>7, <2>1, <2>3, <2>4, <2>5, <2>6
<1>10. ASSUME P!Plain(p), P!Plain(q)
       PROVE  P!RevertPatch(q) = p
  <2>1. \A i \in 1 .. Len(body) : Clear(body, i)
    BY <1>9, <1>10
  <2>2. \A i \in 1 .. Len(body) : ~Reads(undone[i])
    BY <1>3, <1>7, <1>10 DEF P!Plain, Reads
  <2>3. \A i \in 1 .. Len(undone) : Clear(undone, i)
    BY <1>1, <1>3, <2>2 DEF Clear
  <2>4. \A i \in DOMAIN body : undone[i] = P!Flip(body[i])
    BY <1>3, <2>1 DEF undone, Undone
  <2>5. \A i \in DOMAIN body : body[i] \in BodyLine
    OBVIOUS
  <2>6. \E i \in DOMAIN undone : undone[i].mark # "same"
    <3>1. \A x \in BodyLine : x.mark # "same" => P!Flip(x).mark # "same"
      BY DEF BodyLine, P!Flip, P!Marks
    <3> QED
      BY <1>1, <1>3, <2>4, <2>5, <3>1
  <2>7. Undone(undone) = body
    <3>1. \A x \in BodyLine : P!Flip(P!Flip(x)) = x
      BY DEF BodyLine, P!Flip, P!Marks
    <3>2. Undone(undone) = [i \in DOMAIN body |-> P!Flip(undone[i])]
      BY <1>3, <2>3 DEF Undone
    <3>3. \A i \in DOMAIN body : P!Flip(undone[i]) = body[i]
      BY <2>4, <2>5, <3>1
    <3>4. body = [i \in DOMAIN body |-> body[i]]
      OBVIOUS
    <3> QED
      BY <3>2, <3>3, <3>4
  <2>8. p = Formed(m, from, to, Len(old), Len(new), Undone(undone))
    BY <1>1, <2>7 DEF from, to, old, new
  <2> QED
    BY <1>3, <2>3, <2>6, <2>8, Answered DEF q
<1>11. P!Plain(p) => revert # << >> /\ P!Apply(revert, new) = old
  BY <1>6, <1>9
<1>12. (P!Plain(p) /\ P!Plain(revert)) => P!RevertPatch(revert) = p
  BY <1>9, <1>10
<1> QED
  BY <1>2, <1>8, <1>11, <1>12 DEF revert, old, new

\* What is reported of the merged run is reported of the same patch; it has been
\* rolled back only if that patch could be read.
PmInv ==
    /\ patch \in P!Patches /\ audits \in Nat
    /\ audits > 0 => P!RevertPatch(patch) # P!Raised

LEMMA PmInit == P!Init => PmInv
  BY DEF P!Init, P!InitOf, PmInv

LEMMA PmStep == PmInv /\ [P!Next]_P!vars => PmInv'
<1> SUFFICES ASSUME PmInv, [P!Next]_P!vars PROVE PmInv'
  OBVIOUS
<1>1. ASSUME NEW ciFailed \in BOOLEAN, NEW inWindow \in BOOLEAN, P!Report(ciFailed, inWindow) PROVE PmInv'
  <2>1. patch' = patch /\ (audits' = audits \/ (audits' = audits + 1 /\ P!RevertPatch(patch) # P!Raised))
    BY <1>1 DEF P!Report, P!RecordRollback
  <2> QED
    BY <2>1 DEF PmInv
<1>2. CASE UNCHANGED P!vars
  BY <1>2 DEF PmInv, P!vars
<1> QED
  BY <1>1, <1>2 DEF P!Next

LEMMA PmUndoes == PmInv => P!RevertUndoes
<1> SUFFICES ASSUME PmInv, audits > 0
             PROVE  LET old == P!OldOf(P!Body(patch))
                        new == P!NewOf(P!Body(patch))
                        revert == P!RevertPatch(patch)
                    IN  /\ revert # P!Raised
                        /\ P!Plain(patch) => revert # << >> /\ P!Apply(revert, new) = old
                        /\ (P!Plain(patch) /\ P!Plain(revert)) => P!RevertPatch(revert) = patch
                        /\ revert # << >> => P!Apply(revert, new) \in {old, P!Rejected}
  BY DEF P!RevertUndoes
<1>1. patch \in P!Patches /\ P!RevertPatch(patch) # P!Raised
  BY DEF PmInv
<1> QED
  BY <1>1, PatchUndone

\* In RunEffects PostMerge moves as its module says, or not at all.
LEMMA MergedBeside == RunEffectsSpec => P!Spec
  <1>1. RunEffectsInit => P!Init
    <2>1. P!InitOf(SomePatch) => P!Init
      BY StandingAssumption DEF P!Init
    <2>. QED  BY <2>1 DEF RunEffectsInit
  <1>2. [RunEffectsNext]_runEffects => [P!Next]_P!vars
    BY DEF RunEffectsNext, SharedStep, SoloStep, RoutingStep, ContextStep, RepositoryStep, CheckpointsStep,
           CliStep, MergedStep, VerificationStep, VmsStep, runEffects, merged, P!vars
  <1>. QED
    BY <1>1, <1>2, PTL DEF RunEffectsSpec, P!Spec

\* RevertUndoes, for patches of any length: the answer to a report that rolls a
\* run back undoes its patch if that is plain, and reverted in its turn it is
\* the patch, if it is plain too; of other patches the report fails and records
\* nothing, or has nothing to undo, or gives a patch that git rejects
\* (generate_revert_patch, report_ci_status).
THEOREM RevertsUndo == RunEffectsSpec => []RevertUndoes
  <1>1. P!Spec => []P!RevertUndoes
    BY PmInit, PmStep, PmUndoes, PTL DEF P!Spec
  <1>. QED
    BY <1>1, MergedBeside, PTL DEF RevertUndoes
=============================================================================
