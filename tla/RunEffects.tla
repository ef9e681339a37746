----------------------------- MODULE RunEffects -----------------------------
(***************************************************************************)
(* What a run does with models, with the working tree and with files: the  *)
(* evidence chain of workers that share a directory (EvidenceChain), and   *)
(* an instance of nine modules, one of them EvidenceChain again for a      *)
(* worker that has a directory of its own.  They share no state and are    *)
(* put one beside the other instead of in all combinations: `part' names   *)
(* the one that moves, and the others stay in one of their initial states. *)
(***************************************************************************)
EXTENDS EvidenceChain, Integers, FiniteSets

Parts == {"shared", "solo", "routing", "context", "repository", "checkpoints", "cli", "merged",
          "verification", "vms"}

VARIABLE part

CONSTANTS SoloExporter, SoloRuns, SoloExports, SoloCrashes
VARIABLES soloChain, soloTmp, soloContent, soloEvidence, soloExported, soloPc, soloBundle, soloEntry,
          soloLinked, soloFd, soloExports, soloCrashes
solo == <<soloChain, soloTmp, soloContent, soloEvidence, soloExported, soloPc, soloBundle, soloEntry,
          soloLinked, soloFd, soloExports, soloCrashes>>
One == INSTANCE EvidenceChain WITH
        Exporters <- {SoloExporter}, Runs <- SoloRuns, MaxExports <- SoloExports,
        MaxCrashes <- SoloCrashes,
        chainFile <- soloChain, tmpFile <- soloTmp, content <- soloContent,
        evidence <- soloEvidence, exported <- soloExported, pc <- soloPc, bundle <- soloBundle,
        entry <- soloEntry, chain <- soloLinked, fd <- soloFd, exports <- soloExports,
        crashes <- soloCrashes
\* As EvidenceChain assumes of its own constants.
ASSUME SoloAssumption ==
    SoloExports \in Nat /\ SoloCrashes \in Nat /\ Torn \notin Seq(One!Entries)

CONSTANTS TreeRuns, NoTreeRun, Retained, MaxSnapshots
VARIABLES git, tree, patchFile, snapshots, agent, mixed, again, rolled
repository == <<git, tree, patchFile, snapshots, agent, mixed, again, rolled>>
W == INSTANCE Workspace WITH Runs <- TreeRuns, NoRun <- NoTreeRun
\* A snapshot is kept at least.
ASSUME RepositoryAssumption ==
    IsFiniteSet(TreeRuns) /\ NoTreeRun \notin TreeRuns /\ Retained \in Nat \ {0}

CONSTANTS Writers, MaxSaves, MaxDeaths
VARIABLES keyed, production, data, tmp, file, sigTmp, sig, writer, saves, saveCrashes, expected, load
checkpoints == <<keyed, production, data, tmp, file, sigTmp, sig, writer, saves, saveCrashes, expected, load>>
K == INSTANCE Checkpoints WITH MaxCrashes <- MaxDeaths, crashes <- saveCrashes
ASSUME CheckpointsAssumption == IsFiniteSet(Writers) /\ MaxSaves \in Nat

CONSTANTS MaxRetries, MaxResumes
VARIABLES fallback, record, checkpoint, state, walk, verified, early, resumes, cliCrashes, rewalked
cli == <<fallback, record, checkpoint, state, walk, verified, early, resumes, cliCrashes, rewalked>>
C == INSTANCE CliRun WITH crashes <- cliCrashes
ASSUME CliAssumption == MaxRetries \in Nat

CONSTANTS Thresholds, Lines, MaxToolFaults, SomeWorld
VARIABLES world, stage, baseTree, preCmds, repro, left, results, verdict, status, toolFaults
verification == <<world, stage, baseTree, preCmds, repro, left, results, verdict, status, toolFaults>>
V == INSTANCE Verification WITH
        MaxFaults <- MaxToolFaults, tree <- baseTree, evidence <- repro, faults <- toolFaults

CONSTANTS Vms, Sweeps, MaxVmFaults, MaxVmCrashes
VARIABLES vmStage, directory, machines, unrecorded, sweep, overlooked, vmEvidence, vmFaults, vmCrashes
vms == <<vmStage, directory, machines, unrecorded, sweep, overlooked, vmEvidence, vmFaults, vmCrashes>>
M == INSTANCE MicroVM WITH
        MaxFaults <- MaxVmFaults, MaxCrashes <- MaxVmCrashes, stage <- vmStage,
        running <- machines, evidence <- vmEvidence, faults <- vmFaults

CONSTANTS Models, Price, Eligible, Defaults, EventsWindow, ErrorWindow, MaxTime, MaxChanges
VARIABLES default, auto, eligible, calls, clock, headroom, changes
routing == <<default, auto, eligible, calls, clock, headroom, changes>>
R == INSTANCE ModelRouter
\* No model is "auto", and prices are not negative.
ASSUME RoutingAssumption ==
    /\ Price \in [Models -> Nat \cup {R!Unlisted}] /\ "auto" \notin Models
    /\ Defaults \subseteq Models \cup {"auto"} /\ Eligible \subseteq Seq(Models)

CONSTANTS Windows, SystemSize, Instructions, SymbolSizes, SnippetSizes, BodyCap, Wrapping, NoteSize,
          HeaderSize, MaxItems
VARIABLES window, ranked, snippets, instruction, parts, truncated, used, taken, memory, phase
context == <<window, ranked, snippets, instruction, parts, truncated, used, taken, memory, phase>>
B == INSTANCE ContextBudget WITH entries <- parts, stage <- phase
\* Sizes are numbers of tokens, and a note is no longer than what it stands for.
ASSUME ContextAssumption ==
    /\ Windows \subseteq Nat /\ Instructions \subseteq Nat /\ SnippetSizes \subseteq Nat
    /\ SymbolSizes \subseteq [sig : Nat, file : Nat]
    /\ SystemSize \in Nat /\ BodyCap \in Nat /\ Wrapping \in Nat /\ NoteSize \in Nat
    /\ HeaderSize \in Nat /\ MaxItems \in Nat
    /\ NoteSize <= BodyCap + Wrapping

CONSTANTS Texts, Heads, MaxLines, MaxReports, SomePatch
VARIABLES patch, mergeStatus, decision, audits, answer, reports
merged == <<patch, mergeStatus, decision, audits, answer, reports>>
P == INSTANCE PostMerge WITH status <- mergeStatus

\* What stands still stands at one of its initial states.
ASSUME StandingAssumption == SomeWorld \in V!Worlds /\ SomePatch \in P!Patches
ASSUME RoutesAssumption == Defaults # {} /\ Eligible # {}

RunEffectsInit ==
    /\ part \in Parts
    /\ Init /\ One!Init /\ M!Init
    /\ IF part = "routing" THEN R!Init
       ELSE R!InitOf(CHOOSE m \in Defaults : TRUE, CHOOSE list \in Eligible : TRUE)
    /\ part # "context" =>
        /\ window = CHOOSE w \in Windows : TRUE
        /\ instruction = CHOOSE i \in Instructions : TRUE
        /\ ranked = <<>> /\ snippets = <<>>
    /\ IF part = "merged" THEN P!Init ELSE P!InitOf(SomePatch)
    /\ IF part = "verification" THEN V!Init ELSE V!InitOf(SomeWorld)
    /\ W!Init /\ (part # "repository" => git /\ tree.uncommitted /\ tree.leftOut)
    /\ K!Init /\ (part # "checkpoints" => keyed /\ production)
    /\ C!Init /\ (part # "cli" => fallback /\ walk = C!Walk(TRUE, C!Groups(TRUE, TRUE)))
    /\ B!Init

SharedStep ==
    /\ part = "shared" /\ Next
    /\ UNCHANGED <<part, solo, routing, context, repository, checkpoints, cli, merged, verification, vms>>
SoloStep ==
    /\ part = "solo" /\ One!Next
    /\ UNCHANGED <<part, vars, routing, context, repository, checkpoints, cli, merged, verification, vms>>
RoutingStep ==
    /\ part = "routing" /\ R!RouterNext
    /\ UNCHANGED <<part, vars, solo, context, repository, checkpoints, cli, merged, verification, vms>>
ContextStep ==
    /\ part = "context" /\ B!Next
    /\ UNCHANGED <<part, vars, solo, routing, repository, checkpoints, cli, merged, verification, vms>>
RepositoryStep ==
    /\ part = "repository" /\ W!Next
    /\ UNCHANGED <<part, vars, solo, routing, context, checkpoints, cli, merged, verification, vms>>
CheckpointsStep ==
    /\ part = "checkpoints" /\ K!Next
    /\ UNCHANGED <<part, vars, solo, routing, context, repository, cli, merged, verification, vms>>
CliStep ==
    /\ part = "cli" /\ C!Next
    /\ UNCHANGED <<part, vars, solo, routing, context, repository, checkpoints, merged, verification, vms>>
MergedStep ==
    /\ part = "merged" /\ P!Next
    /\ UNCHANGED <<part, vars, solo, routing, context, repository, checkpoints, cli, verification, vms>>
VerificationStep ==
    /\ part = "verification" /\ V!Next
    /\ UNCHANGED <<part, vars, solo, routing, context, repository, checkpoints, cli, merged, vms>>
VmsStep ==
    /\ part = "vms" /\ M!Next
    /\ UNCHANGED <<part, vars, solo, routing, context, repository, checkpoints, cli, merged, verification>>

RunEffectsNext ==
    \/ SharedStep \/ SoloStep \/ RoutingStep \/ ContextStep \/ RepositoryStep
    \/ CheckpointsStep \/ CliStep \/ MergedStep \/ VerificationStep \/ VmsStep

runEffects ==
    <<part, vars, solo, routing, context, repository, checkpoints, cli, merged, verification, vms>>
RunEffectsSpec == RunEffectsInit /\ [][RunEffectsNext]_runEffects

----------------------------------------------------------------------------
\* The properties of the instances, stated with their modules.

\* A worker alone keeps every run it exported sealed (EvidenceChain).
SoloEvidenceSealed == One!EvidenceSealed
\* A run applies the patch it proposed and no other (Workspace).
AppliedIsOwn == W!AppliedIsOwn
\* A rollback takes the run's patch out of the tree, and pruning leaves the
\* snapshots it may (Workspace).
RollbackClears == W!RollbackClears
\* A load that crosses no save gives the last whole state (Checkpoints).
CheckpointReadable == K!CheckpointReadable
\* A resumed run leaves nothing out and claims nothing unverified (CliRun).
ResumeSound == C!ResumeSound
\* Automatic routing prefers models that can answer (ModelRouter).
RoutedToUsable == R!RoutedToUsable
\* What is left out of a prompt is flagged, and prompts fit (ContextBudget).
BudgetFlagged == B!BudgetFlagged
\* The revert of a plain patch undoes it, and no other does harm (PostMerge).
RevertUndoes == P!RevertUndoes
\* What a reproduction flip can rest on (Verification).
FlipSources == V!FlipSources
\* A machine nobody attends can be found and killed (MicroVM).
MachinesFound == M!MachinesFound
=============================================================================
