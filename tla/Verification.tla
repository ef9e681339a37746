---------------------------- MODULE Verification ----------------------------
(***************************************************************************)
(* What a verdict rests on: ReproductionAgent runs the model's script on   *)
(* the base tree, PatcherAgent changes the tree, VerifierAgent runs the    *)
(* commands before and after "the patch" - all of them on the tree as it   *)
(* is by then -, VerificationRunner weighs the results, and the task graph *)
(* turns the verdict into the status of the run; a CI report may still     *)
(* roll it back.                                                           *)
(*                                                                         *)
(* The script is the model's answer, and the two agents read it each in    *)
(* its own way: see Scripts.  The suite is what the test frameworks of the *)
(* repository run.                                                         *)
(***************************************************************************)
EXTENDS Integers, Sequences

CONSTANTS
    Thresholds,  \* auto_merge_threshold in percent, of an organisation
    Lines,       \* values of diff_line_count
    MaxFaults    \* bound on commands that fail with the sandbox: 124, 125, 126

VARIABLES
    world,     \* what the model's answer and the repository are like
    stage,
    tree,      \* "base" or "patched"
    preCmds,   \* shared_data["pre_patch_test_commands"]
    evidence,  \* status of the reproduction
    left,      \* commands the pipeline has still to run, with their purpose
    results,   \* failedOnBase, passedAfter, testsPassed
    verdict,   \* decision, overall success, flip, confidence
    status,    \* of the run
    faults

verificationVars == <<world, stage, tree, preCmds, evidence, left, results, verdict, status, faults>>

Trees == {"base", "patched"}
\* sast_severity, told apart by whether it holds the patch: high and critical do.
Severities == {"clean", "high"}
\* What the reproduction runs: the answer as a command ("command"), a file that
\* the answer is written to because it is code ("file"), or nothing, because it
\* is code that does not parse or the policy refuses it; and whether the
\* verifier tests with it: yes, no, or the policy refuses that.  The one strips
\* an answer it does not know and runs "pytest" for a blank one, so that what
\* it runs may be nothing to the other, which asks how the answer begins; and
\* the other knows commands in which the first sees code.  Code that parses
\* and is an allowed command as well is left out.
Scripts ==
    {script \in [runs : {"command", "file", "nothing"}, tests : {"yes", "no", "refused"}] :
        <<script.runs, script.tests>> \notin {<<"command", "refused">>, <<"file", "yes">>}}
Worlds ==
    [mock : BOOLEAN, script : Scripts, flaky : BOOLEAN,
     repro : [Trees -> BOOLEAN], suite : [Trees -> BOOLEAN],   \* does it pass on a tree?
     conflict : BOOLEAN, severity : Severities, lines : Lines, threshold : Thresholds]

NoVerdict == [decision |-> "none", success |-> FALSE, flip |-> FALSE, confidence |-> 0]
NoResults == [failedOnBase |-> FALSE, passedAfter |-> TRUE, testsPassed |-> TRUE]

InitOf(w) ==
    /\ world = w
    /\ stage = "reproduction" /\ tree = "base"
    /\ preCmds = <<>> /\ evidence = "none" /\ left = <<>>
    /\ results = NoResults /\ verdict = NoVerdict /\ status = "running" /\ faults = 0
Init == \E w \in Worlds : InitOf(w)

----------------------------------------------------------------------------
\* The outcomes of a command on the tree as it is: TRUE is exit code 0.  The
\* file of the script is deleted when the reproduction ends, so that later the
\* command "file" finds nothing to run and fails.
Outcomes(cmd, fileThere) ==
    LET passes == CASE cmd = "exit 1" -> FALSE
                    [] cmd = "print"  -> TRUE
                    [] cmd = "script" -> world.repro[tree]
                    [] cmd = "file"   -> fileThere /\ world.repro[tree]
                    [] cmd = "suite"  -> world.suite[tree]
        runs == cmd \in {"script", "suite"} \/ (cmd = "file" /\ fileThere)
    IN {passes} \cup (IF world.flaky /\ runs THEN BOOLEAN ELSE {})

\* A command with its result; a sandbox that fails (a timeout, the worker
\* unreachable, the egress policy) is an exit code other than 0.
Executes(cmd, fileThere, passed) ==
    \/ passed \in Outcomes(cmd, fileThere) /\ UNCHANGED faults
    \/ /\ passed = FALSE /\ cmd \notin {"exit 1", "print"}
       /\ faults < MaxFaults /\ faults' = faults + 1

\* What ReproductionAgent.execute makes of the answer.
ReproCmd ==
    CASE world.mock -> "exit 1"
      [] world.script.runs = "command" -> "script"
      [] world.script.runs = "file" -> "file"
      [] OTHER -> "none"

\* ReproductionAgent.execute.  Whatever comes out of it, the graph goes on.  A
\* command that fails has reproduced the bug, unless its output or exit code
\* tells that it could not run.
Reproduce ==
    /\ stage = "reproduction" /\ stage' = "patcher"
    /\ IF ReproCmd = "none"
       THEN preCmds' = <<>> /\ evidence' = "reproduction_failed" /\ UNCHANGED faults
       ELSE \E passed \in BOOLEAN :
                /\ Executes(ReproCmd, TRUE, passed)
                /\ preCmds' = <<ReproCmd>>
                /\ evidence' \in {"reproduction_failed"} \cup (IF passed THEN {} ELSE {"reproduced"})
                /\ world.mock => evidence' = "reproduced"
    /\ UNCHANGED <<world, tree, left, results, verdict, status>>

\* The file of the code cannot be written, and the answer as an argument of
\* python is refused; or the file cannot be deleted again, and is run later.
ReproduceBadly ==
    /\ stage = "reproduction" /\ stage' = "patcher"
    /\ ReproCmd = "file" /\ faults < MaxFaults /\ faults' = faults + 1
    /\ \/ preCmds' = <<>> /\ evidence' = "reproduction_failed"
       \/ preCmds' = <<"script">> /\ evidence' \in {"reproduced", "reproduction_failed"}
    /\ UNCHANGED <<world, tree, left, results, verdict, status>>

\* PatcherAgent: the patch is applied, or it conflicts and the tree stays.
Patch ==
    /\ stage = "patcher" /\ stage' = "verifier"
    /\ tree' = IF world.conflict THEN "base" ELSE "patched"
    /\ UNCHANGED <<world, preCmds, evidence, left, results, verdict, status, faults>>

\* The commands of VerifierAgent: the script where it is a command, else the suite.
TestCmds ==
    CASE world.mock -> <<"print">>
      [] world.script.tests = "no" -> <<"suite">>
      [] OTHER -> <<"script">>

\* Those of the reproduction, or the test commands themselves.
PreCmds == IF preCmds # <<>> THEN preCmds ELSE TestCmds

Purposed(cmds, purpose) == [i \in DOMAIN cmds |-> [cmd |-> cmds[i], purpose |-> purpose]]

\* A command the policy refuses ends the verification with a security hold.
VerifierRefused ==
    /\ stage = "verifier" /\ ~world.mock /\ world.script.tests = "refused"
    /\ stage' = "decided"
    /\ verdict' = [NoVerdict EXCEPT !.decision = "security_hold"]
    /\ UNCHANGED <<world, tree, preCmds, evidence, left, results, status, faults>>

VerifierStarts ==
    /\ stage = "verifier" /\ (world.mock \/ world.script.tests # "refused")
    /\ stage' = "pipeline"
    /\ left' = Purposed(TestCmds, "test") \o Purposed(PreCmds, "pre") \o Purposed(TestCmds, "post")
    /\ results' = NoResults /\ verdict' = NoVerdict
    /\ UNCHANGED <<world, tree, preCmds, evidence, status, faults>>

\* arun_verification, then evaluate_reproduction_async: a command at a time.
RunCommand ==
    /\ stage = "pipeline" /\ left # <<>>
    /\ \E passed \in BOOLEAN :
          /\ Executes(Head(left).cmd, FALSE, passed)
          /\ results' = CASE Head(left).purpose = "test" -> [results EXCEPT !.testsPassed = @ /\ passed]
                          [] Head(left).purpose = "pre"  -> [results EXCEPT !.failedOnBase = @ \/ ~passed]
                          [] Head(left).purpose = "post" -> [results EXCEPT !.passedAfter = @ /\ passed]
    /\ left' = Tail(left)
    /\ UNCHANGED <<world, stage, tree, preCmds, evidence, verdict, status>>

\* compute_confidence, in percent; the pipeline's other two weights are halves.
Confidence(flip, lines) ==
    (IF flip THEN 40 ELSE 0) + 15
      + (CASE lines <= 0 -> 15 [] lines \in 1 .. 20 -> 30 [] lines \in 21 .. 50 -> 24
           [] lines \in 51 .. 100 -> 18 [] lines \in 101 .. 150 -> 12 [] OTHER -> 6)

\* evaluate_decision; the pipeline of the verifier has no build command.
Decision(flip, confidence) ==
    CASE world.severity = "high" -> "security_hold"
      [] ~flip -> "reject_repro_missing"
      [] ~results.testsPassed -> "reject_regression"
      [] confidence >= world.threshold -> "auto_merge"
      [] OTHER -> "human_review"

\* Mutant of Flip: either half is enough.
FlipEither == results.failedOnBase \/ results.passedAfter

Flip == results.failedOnBase /\ results.passedAfter

\* full_verification_pipeline_async, after its commands.
Decide ==
    LET confidence == Confidence(Flip, world.lines)
        decision == Decision(Flip, confidence) IN
    /\ stage = "pipeline" /\ left = <<>> /\ stage' = "decided"
    /\ verdict' = [decision |-> decision, flip |-> Flip, confidence |-> confidence,
                   success |-> results.testsPassed /\ decision \in {"auto_merge", "human_review"}]
    /\ UNCHANGED <<world, tree, preCmds, evidence, left, results, status, faults>>

\* compute_merge_decision and the end of TaskGraph.run.
Finish ==
    /\ stage = "decided" /\ stage' = "done"
    /\ status' = CASE verdict.decision = "security_hold" -> "security_hold"
                   [] world.conflict -> "conflict_resolution"
                   [] ~verdict.success -> "failed"
                   [] verdict.decision = "auto_merge" /\ verdict.confidence >= world.threshold -> "merged"
                   [] OTHER -> "evidence_review"
    /\ UNCHANGED <<world, tree, preCmds, evidence, left, results, verdict, faults>>

\* report_ci_status, auto_rollback_triggered: a failure within the window of the
\* merge time that the report names.  It asks nothing of the run itself.
ReportCi ==
    /\ stage = "done" /\ status' = "rolled_back"
    /\ UNCHANGED <<world, stage, tree, preCmds, evidence, left, results, verdict, faults>>

Next ==
    \/ Reproduce \/ ReproduceBadly \/ Patch \/ VerifierRefused \/ VerifierStarts \/ RunCommand
    \/ Decide \/ Finish \/ ReportCi

Spec == Init /\ [][Next]_verificationVars

----------------------------------------------------------------------------
TypeOK ==
    /\ world \in Worlds /\ tree \in Trees /\ faults \in 0 .. MaxFaults
    /\ evidence \in {"none", "reproduced", "reproduction_failed"}
    /\ verdict.confidence \in 0 .. 85

\* Where a flip comes from: all commands see the patched tree, so where tests
\* are deterministic and no tool fails, what "failed on base" is another command
\* than the one that passes: code, whose file is gone by then, or an answer that
\* the reproduction ran and the verifier does not know, which fails although
\* the patch is there.  It is never the difference that the patch makes
\* (ReproductionAgent.execute, VerifierAgent.execute, evaluate_reproduction_async).
FlipSources ==
    verdict.flip /\ ~world.mock /\ ~world.flaky =>
        /\ \/ faults > 0
           \/ world.script.runs = "file"
           \/ world.script = [runs |-> "command", tests |-> "no"] /\ ~world.repro[tree]
        /\ IF world.script.tests = "yes" THEN world.repro[tree] ELSE world.suite[tree]

\* A run that is merged was shown to fix its bug: the reproduction test fails on
\* the base tree and passes on the patched one, where tests are deterministic
\* (docs/business_logic.md:28).
MergedWasFixed ==
    status = "merged" /\ ~world.mock /\ ~world.flaky => ~world.repro["base"] /\ world.repro["patched"]
=============================================================================
