------------------------------ MODULE MicroVM ------------------------------
(***************************************************************************)
(* The Firecracker worker: a request of /execute boots a virtual machine   *)
(* of its own, copies the repository into it, runs one command and         *)
(* destroys it; /recover goes over the runtime directory at any time and   *)
(* kills and removes what it finds; the worker dies and is started again,  *)
(* and its machines, which are sessions of their own, live on.  Both are   *)
(* handled by threads, so that any of their steps may come in between.     *)
(*                                                                         *)
(* What the guest does is an answer: a result, or an error.  A pid that is *)
(* free again may be given to another program, not to another machine.     *)
(***************************************************************************)
EXTENDS Integers, FiniteSets

CONSTANTS
    Vms,        \* requests, each with the vm_id it draws
    Sweeps,     \* calls of /recover that may be under way at once
    MaxFaults,  \* bound on steps that fail
    MaxCrashes  \* bound on deaths of the worker

VARIABLES
    stage,     \* of each request
    directory, \* of each: its runtime directory, and what of metadata.json can be read
    running,   \* firecracker processes that run
    unrecorded, \* those whose pid is not written yet
    sweep,     \* of each call of /recover: see Resting
    overlooked, \* machines whose directory was emptied by a call that had read no pid
    evidence,  \* requests whose evidence file is written
    faults, vmCrashes

machine == <<stage, running, unrecorded, evidence>>
vmVars == <<machine, directory, sweep, overlooked, faults, vmCrashes>>

Stages == {"new", "copy", "spawn", "record", "boot", "sync", "exec", "destroy", "failing",
           "remove", "clean", "save", "ok", "error", "lost"}
Directories == {"none", "empty", "nopid", "pid"}
Nobody == "nobody"

\* A call of /recover: the directories it has still to visit, the one it is
\* at, what it does there next, and whether it read a pid.
Resting == [todo |-> {}, vm |-> Nobody, at |-> "list", pid |-> FALSE]

Init ==
    /\ stage = [v \in Vms |-> "new"]
    /\ directory = [v \in Vms |-> "none"]
    /\ running = {} /\ unrecorded = {} /\ evidence = {}
    /\ sweep = [s \in Sweeps |-> Resting] /\ overlooked = {}
    /\ faults = 0 /\ vmCrashes = 0

Goes(v, to) == stage' = [stage EXCEPT ![v] = to]
Fault == faults < MaxFaults /\ faults' = faults + 1

----------------------------------------------------------------------------
\* FirecrackerVM.start: the directory is made,
MakeDirectory(v) ==
    /\ stage[v] = "new" /\ Goes(v, "copy")
    /\ directory' = [directory EXCEPT ![v] = "empty"]
    /\ UNCHANGED <<running, unrecorded, evidence, sweep, overlooked, faults, vmCrashes>>

\* the root file system is copied into it, and metadata without a pid written;
Copy(v) ==
    /\ stage[v] = "copy" /\ directory[v] # "none" /\ Goes(v, "spawn")
    /\ directory' = [directory EXCEPT ![v] = "nopid"]
    /\ UNCHANGED <<running, unrecorded, evidence, sweep, overlooked, faults, vmCrashes>>

\* the process is started,
Spawn(v) ==
    /\ stage[v] = "spawn" /\ directory[v] # "none" /\ Goes(v, "record")
    /\ running' = running \cup {v} /\ unrecorded' = unrecorded \cup {v}
    /\ UNCHANGED <<evidence, directory, sweep, overlooked, faults, vmCrashes>>

\* and its pid recorded.
RecordPid(v) ==
    /\ stage[v] = "record" /\ directory[v] # "none" /\ Goes(v, "boot")
    /\ directory' = [directory EXCEPT ![v] = "pid"]
    /\ unrecorded' = unrecorded \ {v}
    /\ UNCHANGED <<running, evidence, sweep, overlooked, faults, vmCrashes>>

\* A write of the pid that is broken off may leave a file that says nothing.
HalfWritten(broken) ==
    \E torn \in SUBSET {v \in broken : stage[v] = "record" /\ directory[v] = "nopid"} :
        directory' = [v \in Vms |-> IF v \in torn THEN "empty" ELSE directory[v]]

\* Up to here an error leaves things as they are: start is not yet in its try,
\* and __exit__ is not called.  A directory that /recover removed is an error.
StartRaises(v) ==
    /\ stage[v] \in {"copy", "spawn", "record"} /\ Goes(v, "error")
    /\ \/ directory[v] = "none" /\ UNCHANGED <<directory, faults>>
       \/ Fault /\ HalfWritten({v})
    /\ UNCHANGED <<running, unrecorded, evidence, sweep, overlooked, vmCrashes>>

\* The machine is configured and its guest answers; the repository is copied,
\* by way of the directory; the command runs, whatever its exit code.
Proceed(v) ==
    /\ stage[v] \in {"boot", "sync", "exec"} /\ v \in running
    /\ directory[v] # "none" \/ stage[v] = "exec"
    /\ Goes(v, CASE stage[v] = "boot" -> "sync" [] stage[v] = "sync" -> "exec" [] OTHER -> "destroy")
    /\ UNCHANGED <<running, unrecorded, evidence, directory, sweep, overlooked, faults, vmCrashes>>

\* An error on the way, or a machine that was killed or lost its sockets: start
\* destroys it, or __exit__ does.
Fails(v) ==
    /\ stage[v] \in {"boot", "sync", "exec"} /\ Goes(v, "failing")
    /\ \/ (v \notin running \/ v \in overlooked) /\ UNCHANGED faults
       \/ Fault
    /\ UNCHANGED <<running, unrecorded, evidence, directory, sweep, overlooked, vmCrashes>>

\* destroy: the process group is terminated or killed,
Destroy(v) ==
    /\ stage[v] \in {"destroy", "failing"}
    /\ Goes(v, IF stage[v] = "destroy" THEN "remove" ELSE "clean")
    /\ running' = running \ {v}
    /\ UNCHANGED <<unrecorded, evidence, directory, sweep, overlooked, faults, vmCrashes>>

\* and the directory removed.
RemoveDirectory(v) ==
    /\ stage[v] \in {"remove", "clean"}
    /\ Goes(v, IF stage[v] = "remove" THEN "save" ELSE "error")
    /\ directory' = [directory EXCEPT ![v] = "none"]
    /\ UNCHANGED <<running, unrecorded, evidence, sweep, overlooked, faults, vmCrashes>>

\* The evidence of the request, and then the answer; without it the answer is
\* an error, of a command that ran.
SaveEvidence(v) ==
    /\ stage[v] = "save"
    /\ \/ Goes(v, "ok") /\ evidence' = evidence \cup {v} /\ UNCHANGED faults
       \/ Goes(v, "error") /\ Fault /\ UNCHANGED evidence
    /\ UNCHANGED <<running, unrecorded, directory, sweep, overlooked, vmCrashes>>

----------------------------------------------------------------------------
\* reconcile_runtime lists the runtime directory,
List(s) ==
    /\ sweep[s] = Resting
    /\ \E found \in {{v \in Vms : directory[v] # "none"}} :
          /\ found # {}
          /\ sweep' = [sweep EXCEPT ![s].todo = found, ![s].at = "read"]
    /\ UNCHANGED <<machine, directory, overlooked, faults, vmCrashes>>

\* What is left of a call that is done with v.
Leaves(s, v) ==
    IF sweep[s].todo \subseteq {v} THEN Resting
    ELSE [todo |-> sweep[s].todo \ {v}, vm |-> Nobody, at |-> "read", pid |-> FALSE]

\* reads the metadata of the next,
Read(s, v) ==
    /\ sweep[s].at = "read" /\ v \in sweep[s].todo /\ directory[v] \in {"nopid", "pid"}
    /\ sweep' = [sweep EXCEPT ![s].vm = v, ![s].pid = directory[v] = "pid",
                      ![s].at = IF directory[v] = "pid" THEN "kill" ELSE "empty"]
    /\ UNCHANGED <<machine, directory, overlooked, faults, vmCrashes>>

\* passes over one whose metadata cannot be read, or is just being written,
PassOver(s, v) ==
    /\ sweep[s].at = "read" /\ v \in sweep[s].todo
    /\ directory[v] \in {"none", "empty"} \/ stage[v] = "record"
    /\ sweep' = [sweep EXCEPT ![s] = Leaves(s, v)]
    /\ UNCHANGED <<machine, directory, overlooked, faults, vmCrashes>>

\* Mutant of Kill: the directory goes, the process stays.
KillNobody(s) ==
    /\ sweep[s].at = "kill"
    /\ sweep' = [sweep EXCEPT ![s].at = "empty"]
    /\ UNCHANGED <<machine, directory, overlooked, faults, vmCrashes>>

\* kills the process whose pid it read,
Kill(s) ==
    /\ sweep[s].at = "kill"
    /\ sweep' = [sweep EXCEPT ![s].at = "empty"]
    /\ running' = running \ {sweep[s].vm}
    /\ UNCHANGED <<stage, unrecorded, evidence, directory, overlooked, faults, vmCrashes>>

\* or passes over the directory, if another program has the pid by now,
KeepForeign(s) ==
    /\ sweep[s].at = "kill" /\ sweep[s].vm \notin running
    /\ sweep' = [sweep EXCEPT ![s] = Leaves(s, sweep[s].vm)]
    /\ UNCHANGED <<machine, directory, overlooked, faults, vmCrashes>>

\* and removes the directory, first what is in it,
Empty(s) ==
    LET v == sweep[s].vm IN
    /\ sweep[s].at = "empty"
    /\ sweep' = [sweep EXCEPT ![s].at = "rmdir"]
    /\ directory' = [directory EXCEPT ![v] = IF @ = "none" THEN @ ELSE "empty"]
    /\ overlooked' = IF sweep[s].pid THEN overlooked ELSE overlooked \cup {v}
    /\ UNCHANGED <<machine, faults, vmCrashes>>

\* then itself, unless something was written into it meanwhile.
Rmdir(s) ==
    LET v == sweep[s].vm IN
    /\ sweep[s].at = "rmdir"
    /\ sweep' = [sweep EXCEPT ![s] = Leaves(s, v)]
    /\ \/ directory[v] = "empty" /\ directory' = [directory EXCEPT ![v] = "none"]
       \/ UNCHANGED directory
    /\ UNCHANGED <<machine, overlooked, faults, vmCrashes>>

Recover(s) ==
    \/ List(s) \/ (\E v \in Vms : Read(s, v) \/ PassOver(s, v))
    \/ Kill(s) \/ KeepForeign(s) \/ Empty(s) \/ Rmdir(s)

\* The worker dies: its requests and calls are lost, its machines go on.
WorkerDies ==
    /\ vmCrashes < MaxCrashes /\ vmCrashes' = vmCrashes + 1
    /\ stage' = [v \in Vms |-> IF stage[v] \in {"new", "ok", "error"} THEN stage[v] ELSE "lost"]
    /\ sweep' = [s \in Sweeps |-> Resting]
    /\ HalfWritten(Vms)
    /\ UNCHANGED <<running, unrecorded, evidence, overlooked, faults>>

Next ==
    \/ \E v \in Vms :
          \/ MakeDirectory(v) \/ Copy(v) \/ Spawn(v) \/ RecordPid(v) \/ StartRaises(v)
          \/ Proceed(v) \/ Fails(v) \/ Destroy(v) \/ RemoveDirectory(v) \/ SaveEvidence(v)
    \/ \E s \in Sweeps : Recover(s)
    \/ WorkerDies

Spec == Init /\ [][Next]_vmVars

----------------------------------------------------------------------------
TypeOK ==
    /\ stage \in [Vms -> Stages] /\ directory \in [Vms -> Directories]
    /\ running \subseteq Vms /\ unrecorded \subseteq Vms /\ overlooked \subseteq Vms
    /\ evidence \subseteq Vms
    /\ sweep \in [Sweeps -> [todo : SUBSET Vms, vm : Vms \cup {Nobody},
                             at : {"list", "read", "kill", "empty", "rmdir"}, pid : BOOLEAN]]
    /\ faults \in 0 .. MaxFaults /\ vmCrashes \in 0 .. MaxCrashes

\* A machine that runs can be found, by a later /recover if its request is
\* lost: its pid is in its directory.  It is not yet there between the start
\* of the process and the writing of the pid, where a death or an error of the
\* worker leaves it so; and it is there no more if a call of /recover had read
\* the metadata before that and emptied the directory after it
\* (FirecrackerVM.start, destroy, reconcile_runtime).
MachinesFound == \A v \in running : directory[v] = "pid" \/ v \in unrecorded \/ v \in overlooked
=============================================================================
