---------------------------- MODULE Checkpoints ----------------------------
(***************************************************************************)
(* The checkpoint file of one run and its signature.  save_checkpoint      *)
(* writes a temporary file, then, with a key, a signature through another  *)
(* temporary file, and renames the first one last.  The names of the       *)
(* temporary files are the same for every writer, and the worker, the      *)
(* event loop of the API and its report routes all save the same run.      *)
(*                                                                         *)
(* A rename moves what a writer still has open, so files are inodes here.  *)
(* The content is the number of the save, or what is not a whole one.      *)
(***************************************************************************)
EXTENDS Integers, FiniteSets

CONSTANTS
    Writers,
    MaxSaves,   \* bound on saves
    MaxCrashes  \* bound on writers that die in a save

VARIABLES
    keyed,      \* an HMAC key is configured
    production, \* LOOM_ENV
    data,       \* of each inode: its content
    tmp, file,  \* inodes of checkpoint_*.json.tmp and checkpoint_*.json
    sigTmp, sig,\* contents of checkpoint_*.sig.tmp and checkpoint_*.sig
    writer,     \* of each writer: stage, number of its save, inode it has open,
                \* and whether no other save overlapped it
    saves, crashes,
    expected,   \* what a load may give, from the saves that ran alone
    load        \* load_checkpoint: stage, inode content it read, result

checkpointVars == <<keyed, production, data, tmp, file, sigTmp, sig, writer,
                    saves, crashes, expected, load>>

Absent == -1    \* no file
Mangled == 0       \* an empty file, or parts of two saves
Nodes == 1 .. Cardinality(Writers) + 2
Unsaved == [stage |-> "idle", number |-> 0, inode |-> Absent, alone |-> FALSE]
Results == Absent .. MaxSaves
Started(w) == writer[w].stage # "idle"

Init ==
    /\ keyed \in BOOLEAN /\ production \in BOOLEAN
    /\ data = [i \in Nodes |-> Mangled]
    /\ tmp = Absent /\ file = Absent /\ sigTmp = Absent /\ sig = Absent
    /\ writer = [w \in Writers |-> Unsaved]
    /\ saves = 0 /\ crashes = 0 /\ expected = {Absent}
    /\ load = [stage |-> "idle", read |-> Absent, quiet |-> FALSE, result |-> Absent]

Used == {tmp, file} \cup {writer[w].inode : w \in Writers}
Quieted == [load EXCEPT !.quiet = FALSE]
Goes(w, from, to) == writer[w].stage = from /\ writer' = [writer EXCEPT ![w].stage = to]

----------------------------------------------------------------------------
\* write_bytes opens the temporary file, and empties it when it is there.
OpenTmp(w) ==
    LET inode == IF tmp = Absent THEN CHOOSE i \in Nodes : i \notin Used ELSE tmp IN
    /\ ~Started(w) /\ saves < MaxSaves /\ saves' = saves + 1
    /\ LET others == {v \in Writers : Started(v)} IN
          writer' = [v \in Writers |->
              IF v = w THEN [stage |-> "fill", number |-> saves + 1, inode |-> inode, alone |-> others = {}]
                       ELSE [writer[v] EXCEPT !.alone = FALSE]]
    /\ tmp' = inode /\ data' = [data EXCEPT ![inode] = Mangled]
    /\ load' = Quieted
    /\ UNCHANGED <<keyed, production, file, sigTmp, sig, crashes, expected>>

\* Its bytes go where the open file is by now, over what another one wrote.
FillTmp(w) ==
    /\ Goes(w, "fill", IF keyed THEN "sign" ELSE "replace")
    /\ \E content \in IF data[writer[w].inode] = Mangled THEN {writer[w].number}
                      ELSE {writer[w].number, Mangled} :
          data' = [data EXCEPT ![writer[w].inode] = content]
    /\ load' = Quieted
    /\ UNCHANGED <<keyed, production, tmp, file, sigTmp, sig, saves, crashes, expected>>

WriteSig(w) ==
    /\ Goes(w, "sign", "sigReplace") /\ sigTmp' = writer[w].number
    /\ UNCHANGED <<keyed, production, data, tmp, file, sig, saves, crashes, expected, load>>

\* A save ends, and the file holds one of results if the save ran alone.
Ends(w, results) ==
    /\ writer' = [writer EXCEPT ![w] = Unsaved]
    /\ expected' = IF writer[w].alone THEN results ELSE Results

\* A rename whose source another writer has moved raises FileNotFoundError.
ReplaceSig(w) ==
    /\ writer[w].stage = "sigReplace"
    /\ IF sigTmp = Absent
       THEN Ends(w, Results) /\ UNCHANGED <<sigTmp, sig>>
       ELSE Goes(w, "sigReplace", "replace") /\ sig' = sigTmp /\ sigTmp' = Absent /\ UNCHANGED expected
    /\ load' = Quieted
    /\ UNCHANGED <<keyed, production, data, tmp, file, saves, crashes>>

\* Mutant of ReplaceFile: the file is renamed before the signature is made.
ReplaceFileUnsigned(w) ==
    /\ writer[w].stage \in {"sign", "replace"}
    /\ Ends(w, {writer[w].number})
    /\ IF tmp = Absent THEN UNCHANGED <<tmp, file>> ELSE file' = tmp /\ tmp' = Absent
    /\ load' = Quieted
    /\ UNCHANGED <<keyed, production, data, sigTmp, sig, saves, crashes>>

ReplaceFile(w) ==
    /\ writer[w].stage = "replace"
    /\ Ends(w, {writer[w].number})
    /\ IF tmp = Absent THEN UNCHANGED <<tmp, file>> ELSE file' = tmp /\ tmp' = Absent
    /\ load' = Quieted
    /\ UNCHANGED <<keyed, production, data, sigTmp, sig, saves, crashes>>

\* The process of a writer dies; between the two renames it leaves the new
\* signature beside the old file.
Crash(w) ==
    /\ Started(w) /\ crashes < MaxCrashes /\ crashes' = crashes + 1
    /\ Ends(w, IF keyed /\ writer[w].stage = "replace" THEN {Mangled} ELSE expected)
    /\ UNCHANGED <<keyed, production, data, tmp, file, sigTmp, sig, saves, load>>

----------------------------------------------------------------------------
\* load_checkpoint reads the file, and then the signature.
ReadFile ==
    /\ load.stage = "idle"
    /\ load' = [stage |-> IF file = Absent THEN "idle" ELSE "signature",
                read |-> IF file = Absent THEN Absent ELSE data[file],
                quiet |-> \A w \in Writers : ~Started(w),
                result |-> Absent]
    /\ UNCHANGED <<keyed, production, data, tmp, file, sigTmp, sig, writer, saves, crashes, expected>>

\* A signature that is missing in production, or of other bytes, raises; so
\* does what is not JSON.
Result(read) ==
    CASE keyed /\ sig = Absent /\ production -> "unsigned"
      [] keyed /\ sig # Absent /\ sig # read -> "mismatch"
      [] read = Mangled -> "malformed"
      [] OTHER -> "state"

ReadSig ==
    /\ load.stage = "signature"
    /\ load' = [load EXCEPT !.stage = "done", !.result =
          IF Result(load.read) = "state" THEN load.read ELSE Mangled]
    /\ UNCHANGED <<keyed, production, data, tmp, file, sigTmp, sig, writer, saves, crashes, expected>>

LoadAgain ==
    /\ load.stage = "done" /\ load' = [load EXCEPT !.stage = "idle"]
    /\ UNCHANGED <<keyed, production, data, tmp, file, sigTmp, sig, writer, saves, crashes, expected>>

Next ==
    \/ \E w \in Writers : \/ OpenTmp(w) \/ FillTmp(w) \/ WriteSig(w) \/ ReplaceSig(w)
                          \/ ReplaceFile(w) \/ Crash(w)
    \/ ReadFile \/ ReadSig \/ LoadAgain

Spec == Init /\ [][Next]_checkpointVars

----------------------------------------------------------------------------
TypeOK ==
    /\ {tmp, file} \subseteq Nodes \cup {Absent}
    /\ \A i \in Nodes : data[i] \in Mangled .. MaxSaves
    /\ {sigTmp, sig} \subseteq {Absent} \cup 1 .. MaxSaves
    /\ \A w \in Writers : writer[w].stage \in {"idle", "fill", "sign", "sigReplace", "replace"}
    /\ expected \subseteq Results

\* A load that no save crosses gives the state of the last save that ran
\* alone and to its end, whatever was cut short or overlapped before it; and
\* a later save that was cut short costs that state only with a key and
\* between the two renames (save_checkpoint, load_checkpoint).
CheckpointReadable == load.stage = "done" /\ load.quiet => load.result \in expected
=============================================================================
