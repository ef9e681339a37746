--------------------------- MODULE EvidenceChain ---------------------------
(***************************************************************************)
(* EvidenceBundler.export_bundle: a finished run is appended to the hash   *)
(* chain evidence_chain.json and its bundle written to evidence_<run>.json.*)
(* The chain is loaded, extended and saved with no lock, through one       *)
(* temporary name shared by every process that has the same directory, so  *)
(* the steps are those of the file system: open and truncate, write,       *)
(* rename.  Inside one process the export runs without an await.           *)
(*                                                                         *)
(* SHA-256 is taken as injective: a hash is the value that was hashed.     *)
(***************************************************************************)
EXTENDS Naturals, Sequences

CONSTANTS
    Exporters,      \* the processes that export to one directory
    Runs,           \* the runs they complete
    Inodes,         \* files the names evidence_chain.json and .tmp can denote
    MaxExports,     \* bound: calls of export_bundle
    MaxCrashes,     \* bound: crashes of an exporter
    NoFile, Torn

ASSUME BoundsAssumption == MaxExports \in Nat /\ MaxCrashes \in Nat
ASSUME NoFileAssumption == NoFile \notin Inodes

VARIABLES
    chainFile, tmpFile,     \* what the two names denote
    content,    \* of each inode: a sequence of entries, or Torn
    evidence,   \* evidence_<run>.json
    exported,   \* runs whose state says evidence_exported
    pc, bundle, entry, chain, fd,   \* of each exporter: stage and locals
    exports, crashes

files == <<chainFile, tmpFile, content>>
locals == <<bundle, entry, chain, fd>>
vars == <<files, evidence, exported, pc, locals, exports, crashes>>

\* _payload_hash covers the timestamp: every export has a payload of its own.
Payloads == 1 .. MaxExports
Genesis == <<>>
ChainHash(index, payload, prev) == Append(prev, <<index, payload>>)
Hashes == Seq(Nat \X Payloads)

Entries == [index : Nat, run : Runs, payload : Payloads, prev : Hashes, hash : Hashes]
ASSUME TornAssumption == Torn \notin Seq(Entries)

NoEntry == [index |-> 0, run |-> NoFile, payload |-> 0, prev |-> Genesis, hash |-> Genesis]

LastHash(old) == IF old = <<>> THEN Genesis ELSE old[Len(old)].hash

\* Mutant of NewEntry: the index counts from one.
NewEntryFromOne(old, r, n) ==
    [index |-> Len(old) + 1, run |-> r, payload |-> n, prev |-> LastHash(old),
     hash |-> ChainHash(Len(old) + 1, n, LastHash(old))]

NewEntry(old, r, n) ==
    [index |-> Len(old), run |-> r, payload |-> n, prev |-> LastHash(old),
     hash |-> ChainHash(Len(old), n, LastHash(old))]

\* _load_chain: a missing or undecodable file starts a new chain.
Decode(file) ==
    IF file = NoFile THEN <<>>
    ELSE IF content[file] = Torn THEN <<>> ELSE content[file]
Loaded == Decode(chainFile)

\* Mutant of Has: no idempotency guard.
HasNever(old, r) == FALSE

Has(old, r) == \E i \in 1 .. Len(old) : old[i].run = r

\* verify_chain, for a readable file.
Verifies(c) ==
    \A i \in 1 .. Len(c) :
        /\ c[i].index = i - 1
        /\ c[i].prev = IF i = 1 THEN Genesis ELSE c[i - 1].hash
        /\ c[i].hash = ChainHash(i - 1, c[i].payload, c[i].prev)

Init ==
    /\ chainFile = NoFile /\ tmpFile = NoFile
    /\ content = [f \in Inodes |-> <<>>]
    /\ evidence = [r \in Runs |-> NoFile] /\ exported = {}
    /\ pc = [p \in Exporters |-> "idle"]
    /\ bundle = [p \in Exporters |-> [run |-> NoFile, payload |-> 0]]
    /\ entry = [p \in Exporters |-> NoEntry]
    /\ chain = [p \in Exporters |-> <<>>]
    /\ fd = [p \in Exporters |-> NoFile]
    /\ exports = 0 /\ crashes = 0

----------------------------------------------------------------------------
At(p, stage) == pc[p] = stage
Goto(p, stage) == pc' = [pc EXCEPT ![p] = stage]

\* The run of one job is executed by one process at a time (module JobQueue);
\* a job delivered again exports its run again, with a new bundle.
Called(p, r) ==
    /\ At(p, "idle") /\ exports < MaxExports
    /\ \A q \in Exporters : pc[q] = "idle" \/ bundle[q].run # r
    /\ exports' = exports + 1
    /\ bundle' = [bundle EXCEPT ![p] = [run |-> r, payload |-> exports + 1]]

\* Mutant of LoadAndLink: the bundler starts from its own empty _chain.
LoadNothingAndLink(p, r) ==
    /\ Called(p, r)
    /\ LET new == NewEntry(<<>>, r, exports + 1)
       IN  /\ entry' = [entry EXCEPT ![p] = new]
           /\ chain' = [chain EXCEPT ![p] = <<new>>]
    /\ Goto(p, "open")
    /\ UNCHANGED <<files, evidence, exported, fd, crashes>>

\* The chain is loaded and does not have the run: a new entry is computed.
LoadAndLink(p, r) ==
    /\ Called(p, r)
    /\ ~Has(Loaded, r)
    /\ LET new == NewEntry(Loaded, r, exports + 1)
       IN  /\ entry' = [entry EXCEPT ![p] = new]
           /\ chain' = [chain EXCEPT ![p] = Append(Loaded, new)]
    /\ Goto(p, "open")
    /\ UNCHANGED <<files, evidence, exported, fd, crashes>>

\* The idempotency guard on resume: the run keeps the entry it has.
LoadAndReuse(p, r) ==
    /\ Called(p, r)
    /\ \E i \in 1 .. Len(Loaded) :
          /\ Loaded[i].run = r
          /\ \A j \in 1 .. i - 1 : Loaded[j].run # r
          /\ entry' = [entry EXCEPT ![p] = Loaded[i]]
    /\ Goto(p, "rewrite")
    /\ UNCHANGED <<files, evidence, exported, chain, fd, crashes>>

\* write_text opens evidence_chain.tmp: an existing file is truncated, also
\* one that another process is about to write or to rename.
OpenTmp(p) ==
    /\ At(p, "open")
    /\ \E f \in Inodes :
          /\ IF tmpFile = NoFile
             THEN f # chainFile /\ \A q \in Exporters : fd[q] # f
             ELSE f = tmpFile
          /\ tmpFile' = f
          /\ content' = [content EXCEPT ![f] = Torn]
          /\ fd' = [fd EXCEPT ![p] = f]
    /\ Goto(p, "write")
    /\ UNCHANGED <<chainFile, evidence, exported, bundle, entry, chain, exports, crashes>>

\* The text goes to the open file, whatever its name is by now.  Over the text
\* of another writer the file is left with the tail of a longer one, or not.
WriteTmp(p) ==
    /\ At(p, "write")
    /\ \E text \in {chain[p], Torn} :
          /\ text = Torn => content[fd[p]] # Torn
          /\ content' = [content EXCEPT ![fd[p]] = text]
    /\ fd' = [fd EXCEPT ![p] = NoFile]
    /\ Goto(p, "rename")
    /\ UNCHANGED <<chainFile, tmpFile, evidence, exported, bundle, entry, chain, exports, crashes>>

\* tmp_path.replace(path); with the temporary name gone it raises, and
\* _export_evidence_bundle logs a warning: the run ends without evidence.
Rename(p) ==
    /\ At(p, "rename")
    /\ \/ tmpFile # NoFile /\ chainFile' = tmpFile /\ tmpFile' = NoFile /\ Goto(p, "seal")
       \/ tmpFile = NoFile /\ Goto(p, "idle") /\ UNCHANGED <<chainFile, tmpFile>>
    /\ UNCHANGED <<content, evidence, exported, locals, exports, crashes>>

Document(p) == [payload |-> bundle[p].payload, entry |-> entry[p]]

\* export_bundle has written evidence_<run>.json and returns the entry.
Seal(p) ==
    /\ At(p, "seal") \/ At(p, "refill")
    /\ evidence' = [evidence EXCEPT ![bundle[p].run] = Document(p)]
    /\ exported' = exported \cup {bundle[p].run}
    /\ Goto(p, "idle")
    /\ UNCHANGED <<files, locals, exports, crashes>>

\* The guard's path rewrites the evidence in place.
Rewrite(p) ==
    /\ At(p, "rewrite")
    /\ evidence' = [evidence EXCEPT ![bundle[p].run] = Torn]
    /\ Goto(p, "refill")
    /\ UNCHANGED <<files, exported, locals, exports, crashes>>

\* The process dies; its job will be delivered again.
Crash(p) ==
    /\ ~At(p, "idle") /\ crashes < MaxCrashes
    /\ crashes' = crashes + 1
    /\ fd' = [fd EXCEPT ![p] = NoFile]
    /\ Goto(p, "idle")
    /\ UNCHANGED <<files, evidence, exported, bundle, entry, chain, exports>>

Next ==
    \E p \in Exporters :
        \/ \E r \in Runs : LoadAndLink(p, r) \/ LoadAndReuse(p, r)
        \/ OpenTmp(p) \/ WriteTmp(p) \/ Rename(p) \/ Seal(p) \/ Rewrite(p)
        \/ Crash(p)

Spec == Init /\ [][Next]_vars

----------------------------------------------------------------------------
TypeOK ==
    /\ {chainFile, tmpFile} \subseteq Inodes \cup {NoFile}
    /\ \A f \in Inodes : content[f] # Torn => content[f] \in Seq(Entries)
    /\ \A r \in Runs : evidence[r] \in {NoFile, Torn} \/ evidence[r].entry \in Entries
    /\ exported \subseteq Runs
    /\ pc \in [Exporters -> {"idle", "open", "write", "rename", "seal", "rewrite", "refill"}]
    /\ fd \in [Exporters -> Inodes \cup {NoFile}]
    /\ \A p \in Exporters : At(p, "write") => fd[p] # NoFile
    /\ exports \in 0 .. MaxExports /\ crashes \in 0 .. MaxCrashes

\* Whatever the processes and their crashes do to the shared files, the chain
\* file is unreadable or verify_chain accepts it: tampering is never reported
\* of a chain that only export_bundle has written.
ChainVerifies == Verifies(Loaded)

\* No run has two entries in the chain: the guard of export_bundle works on a
\* loaded copy, but what is saved is always a loaded chain and one new run.
OneEntryPerRun ==
    \A i, j \in 1 .. Len(Loaded) : Loaded[i].run = Loaded[j].run => i = j

\* An exported run stays sealed: its evidence file names an entry that is in
\* the chain (README "seals the run into an immutable, hash-chained evidence
\* bundle").  True of one process and its crashes; two lose each other's.
EvidenceSealed ==
    \A r \in exported :
        /\ Has(Loaded, r)
        /\ evidence[r] # Torn =>
              \E i \in 1 .. Len(Loaded) : Loaded[i] = evidence[r].entry

\* History is never rewritten: a step leaves the chain or extends it.
ChainAppendOnly ==
    [][/\ Len(Loaded') >= Len(Loaded)
       /\ SubSeq(Loaded', 1, Len(Loaded)) = Loaded]_vars
=============================================================================
