------------------------ MODULE EvidenceChainProofs ------------------------
(***************************************************************************)
(* What EvidenceChain promises for every number of processes, runs and     *)
(* crashes: the chain file verifies and has no run twice.  And for a       *)
(* directory with a single exporter: history is only ever extended.        *)
(***************************************************************************)
EXTENDS EvidenceChain, TLAPS

\* A chain that verify_chain accepts and that has no run twice.
Unique(c) == \A i, j \in 1 .. Len(c) : c[i].run = c[j].run => i = j
Good(c) == c \in Seq(Entries) /\ Verifies(c) /\ Unique(c)

\* Every file is torn or good, and so is every chain about to be written.
GoodChains ==
    /\ chainFile \in Inodes \cup {NoFile} /\ tmpFile \in Inodes \cup {NoFile}
    /\ DOMAIN content = Inodes
    /\ \A f \in Inodes : content[f] = Torn \/ Good(content[f])
    /\ pc \in [Exporters -> {"idle", "open", "write", "rename", "seal", "rewrite", "refill"}]
    /\ DOMAIN chain = Exporters /\ DOMAIN fd = Exporters
    /\ \A p \in Exporters : At(p, "open") \/ At(p, "write") => Good(chain[p])
    /\ \A p \in Exporters : At(p, "write") => fd[p] \in Inodes
    /\ exports \in 0 .. MaxExports

----------------------------------------------------------------------------
(* Lemmas about chains.                                                    *)

\* The empty chain is good.
LEMMA EmptyGood == Good(<<>>)
  BY DEF Good, Verifies, Unique

\* A new entry linked to a good chain that lacks its run gives a good chain.
LEMMA LinkGood ==
  ASSUME NEW old, Good(old), NEW r \in Runs, ~Has(old, r), NEW n \in Payloads
  PROVE  Good(Append(old, NewEntry(old, r, n)))
<1> DEFINE new == NewEntry(old, r, n)
           c == Append(old, new)
<1>1. old \in Seq(Entries) /\ Len(old) \in Nat  BY DEF Good
<1>2. LastHash(old) \in Hashes
  <2>1. CASE old = <<>>  BY <2>1 DEF LastHash, Genesis, Hashes
  <2>2. CASE old # <<>>
    <3>1. Len(old) \in 1 .. Len(old)  BY <1>1, <2>2
    <3>2. old[Len(old)] \in Entries  BY <1>1, <3>1
    <3> QED  BY <3>2, <2>2 DEF LastHash, Entries
  <2> QED  BY <2>1, <2>2
<1>3. <<Len(old), n>> \in Nat \X Payloads  BY <1>1
<1>4. ChainHash(Len(old), n, LastHash(old)) \in Hashes
  BY <1>2, <1>3 DEF ChainHash, Hashes
<1>5. new \in Entries  BY <1>1, <1>2, <1>4 DEF NewEntry, Entries
<1>6. /\ c \in Seq(Entries) /\ Len(c) = Len(old) + 1
      /\ \A i \in 1 .. Len(old) : c[i] = old[i]
      /\ c[Len(old) + 1] = new
  BY <1>1, <1>5
<1>7. Verifies(c)
  <2> SUFFICES ASSUME NEW i \in 1 .. Len(c)
               PROVE  /\ c[i].index = i - 1
                      /\ c[i].prev = IF i = 1 THEN Genesis ELSE c[i - 1].hash
                      /\ c[i].hash = ChainHash(i - 1, c[i].payload, c[i].prev)
    BY DEF Verifies
  <2> HIDE DEF c, new
  <2>1. CASE i \in 1 .. Len(old)
    <3>1. c[i] = old[i] /\ (i # 1 => c[i - 1] = old[i - 1])  BY <1>1, <1>6, <2>1
    <3> QED  BY <3>1, <2>1 DEF Good, Verifies
  <2>2. CASE i = Len(old) + 1
    <3>1. c[i] = new  BY <1>6, <2>2
    <3>2. /\ new.index = Len(old) /\ new.payload = n /\ new.prev = LastHash(old)
          /\ new.hash = ChainHash(Len(old), n, LastHash(old))
      BY DEF new, NewEntry
    <3>3. LastHash(old) = IF i = 1 THEN Genesis ELSE c[i - 1].hash
      <4>1. CASE old = <<>>  BY <4>1, <2>2 DEF LastHash
      <4>2. CASE old # <<>>
        <5>1. i # 1 /\ i - 1 = Len(old) /\ Len(old) \in 1 .. Len(old)  BY <1>1, <2>2, <4>2
        <5>2. c[i - 1] = old[Len(old)]  BY <5>1, <1>6
        <5> QED  BY <5>1, <5>2, <4>2 DEF LastHash
      <4> QED  BY <4>1, <4>2
    <3>4. Len(old) = i - 1  BY <1>1, <2>2
    <3> QED  BY <3>1, <3>2, <3>3, <3>4
  <2> QED  BY <1>1, <1>6, <2>1, <2>2
<1>8. Unique(c)
  <2>1. new.run = r  BY DEF NewEntry
  <2> HIDE DEF c, new
  <2>2. \A i \in 1 .. Len(old) : c[i].run # r  BY <1>6 DEF Has
  <2>3. \A i, j \in 1 .. Len(old) : c[i].run = c[j].run => i = j  BY <1>6 DEF Good, Unique
  <2>4. 1 .. Len(c) = (1 .. Len(old)) \cup {Len(old) + 1}  BY <1>1, <1>6
  <2> QED  BY <1>6, <2>1, <2>2, <2>3, <2>4 DEF Unique
<1> QED  BY <1>6, <1>7, <1>8 DEF Good

\* What a load returns is good.
LEMMA LoadedGood ==
  ASSUME GoodChains
  PROVE  Good(Loaded)
BY EmptyGood DEF Loaded, Decode, GoodChains

----------------------------------------------------------------------------
(* The invariant.                                                          *)

\* The invariant holds initially.
LEMMA GoodInit == ASSUME Init PROVE GoodChains
<1>1. \A f \in Inodes : Good(content[f])  BY EmptyGood DEF Init
<1>2. exports \in 0 .. MaxExports  BY BoundsAssumption DEF Init
<1> QED  BY <1>1, <1>2 DEF Init, GoodChains, At

\* Every step of every process keeps it.
LEMMA GoodStep == ASSUME GoodChains, [Next]_vars PROVE GoodChains'
<1> USE DEF GoodChains
<1>1. ASSUME NEW p \in Exporters, NEW r \in Runs, LoadAndLink(p, r)
      PROVE  GoodChains'
  <2>1. exports' \in 0 .. MaxExports /\ exports + 1 \in Payloads
    BY <1>1, BoundsAssumption DEF LoadAndLink, Called, Payloads
  <2>2. Good(Append(Loaded, NewEntry(Loaded, r, exports + 1)))
    BY <1>1, <2>1, LoadedGood, LinkGood DEF LoadAndLink
  <2>3. chain' = [chain EXCEPT ![p] = Append(Loaded, NewEntry(Loaded, r, exports + 1))]
    BY <1>1 DEF LoadAndLink
  <2> QED  BY <1>1, <2>1, <2>2, <2>3 DEF LoadAndLink, Goto, At, files
<1>2. ASSUME NEW p \in Exporters, NEW r \in Runs, LoadAndReuse(p, r)
      PROVE  GoodChains'
  <2>1. exports' \in 0 .. MaxExports
    BY <1>2, BoundsAssumption DEF LoadAndReuse, Called
  <2> QED  BY <1>2, <2>1 DEF LoadAndReuse, Goto, At, files
<1>3. ASSUME NEW p \in Exporters, OpenTmp(p)  PROVE GoodChains'
  BY <1>3 DEF OpenTmp, Goto, At
<1>4. ASSUME NEW p \in Exporters, WriteTmp(p)  PROVE GoodChains'
  BY <1>4 DEF WriteTmp, Goto, At
<1>5. ASSUME NEW p \in Exporters, Rename(p)  PROVE GoodChains'
  BY <1>5 DEF Rename, Goto, At, locals
<1>6. ASSUME NEW p \in Exporters, Seal(p)  PROVE GoodChains'
  BY <1>6 DEF Seal, Goto, At, files, locals
<1>7. ASSUME NEW p \in Exporters, Rewrite(p)  PROVE GoodChains'
  BY <1>7 DEF Rewrite, Goto, At, files, locals
<1>8. ASSUME NEW p \in Exporters, Crash(p)  PROVE GoodChains'
  BY <1>8 DEF Crash, Goto, At, files
<1>9. CASE UNCHANGED vars
  BY <1>9 DEF vars, files, locals, At
<1> QED
  BY <1>1, <1>2, <1>3, <1>4, <1>5, <1>6, <1>7, <1>8, <1>9 DEF Next

\* Every chain that is on disk or about to be written is good, always.
THEOREM ChainsStayGood == Spec => []GoodChains
<1>1. Init => GoodChains  BY GoodInit
<1>2. GoodChains /\ [Next]_vars => GoodChains'  BY GoodStep
<1> QED  BY <1>1, <1>2, PTL DEF Spec

\* verify_chain accepts the chain file whenever it is readable, for every
\* number of processes that export to it without a lock and crash.
THEOREM ChainAlwaysVerifies == Spec => []ChainVerifies
<1>1. GoodChains => ChainVerifies  BY LoadedGood DEF ChainVerifies, Good
<1> QED  BY <1>1, ChainsStayGood, PTL

\* No run is ever sealed twice in one chain.
THEOREM NeverSealedTwice == Spec => []OneEntryPerRun
<1>1. GoodChains => OneEntryPerRun  BY LoadedGood DEF OneEntryPerRun, Good, Unique
<1> QED  BY <1>1, ChainsStayGood, PTL

----------------------------------------------------------------------------
(* One process for the directory.                                          *)

\* The chain c is the chain file with the entry e added.
Extends(c, e) ==
    /\ Len(c) = Len(Loaded) + 1
    /\ SubSeq(c, 1, Len(Loaded)) = Loaded
    /\ c[Len(c)] = e

InLoaded(e) == \E i \in 1 .. Len(Loaded) : Loaded[i] = e

\* The evidence of every exported run names an entry of the chain file.
Kept ==
    \A r \in exported :
        /\ Has(Loaded, r)
        /\ evidence[r] # Torn => InLoaded(evidence[r].entry)

\* What p is about to save extends what is there, and p seals only entries
\* that are already in it.
Progress(p) ==
    /\ ~At(p, "idle") => bundle[p].run \in Runs /\ entry[p].run = bundle[p].run
    /\ At(p, "open") \/ At(p, "write") \/ At(p, "rename") => Extends(chain[p], entry[p])
    /\ At(p, "rename") => Good(chain[p])
    /\ At(p, "seal") \/ At(p, "rewrite") \/ At(p, "refill") => InLoaded(entry[p])

\* The files of a directory with the one exporter p.
Files(p) ==
    /\ chainFile # NoFile => content[chainFile] # Torn
    /\ tmpFile # NoFile => tmpFile # chainFile
    /\ At(p, "write") =>
          fd[p] = tmpFile /\ tmpFile # NoFile /\ content[tmpFile] = Torn
    /\ At(p, "rename") => tmpFile # NoFile /\ content[tmpFile] = chain[p]

SoloInv(p) ==
    /\ GoodChains
    /\ DOMAIN bundle = Exporters /\ DOMAIN entry = Exporters /\ DOMAIN evidence = Runs
    /\ exported \subseteq Runs
    /\ Files(p) /\ Progress(p) /\ Kept

\* The chain file is left or extended.
Grows == Len(Loaded') >= Len(Loaded) /\ SubSeq(Loaded', 1, Len(Loaded)) = Loaded

\* With an extended chain whatever was in the chain file is still in it.
LEMMA GrowsKeeps ==
  ASSUME NEW c, Good(c), NEW e, GoodChains, Extends(c, e)
  PROVE  /\ \A i \in 1 .. Len(Loaded) : i \in 1 .. Len(c) /\ c[i] = Loaded[i]
         /\ Len(c) \in 1 .. Len(c)
<1>1. Loaded \in Seq(Entries) /\ c \in Seq(Entries)  BY LoadedGood DEF Good
<1>2. Len(Loaded) \in Nat /\ Len(c) = Len(Loaded) + 1  BY <1>1 DEF Extends
<1> HIDE DEF Loaded
<1>3. \A i \in 1 .. Len(Loaded) : SubSeq(c, 1, Len(Loaded))[i] = c[i]
  BY <1>1, <1>2
<1> QED  BY <1>2, <1>3 DEF Extends

\* A chain with one entry appended extends the one it was made of.
LEMMA AppendExtends ==
  ASSUME NEW e \in Entries, GoodChains
  PROVE  Extends(Append(Loaded, e), e)
<1>1. Loaded \in Seq(Entries)  BY LoadedGood DEF Good
<1> HIDE DEF Loaded
<1> QED  BY <1>1 DEF Extends

\* The entry of a link is an entry, about its run.
LEMMA LinkEntry ==
  ASSUME NEW old, Good(old), NEW r \in Runs, ~Has(old, r), NEW n \in Payloads
  PROVE  NewEntry(old, r, n) \in Entries /\ NewEntry(old, r, n).run = r
<1>1. Good(Append(old, NewEntry(old, r, n)))  BY LinkGood
<1>2. old \in Seq(Entries)  BY DEF Good
<1>3. Len(old) \in Nat
      /\ Append(old, NewEntry(old, r, n)) \in Seq(Entries)
      /\ Len(Append(old, NewEntry(old, r, n))) = Len(old) + 1
  BY <1>1, <1>2 DEF Good
<1>4. Append(old, NewEntry(old, r, n))[Len(old) + 1] \in Entries  BY <1>3
<1>5. Append(old, NewEntry(old, r, n))[Len(old) + 1] = NewEntry(old, r, n)  BY <1>2
<1> QED  BY <1>4, <1>5 DEF NewEntry

\* The invariant of a single exporter holds initially.
LEMMA SoloInit == ASSUME NEW p, Exporters = {p}, Init PROVE SoloInv(p)
  BY GoodInit DEF Init, SoloInv, Files, Progress, Kept, At

\* A step that leaves the chain file keeps what is known about the chain.
LEMMA SameChain ==
  ASSUME NEW p, Exporters = {p}, SoloInv(p), Loaded' = Loaded
  PROVE  /\ Grows
         /\ exported' = exported /\ evidence' = evidence => Kept'
         /\ \A c, e : Extends(c, e)' <=> Extends(c, e)
<1>1. Loaded \in Seq(Entries)  BY LoadedGood DEF SoloInv, Good
<1>2. Grows
  <2> HIDE DEF Loaded
  <2> QED  BY <1>1 DEF Grows
<1> QED  BY <1>2 DEF SoloInv, Kept, InLoaded, Has, Extends

\* Its steps keep the invariant and never shorten the chain file.
LEMMA SoloStep ==
  ASSUME NEW p, Exporters = {p}, SoloInv(p), [Next]_vars
  PROVE  SoloInv(p)' /\ Grows
<1>0. GoodChains' /\ GoodChains  BY GoodStep DEF SoloInv
<1> USE DEF SoloInv
<1>1. ASSUME NEW r \in Runs, LoadAndLink(p, r)  PROVE SoloInv(p)' /\ Grows
  <2> DEFINE new == NewEntry(Loaded, r, exports + 1)
  <2>1. Loaded' = Loaded  BY <1>1 DEF LoadAndLink, files, Loaded, Decode
  <2>2. exports + 1 \in Payloads
    BY <1>0, <1>1, BoundsAssumption DEF GoodChains, LoadAndLink, Called, Payloads
  <2>3. new \in Entries /\ new.run = r
    BY <1>0, <1>1, <2>2, LoadedGood, LinkEntry DEF LoadAndLink
  <2>4. Extends(Append(Loaded, new), new)  BY <1>0, <2>3, AppendExtends
  <2>5. /\ entry'[p] = new /\ chain'[p] = Append(Loaded, new)
        /\ bundle'[p].run = r /\ pc'[p] = "open"
    BY <1>0, <1>1 DEF LoadAndLink, Called, Goto, GoodChains
  <2>6. DOMAIN bundle' = Exporters /\ DOMAIN entry' = Exporters
    BY <1>1 DEF LoadAndLink, Called
  <2>7. Extends(chain[p], entry[p])'  BY <2>1, <2>4, <2>5 DEF Extends
  <2>8. Progress(p)'
    <3> HIDE DEF new
    <3> QED  BY <2>3, <2>5, <2>7 DEF Progress, At
  <2>9. Files(p)'  BY <1>1, <2>5 DEF Files, At, LoadAndLink, files
  <2>10. Kept' /\ Grows  BY <1>1, <2>1, SameChain DEF LoadAndLink
  <2> QED  BY <1>0, <1>1, <2>6, <2>8, <2>9, <2>10 DEF LoadAndLink
<1>2. ASSUME NEW r \in Runs, LoadAndReuse(p, r)  PROVE SoloInv(p)' /\ Grows
  <2>1. Loaded' = Loaded  BY <1>2 DEF LoadAndReuse, files, Loaded, Decode
  <2>2. PICK i \in 1 .. Len(Loaded) :
           Loaded[i].run = r /\ entry' = [entry EXCEPT ![p] = Loaded[i]]
    BY <1>2 DEF LoadAndReuse
  <2>3. entry'[p] = Loaded[i] /\ bundle'[p].run = r /\ pc'[p] = "rewrite"
    BY <1>0, <1>2, <2>2 DEF LoadAndReuse, Called, Goto, GoodChains
  <2>4. DOMAIN bundle' = Exporters /\ DOMAIN entry' = Exporters
    BY <1>2, <2>2 DEF LoadAndReuse, Called
  <2>5. InLoaded(entry[p])'  BY <2>1, <2>2, <2>3 DEF InLoaded
  <2>6. Progress(p)'  BY <2>2, <2>3, <2>5 DEF Progress, At
  <2>7. Files(p)'  BY <1>2, <2>3 DEF Files, At, LoadAndReuse, files
  <2>8. Kept' /\ Grows  BY <1>2, <2>1, SameChain DEF LoadAndReuse
  <2> QED  BY <1>0, <1>2, <2>4, <2>6, <2>7, <2>8 DEF LoadAndReuse
<1>3. CASE OpenTmp(p)
  <2>1. PICK f \in Inodes :
           /\ IF tmpFile = NoFile THEN f # chainFile ELSE f = tmpFile
           /\ tmpFile' = f /\ content' = [content EXCEPT ![f] = Torn]
           /\ fd' = [fd EXCEPT ![p] = f]
    BY <1>3 DEF OpenTmp
  <2>2. f # chainFile /\ f # NoFile /\ chainFile' = chainFile
    BY <1>3, <2>1, NoFileAssumption DEF OpenTmp, Files
  <2>3. chainFile # NoFile => content'[chainFile] = content[chainFile]
    BY <1>0, <2>1, <2>2 DEF GoodChains
  <2>4. Loaded' = Loaded  BY <2>2, <2>3 DEF Loaded, Decode
  <2>5. pc'[p] = "write" /\ fd'[p] = f /\ content'[f] = Torn
    BY <1>0, <1>3, <2>1 DEF OpenTmp, Goto, GoodChains
  <2>6. Files(p)'  BY <2>1, <2>2, <2>3, <2>5 DEF Files, At
  <2>7. Extends(chain[p], entry[p])'
    BY <1>3, <2>4 DEF OpenTmp, Progress, At, Extends
  <2>8. Progress(p)'  BY <1>3, <2>5, <2>7 DEF OpenTmp, Progress, At
  <2>9. Kept' /\ Grows  BY <1>3, <2>4, SameChain DEF OpenTmp
  <2> QED  BY <1>0, <1>3, <2>6, <2>8, <2>9 DEF OpenTmp
<1>4. CASE WriteTmp(p)
  <2>1. /\ fd[p] = tmpFile /\ tmpFile # NoFile /\ tmpFile # chainFile
        /\ tmpFile \in Inodes /\ content[tmpFile] = Torn /\ Good(chain[p])
    BY <1>0, <1>4 DEF WriteTmp, Files, GoodChains
  <2>2. content' = [content EXCEPT ![tmpFile] = chain[p]]
    BY <1>4, <2>1 DEF WriteTmp
  <2>3. chainFile' = chainFile /\ tmpFile' = tmpFile /\ chain' = chain
    BY <1>4 DEF WriteTmp
  <2>4. content'[tmpFile] = chain[p]
        /\ (chainFile # NoFile => content'[chainFile] = content[chainFile])
    BY <1>0, <2>1, <2>2 DEF GoodChains
  <2>5. Loaded' = Loaded  BY <2>3, <2>4 DEF Loaded, Decode
  <2>6. pc'[p] = "rename"  BY <1>0, <1>4 DEF WriteTmp, Goto, GoodChains
  <2>7. Files(p)'  BY <2>1, <2>3, <2>4, <2>6 DEF Files, At
  <2>8. Extends(chain[p], entry[p])'
    BY <1>4, <2>5 DEF WriteTmp, Progress, At, Extends
  <2>9. Progress(p)'  BY <1>4, <2>1, <2>6, <2>8 DEF WriteTmp, Progress, At
  <2>10. Kept' /\ Grows  BY <1>4, <2>5, SameChain DEF WriteTmp
  <2> QED  BY <1>0, <1>4, <2>7, <2>9, <2>10 DEF WriteTmp
<1>5. CASE Rename(p)
  <2>1. /\ tmpFile # NoFile /\ content[tmpFile] = chain[p]
        /\ Good(chain[p]) /\ Extends(chain[p], entry[p])
        /\ bundle[p].run \in Runs /\ entry[p].run = bundle[p].run
    BY <1>5 DEF Rename, Files, Progress, At
  <2>2. chainFile' = tmpFile /\ tmpFile' = NoFile /\ content' = content
    BY <1>5, <2>1 DEF Rename
  <2>3. chain[p] # Torn  BY <2>1, TornAssumption DEF Good
  <2>4. Loaded' = chain[p]  BY <2>1, <2>2, <2>3 DEF Loaded, Decode
  <2>5. /\ pc'[p] = "seal" /\ entry' = entry /\ bundle' = bundle
        /\ evidence' = evidence /\ exported' = exported
    BY <1>0, <1>5, <2>1 DEF Rename, Goto, GoodChains, locals
  <2>6. /\ \A i \in 1 .. Len(Loaded) : i \in 1 .. Len(chain[p]) /\ chain[p][i] = Loaded[i]
        /\ Len(chain[p]) \in 1 .. Len(chain[p])
    BY <1>0, <2>1, GrowsKeeps
  <2>7. InLoaded(entry[p])'
    BY <2>1, <2>4, <2>5, <2>6 DEF InLoaded, Extends
  <2>8. \A e : InLoaded(e) => InLoaded(e)'  BY <2>4, <2>6 DEF InLoaded
  <2>9. \A r : Has(Loaded, r) => Has(Loaded', r)  BY <2>4, <2>6 DEF Has
  <2>10. Kept'  BY <2>5, <2>8, <2>9 DEF Kept
  <2>11. Loaded \in Seq(Entries)  BY <1>0, LoadedGood DEF Good
  <2>12. Grows
    <3> HIDE DEF Loaded
    <3> QED  BY <2>1, <2>4, <2>11 DEF Grows, Extends
  <2>13. Progress(p)'  BY <2>1, <2>5, <2>7 DEF Progress, At
  <2>14. Files(p)'  BY <2>1, <2>2, <2>3, <2>5 DEF Files, At
  <2> QED  BY <1>0, <1>5, <2>10, <2>12, <2>13, <2>14 DEF Rename, locals
<1>6. CASE Seal(p)
  <2>1. Loaded' = Loaded  BY <1>6 DEF Seal, files, Loaded, Decode
  <2>2. pc'[p] = "idle"  BY <1>0, <1>6 DEF Seal, Goto, GoodChains
  <2>3. /\ bundle[p].run \in Runs /\ entry[p].run = bundle[p].run
        /\ InLoaded(entry[p])
    BY <1>6 DEF Seal, Progress, At
  <2>4. Has(Loaded, bundle[p].run)  BY <2>3 DEF InLoaded, Has
  <2>5. evidence'[bundle[p].run].entry = entry[p]
        /\ \A r \in Runs \ {bundle[p].run} : evidence'[r] = evidence[r]
    BY <1>6, <2>3 DEF Seal, Document
  <2>6. exported' = exported \cup {bundle[p].run}  BY <1>6 DEF Seal
  <2>7. ASSUME NEW r \in exported'
        PROVE  Has(Loaded, r) /\ (evidence'[r] # Torn => InLoaded(evidence'[r].entry))
    <3>1. CASE r = bundle[p].run  BY <3>1, <2>3, <2>4, <2>5
    <3>2. CASE r # bundle[p].run
      <4>1. r \in exported /\ evidence'[r] = evidence[r]  BY <3>2, <2>5, <2>6
      <4> QED  BY <4>1 DEF Kept
    <3> QED  BY <3>1, <3>2
  <2>8. Kept'  BY <2>1, <2>7 DEF Kept, InLoaded
  <2>9. Files(p)'  BY <1>6, <2>2 DEF Seal, Files, At, files
  <2>10. Progress(p)'  BY <2>2 DEF Progress, At
  <2>11. Grows  BY <2>1, SameChain
  <2>12. DOMAIN evidence' = Runs /\ exported' \subseteq Runs  BY <1>6, <2>3 DEF Seal
  <2> QED  BY <1>0, <1>6, <2>8, <2>9, <2>10, <2>11, <2>12 DEF Seal, locals
<1>7. CASE Rewrite(p)
  <2>1. Loaded' = Loaded  BY <1>7 DEF Rewrite, files, Loaded, Decode
  <2>2. pc'[p] = "refill"  BY <1>0, <1>7 DEF Rewrite, Goto, GoodChains
  <2>3. \A r \in Runs : evidence'[r] \in {evidence[r], Torn}  BY <1>7 DEF Rewrite
  <2>4. Kept'  BY <1>7, <2>1, <2>3 DEF Rewrite, Kept, InLoaded
  <2>5. Files(p)'  BY <1>7, <2>2 DEF Rewrite, Files, At, files
  <2>6. Progress(p)'  BY <1>7, <2>1, <2>2 DEF Rewrite, Progress, At, locals, InLoaded
  <2>7. Grows  BY <2>1, SameChain
  <2> QED  BY <1>0, <1>7, <2>4, <2>5, <2>6, <2>7 DEF Rewrite, locals
<1>8. CASE Crash(p)
  <2>1. Loaded' = Loaded  BY <1>8 DEF Crash, files, Loaded, Decode
  <2>2. pc'[p] = "idle"  BY <1>0, <1>8 DEF Crash, Goto, GoodChains
  <2>3. Files(p)'  BY <1>8, <2>2 DEF Crash, Files, At, files
  <2>4. Progress(p)'  BY <2>2 DEF Progress, At
  <2>5. Kept' /\ Grows  BY <1>8, <2>1, SameChain DEF Crash
  <2> QED  BY <1>0, <1>8, <2>3, <2>4, <2>5 DEF Crash
<1>9. CASE UNCHANGED vars
  <2>1. Loaded' = Loaded  BY <1>9 DEF vars, files, Loaded, Decode
  <2>2. Files(p)'  BY <1>9 DEF vars, files, locals, Files, At
  <2>3. Progress(p)'  BY <1>9, <2>1 DEF vars, locals, Progress, At, Extends, InLoaded
  <2>4. Kept' /\ Grows  BY <1>9, <2>1, SameChain DEF vars
  <2> QED  BY <1>0, <1>9, <2>2, <2>3, <2>4 DEF vars, locals
<1> QED
  BY <1>1, <1>2, <1>3, <1>4, <1>5, <1>6, <1>7, <1>8, <1>9 DEF Next

\* With one exporter, whenever it crashes, every exported run stays sealed:
\* its evidence names an entry that is in the chain file.
THEOREM SoloSealed ==
  ASSUME NEW p, Exporters = {p}
  PROVE  Spec => []EvidenceSealed
<1>1. Init => SoloInv(p)  BY SoloInit
<1>2. SoloInv(p) /\ [Next]_vars => SoloInv(p)'  BY SoloStep
<1>3. SoloInv(p) => EvidenceSealed  BY DEF SoloInv, Kept, EvidenceSealed, InLoaded
<1> QED  BY <1>1, <1>2, <1>3, PTL DEF Spec

\* With one exporter the chain file only ever grows.
THEOREM SoloAppendOnly ==
  ASSUME NEW p, Exporters = {p}
  PROVE  Spec => ChainAppendOnly
<1>1. Init => SoloInv(p)  BY SoloInit
<1>2. SoloInv(p) /\ [Next]_vars => SoloInv(p)' /\ [Grows]_vars  BY SoloStep
<1>3. ChainAppendOnly <=> [][Grows]_vars  BY PTL DEF ChainAppendOnly, Grows
<1> QED  BY <1>1, <1>2, <1>3, PTL DEF Spec

=============================================================================
