---------------------------- MODULE FilesProofs ----------------------------
(***************************************************************************)
(* No bytes of the user's are lost, whatever fails and wherever a process  *)
(* is killed, for any specs, trees, bounds and options.                    *)
(*                                                                         *)
(* A replacement takes several steps, and the other process may run        *)
(* between any two of them.  The invariant follows each process through    *)
(* its steps: what is at its target is absent, or has consent, or is going *)
(* to a backup name that is still free (Ready); and while no two are at    *)
(* work on one target, neither touches what the other relies on.           *)
(***************************************************************************)
EXTENDS Files, ListTheorems, SequenceTheorems, TLAPS

Work == {"stage", "place", "name", "park", "swap", "drop"}
ApplyWork == Work \cup {"write", "remove", "mkdir"}
AdoptWork == Work \cup {"seed", "copy"}
Steps == {"idle", "look", "perm", "record"} \cup ApplyWork \cup AdoptWork
Results == {"created", "updated", "skipped", "mismatched", "error"}

Data == [of : Paths, ver : Nat]
Jobs == [target : Targets, source : Sources, backup : BOOLEAN, exists : BOOLEAN,
         slot : 0..Slots, next : Results \cup {"idle", "one", "all"}, data : Data]
Runs == [opts : [force : BOOLEAN, backup : BOOLEAN, dry : BOOLEAN], at : Nat,
         res : Seq(Results), clean : BOOLEAN, faults : Nat]

TreeOf ==
  /\ fs \in [Paths -> Nodes]
  /\ \A p \in Paths : fs[p].kind = "dir" => p = Dir
  /\ fs[Dir].kind = "link" => fs[Dir] = Link(SrcDir)
  /\ fs[Child] = Absent \/ fs[Dir].kind = "dir"

Backups ==
  /\ bak \in [Paths -> [1..Slots -> Nodes]]
  /\ \A p \in Paths : \A k \in 1..Slots : bak[p][k].kind # "dir"

Layout == TreeOf /\ Backups

Shape ==
  /\ Layout /\ spec \in Specs
  /\ pc \in [Procs -> Steps] /\ job \in [Procs -> Jobs] /\ run \in Runs
  /\ used \in [{"runs", "adopts", "faults", "edits"} -> Nat]
  /\ settled \in BOOLEAN
  /\ \A b \in kept : b.ver > 0

\* Where apply is in its entries, and with the entry it works on.
Applying ==
  /\ pc["apply"] \in {"idle", "look", "perm"} \cup ApplyWork
  /\ IF pc["apply"] = "idle" THEN run = NoRun
     ELSE run.at = Len(run.res) + 1 /\ run.at <= Len(spec) + 1
  /\ pc["apply"] \notin {"idle", "look"} => run.at \in DOMAIN spec
  /\ pc["apply"] \in ApplyWork \cup {"perm"} => job["apply"].next \in Results
  /\ pc["apply"] \in ApplyWork =>
       /\ job["apply"].target = Entry.target /\ ~run.opts.dry
       /\ pc["apply"] \in {"stage", "place", "swap", "drop"} => IsLink(Entry)
       /\ pc["apply"] = "write" => Entry.kind = "template"
       /\ pc["apply"] \in {"remove", "mkdir"} => Entry.kind = "dir"
       /\ pc["apply"] \in {"place", "name", "park", "swap"} /\ IsLink(Entry) /\ Entry.target = Child
            => fs[Dir].kind \in {"dir", "link"}
       /\ pc["apply"] \in {"name", "park", "remove"} /\ Entry.target = Dir
            => fs[Dir].kind \in {"file", "link"}
       /\ pc["apply"] \in {"park", "swap", "drop"} => job["apply"].slot \in 1..Slots

\* What an adoption works on; the source it copies to is its own.
Adopting ==
  /\ pc["adopt"] \in {"idle", "record"} \cup AdoptWork
  /\ pc["adopt"] \in AdoptWork =>
       LET j == job["adopt"] IN
       /\ j.target \notin {Dir, Child} /\ j.source # SrcChild
       /\ pc["adopt"] \in {"park", "swap", "drop"} => j.slot \in 1..Slots
       /\ pc["adopt"] = "seed" => fs[j.source] = Absent
       /\ pc["adopt"] = "copy" => fs[j.source].kind = "file" /\ fs[j.source].data.ver = 0

Site(x) == Real(job[x].target)
There(x) == fs[Site(x)]
Parked(x) == bak[Site(x)][job[x].slot]

\* Process x may take node n away: an adoption never takes what it has not saved.
MayGo(x, n) == IF x = "adopt" THEN n.kind = "absent" ELSE n.kind = "file" => n.data \notin kept

Ready(x) ==
  /\ pc[x] \in {"stage", "name", "park"} => job[x].backup \/ MayGo(x, There(x))
  /\ pc[x] \in {"write", "remove"} => MayGo(x, There(x))
  /\ pc[x] \in {"place", "swap"} => There(x).kind = "absent"
  /\ pc[x] = "park" => Parked(x) = Absent
  /\ pc[x] = "swap" => job[x].backup \/ MayGo(x, Parked(x))
  /\ pc[x] = "drop" => MayGo(x, Parked(x))
  /\ pc[x] \in {"seed", "copy"} => job[x].backup

\* What apply takes away from a target, somebody agreed to.
Agreed ==
  pc["apply"] \in {"stage", "name", "park", "remove"} /\ There("apply").kind = "file"
  => run.opts.force \/ Entry.backup

IInv ==
  /\ Shape /\ Applying /\ Adopting
  /\ ~raced => /\ ~Overlap
               /\ \A x \in Procs : Ready(x)
               /\ Agreed
               /\ kept \subseteq OnDisk

-----------------------------------------------------------------------------

(* Nodes, paths and what is on disk.                                       *)

LEMMA NodeKinds ==
    ASSUME NEW n \in Nodes
    PROVE  /\ n.kind \in {"absent", "file", "link", "dir"}
           /\ n.kind = "absent" <=> n = Absent
           /\ n.kind = "file" => n.data \in Data /\ n.perm \in BOOLEAN
           /\ n.kind = "dir" => n.inside = Absent
BY DEF Nodes, Absent, Data

LEMMA Made ==
    /\ Absent \in Nodes /\ Absent.kind = "absent"
    /\ \A d \in Data, ok \in BOOLEAN : /\ File(d, ok) \in Nodes /\ File(d, ok).kind = "file"
                                       /\ File(d, ok).data = d /\ File(d, ok).perm = ok
    /\ \A p \in Paths \cup {SrcDir} : Link(p) \in Nodes /\ Link(p).kind = "link"
    /\ \A ok \in BOOLEAN : /\ Plain(Absent, ok) \in Nodes /\ Plain(Absent, ok).kind = "dir"
                           /\ Plain(Absent, ok).inside = Absent
    /\ NotDir.kind = "notdir"
BY DEF Nodes, Absent, File, Link, Plain, NotDir, Data

\* A target's name stands for itself, or the entry of Dir for its source.
LEMMA RealPath ==
    ASSUME Layout, NEW p \in Paths
    PROVE  /\ Real(p) \in Paths
           /\ Real(p) = p \/ (p = Child /\ Real(p) = SrcChild /\ fs[Dir] = Link(SrcDir))
           /\ p # Child => Real(p) = p
BY PathsAssumption DEF Real, Paths

LEMMA SeenAt ==
    ASSUME Layout, NEW p \in Paths
    PROVE  /\ At(p) = fs[Real(p)] \/ (At(p) = NotDir /\ p = Child /\ fs[Real(p)] = Absent /\ fs[Dir].kind = "file")
           /\ At(p).kind \in {"absent", "file", "link", "dir"} => At(p) = fs[Real(p)]
           /\ At(p).kind \in {"absent", "file", "link", "dir", "notdir"}
<1>1. fs[Dir] \in Nodes /\ fs[Real(p)] \in Nodes
  BY RealPath, PathsAssumption DEF Layout, TreeOf, Backups, Paths
<1>2. CASE p = Child /\ fs[Dir].kind = "file"
  <2>1. At(p) = NotDir /\ Real(p) = p /\ fs[p] = Absent
    BY <1>2, PathsAssumption, Made DEF At, Real, Layout, TreeOf, Backups, Paths
  <2> QED BY <1>2, <2>1, Made
<1>3. CASE ~(p = Child /\ fs[Dir].kind = "file")
  <2>1. At(p) = fs[Real(p)]
    BY <1>3 DEF At
  <2> QED BY <1>1, <2>1, NodeKinds
<1> QED BY <1>2, <1>3

\* Two targets stand for two places.
LEMMA PlacesDiffer ==
    ASSUME Layout, NEW p \in Targets, NEW q \in Targets, p # q
    PROVE  Real(p) # Real(q)
<1>1. p \in Paths /\ q \in Paths /\ SrcChild \notin Targets
  BY PathsAssumption DEF Paths
<1> QED BY <1>1, RealPath

Somewhere(b) ==
    \/ \E p \in Paths : fs[p].kind = "file" /\ fs[p].data = b
    \/ \E p \in Paths : \E k \in 1..Slots : bak[p][k].kind = "file" /\ bak[p][k].data = b

LEMMA WhatIsOnDisk == Layout => \A b : b \in OnDisk <=> Somewhere(b)
<1> SUFFICES ASSUME Layout PROVE \A b : b \in OnDisk <=> Somewhere(b)
  OBVIOUS
<1>1. ASSUME NEW d \in OnPaths, d.kind = "dir" PROVE d.inside.kind # "file"
  <2>1. CASE \E p \in Paths : d = fs[p]
    BY <1>1, <2>1, NodeKinds, Made DEF Layout, TreeOf, Backups
  <2>2. CASE \E p \in Paths : \E k \in 1..Slots : d = bak[p][k]
    BY <1>1, <2>2 DEF Layout, TreeOf, Backups
  <2> QED BY <2>1, <2>2 DEF OnPaths
<1>2. \A b : b \in OnDisk <=> \E n \in OnPaths : n.kind = "file" /\ n.data = b
  BY <1>1 DEF OnDisk
<1>3. \A b : (\E n \in OnPaths : n.kind = "file" /\ n.data = b) <=> Somewhere(b)
  BY DEF OnPaths, Somewhere
<1> QED BY <1>2, <1>3

LEMMA WhatIsOnDiskNext == (Layout => \A b : b \in OnDisk <=> Somewhere(b))'
BY WhatIsOnDisk, PTL

\* Nothing is lost if what the user wants kept goes on being somewhere.
LEMMA StillThere ==
    ASSUME Layout, Layout', kept \subseteq OnDisk,
           \A b \in kept' : (b \in kept => (Somewhere(b) => Somewhere(b)')) /\ (b \notin kept => Somewhere(b)')
    PROVE  (kept \subseteq OnDisk)'
<1>1. ASSUME NEW b \in kept' PROVE Somewhere(b)'
  <2>1. CASE b \in kept
    <3>1. Somewhere(b)
      BY <2>1, WhatIsOnDisk
    <3> QED BY <2>1, <3>1
  <2> QED BY <2>1
<1>2. \A b : (b \in OnDisk)' <=> Somewhere(b)'
  BY WhatIsOnDiskNext
<1> QED BY <1>1, <1>2

\* What a rename or a write leaves of the tree.
LEMMA WithIs ==
    ASSUME NEW f, NEW p \in Paths, NEW n, n.kind # "dir"
    PROVE  With(f, p, n) = [q \in Paths |-> IF q = p THEN n ELSE f[q]]
BY DEF With

LEMMA WithoutIs ==
    ASSUME NEW p \in Paths, p = Dir => fs[Dir].kind # "dir"
    PROVE  Without(p) = [q \in Paths |-> IF q = Real(p) THEN Absent ELSE fs[q]]
BY DEF Without

LEMMA TreePut ==
    ASSUME TreeOf, NEW t \in Paths, NEW n \in Nodes,
           fs' = [q \in Paths |-> IF q = t THEN n ELSE fs[q]],
           n.kind = "dir" => t = Dir,
           t = Dir => n.kind # "link" /\ fs[Child] = Absent,
           t = Child => n = Absent \/ fs[Dir].kind = "dir"
    PROVE  TreeOf'
<1>1. Dir \in Paths /\ Child \in Paths /\ Dir # Child
  BY PathsAssumption DEF Paths
<1> QED BY <1>1 DEF TreeOf

LEMMA BackupsPut ==
    ASSUME Backups, NEW t \in Paths, NEW k \in 1..Slots, NEW n \in Nodes, n.kind # "dir",
           bak' = [bak EXCEPT ![t][k] = n]
    PROVE  /\ Backups' /\ bak'[t][k] = n
           /\ \A q \in Paths : \A l \in 1..Slots : (q = t /\ l = k) \/ bak'[q][l] = bak[q][l]
           /\ \A q \in Paths : q # t => bak'[q] = bak[q]
BY DEF Backups

-----------------------------------------------------------------------------
(* Neither process touches what the other relies on.                       *)

\* Where a process works.
LEMMA Sites ==
    ASSUME Shape
    PROVE  /\ \A x \in Procs : /\ job[x].target \in Targets /\ job[x].source \in Sources
                               /\ Site(x) \in Paths /\ There(x) \in Nodes
           /\ Site("apply") \in Targets \cup {SrcChild}
           /\ job["adopt"].target # Child => Site("adopt") = job["adopt"].target
<1>1. \A x \in Procs : job[x].target \in Targets /\ job[x].source \in Sources
  BY DEF Shape, Jobs
<1>2. Layout /\ Targets \subseteq Paths /\ "apply" \in Procs /\ "adopt" \in Procs
  BY DEF Shape, Paths, Procs
<1>3. \A x \in Procs : Site(x) \in Paths /\ There(x) \in Nodes
  BY <1>1, <1>2, RealPath DEF Site, There, Layout, TreeOf
<1>4. Site("apply") \in Targets \cup {SrcChild} /\ (job["adopt"].target # Child => Site("adopt") = job["adopt"].target)
  BY <1>1, <1>2, RealPath DEF Site
<1> QED BY <1>1, <1>3, <1>4

\* While nothing has raced, the two are at different places.
LEMMA Apart ==
    ASSUME IInv, ~raced, pc["apply"] \in ApplyWork, pc["adopt"] \in AdoptWork
    PROVE  Site("adopt") # Site("apply")
<1>1. job["adopt"].target # job["apply"].target
  BY DEF IInv, Overlap, ApplyWork, AdoptWork, Work
<1>2. job["adopt"].target \in Targets /\ job["apply"].target \in Targets /\ Layout
  BY Sites DEF IInv, Shape, Procs
<1> QED BY <1>1, <1>2, PlacesDiffer DEF Site

\* What Ready says depends on a process's own place only.
LEMMA StaysReady ==
    ASSUME NEW x \in Procs, Ready(x), pc'[x] = pc[x], job'[x] = job[x], kept' = kept,
           Site(x)' = Site(x),
           pc[x] \in ApplyWork \cup AdoptWork => fs'[Site(x)] = fs[Site(x)] /\ bak'[Site(x)] = bak[Site(x)]
    PROVE  Ready(x)'
BY DEF Ready, There, Parked, MayGo, ApplyWork, AdoptWork, Work

\* A step of apply, as an adoption sees it.
LEMMA ApplyActs ==
    ASSUME IInv, pc["apply"] \in ApplyWork, pc'["adopt"] = pc["adopt"], job'["adopt"] = job["adopt"],
           kept' = kept,
           \A q \in Paths : q \notin {Site("apply"), Dir} => fs'[q] = fs[q],
           \A q \in Paths : q # Site("apply") => bak'[q] = bak[q]
    PROVE  Adopting' /\ (~raced => Ready("adopt")')
<1> DEFINE j == job["adopt"]
<1>1. /\ j.target \in Targets /\ j.source \in Sources /\ Adopting /\ "adopt" \in Procs
      /\ Site("apply") \in Targets \cup {SrcChild} /\ (j.target # Child => Site("adopt") = j.target)
  BY Sites DEF IInv, Procs
<1>2. j.source # SrcChild => fs'[j.source] = fs[j.source]
  BY <1>1, PathsAssumption DEF Paths
<1>3. Adopting'
  BY <1>1, <1>2 DEF Adopting
<1>4. ASSUME ~raced PROVE Ready("adopt")'
  <2>1. Ready("adopt")
    BY <1>1, <1>4 DEF IInv
  <2>2. CASE pc["adopt"] \notin AdoptWork
    <3>1. pc'["adopt"] \in {"idle", "record"}
      BY <1>1, <2>2 DEF Adopting
    <3> QED BY <3>1 DEF Ready
  <2>3. CASE pc["adopt"] \in AdoptWork
    <3>1. j.target \notin {Dir, Child} /\ Site("adopt") = j.target /\ Site("adopt")' = j.target
      BY <1>1, <2>3 DEF Adopting, Site, Real
    <3>2. Site("adopt") # Site("apply")
      BY <1>4, <2>3, Apart
    <3>3. fs'[Site("adopt")] = fs[Site("adopt")] /\ bak'[Site("adopt")] = bak[Site("adopt")]
      BY <1>1, <3>1, <3>2 DEF Paths
    <3> QED BY <1>1, <2>1, <3>1, <3>3, StaysReady
  <2> QED BY <2>2, <2>3
<1> QED BY <1>3, <1>4

\* A step of an adoption, as apply sees it.
LEMMA AdoptActs ==
    ASSUME IInv, pc["adopt"] \in AdoptWork, pc'["apply"] = pc["apply"], job'["apply"] = job["apply"],
           run' = run, spec' = spec, kept' = kept,
           \A q \in Paths : q \notin {Site("adopt"), job["adopt"].source} => fs'[q] = fs[q],
           \A q \in Paths : q # Site("adopt") => bak'[q] = bak[q]
    PROVE  Applying' /\ (~raced => Ready("apply")' /\ Agreed')
<1> DEFINE j == job["adopt"]
<1>1. /\ j.target \in Targets /\ j.source \in Sources /\ "apply" \in Procs /\ Applying
      /\ j.target \notin {Dir, Child} /\ j.source # SrcChild /\ Site("adopt") = j.target
      /\ Site("apply") \in Targets \cup {SrcChild}
  BY Sites DEF IInv, Procs, Adopting
<1>2. Dir \in Paths /\ fs'[Dir] = fs[Dir]
  BY <1>1, PathsAssumption DEF Paths
<1>3. Applying'
  BY <1>1, <1>2 DEF Applying, Entry
<1>4. Site("apply")' = Site("apply")
  BY <1>2 DEF Site, Real
<1>5. ASSUME ~raced PROVE Ready("apply")' /\ Agreed'
  <2>1. Ready("apply") /\ Agreed
    BY <1>1, <1>5 DEF IInv
  <2>2. pc["apply"] \in ApplyWork => fs'[Site("apply")] = fs[Site("apply")] /\ bak'[Site("apply")] = bak[Site("apply")]
    BY <1>1, <1>5, Apart, PathsAssumption DEF Paths
  <2>3. pc["apply"] \in ApplyWork \/ pc["apply"] \in {"idle", "look", "perm"}
    BY <1>1 DEF Applying
  <2>4. Ready("apply")'
    BY <1>1, <1>4, <2>1, <2>2, <2>3, StaysReady DEF Ready
  <2>5. Agreed'
    BY <1>4, <2>1, <2>2, <2>3 DEF Agreed, There, Entry, ApplyWork, Work
  <2> QED BY <2>4, <2>5
<1> QED BY <1>3, <1>5

-----------------------------------------------------------------------------
(* The parts of a step that many have in common.                           *)

Busy(x) == pc[x] \in (IF x = "apply" THEN ApplyWork ELSE AdoptWork)

LEMMA EntryIs ==
    ASSUME Shape, run.at \in DOMAIN spec
    PROVE  /\ Entry \in Entries /\ Entry.target \in Paths /\ Entry.source \in Paths
           /\ Entry.kind = "dir" <=> Entry.target = Dir
           /\ IsLink(Entry) => Entry.target # Dir
<1>1. spec \in Seq(Entries) /\ (Entry.kind = "dir" <=> Entry.target = Dir)
  BY SpecsAssumption DEF Shape, Entry
<1>2. Entry \in Entries
  BY <1>1, ElementOfSeq, LenProperties DEF Entry
<1>3. Entry.target \in Paths /\ Entry.source \in Paths
  BY <1>2 DEF Entries, Paths
<1> QED BY <1>1, <1>2, <1>3 DEF IsLink

LEMMA NoJobIs == NoJob \in Jobs /\ NoRun \in Runs /\ NoRun.res = <<>> /\ NoRun.at = 0
<1>1. NoJob \in Jobs
  <2>1. NoHash \in Data /\ 0 \in 0..Slots
    BY PathsAssumption, BoundsAssumption DEF NoHash, Bytes, Data, Paths
  <2> QED BY <2>1, PathsAssumption DEF NoJob, Jobs, Results
<1>2. <<>> \in Seq(Results)
  OBVIOUS
<1> QED BY <1>1, <1>2 DEF NoRun, Runs

\* An entry that ends leaves apply at the next one.
LEMMA EndsIs ==
    ASSUME Shape, Applying, NEW r \in Results, Ends(r), run.at \in DOMAIN spec, spec' = spec,
           pc["apply"] # "idle"
    PROVE  /\ pc' \in [Procs -> Steps] /\ job' \in [Procs -> Jobs] /\ run' \in Runs
           /\ pc'["apply"] = "look" /\ pc'["adopt"] = pc["adopt"] /\ job'["adopt"] = job["adopt"]
           /\ Applying' /\ Ready("apply")' /\ Agreed'
<1>1. /\ pc \in [Procs -> Steps] /\ job \in [Procs -> Jobs] /\ run \in Runs
      /\ "apply" \in Procs /\ "adopt" \in Procs /\ spec \in Seq(Entries)
  BY SpecsAssumption DEF Shape, Procs
<1>2. pc' \in [Procs -> Steps] /\ job' \in [Procs -> Jobs]
  <2>1. job' = [job EXCEPT !["apply"] = NoJob] /\ pc' = [pc EXCEPT !["apply"] = "look"]
    BY DEF Ends
  <2> QED BY <1>1, <2>1, NoJobIs DEF Steps
<1>3. pc'["apply"] = "look" /\ pc'["adopt"] = pc["adopt"] /\ job'["adopt"] = job["adopt"]
  BY <1>1 DEF Ends
<1>4. run.res \in Seq(Results) /\ run.at \in Nat
  BY <1>1 DEF Runs
<1>5. Append(run.res, r) \in Seq(Results) /\ Len(Append(run.res, r)) = Len(run.res) + 1
  BY <1>4, AppendProperties
<1>6. run' \in Runs /\ run'.at = run.at + 1 /\ run'.res = Append(run.res, r)
  <2> DEFINE s == Append(run.res, r)
             n == run.at + 1
  <2>1. run' = [run EXCEPT !.res = s, !.at = n]
    BY DEF Ends
  <2>2. n \in Nat /\ s \in Seq(Results) /\ run \in Runs
    BY <1>1, <1>4, <1>5
  <2> HIDE DEF s, n
  <2>3. run' \in Runs /\ run'.at = n /\ run'.res = s
    BY <2>1, <2>2 DEF Runs
  <2> QED BY <2>3 DEF s, n
<1>7. run.at = Len(run.res) + 1 /\ run.at <= Len(spec) /\ Len(spec) \in Nat
  BY <1>1, LenProperties DEF Applying
<1>8. run'.at = Len(run'.res) + 1 /\ run'.at <= Len(spec') + 1
  BY <1>4, <1>5, <1>6, <1>7
<1>9. Applying' /\ Ready("apply")' /\ Agreed'
  BY <1>3, <1>8 DEF Applying, ApplyWork, Work, Ready, Agreed
<1> QED BY <1>2, <1>3, <1>6, <1>9

\* So does a process that gives up; an adoption exits.
LEMMA FailsIs ==
    ASSUME IInv, NEW x \in Procs, Fails(x), Busy(x), spec' = spec
    PROVE  /\ pc' \in [Procs -> Steps] /\ job' \in [Procs -> Jobs] /\ run' \in Runs
           /\ \A y \in Procs : y # x => pc'[y] = pc[y] /\ job'[y] = job[y]
           /\ Ready(x)'
           /\ x = "apply" => Applying' /\ Agreed'
           /\ x = "adopt" => Adopting' /\ run' = run
<1>1. Shape /\ Applying /\ Procs = {"apply", "adopt"}
  BY DEF IInv, Procs
<1>2. CASE x = "apply"
  <2>1. Ends("error") /\ run.at \in DOMAIN spec /\ pc["apply"] # "idle" /\ "error" \in Results
    BY <1>1, <1>2 DEF Fails, Busy, Applying, ApplyWork, Work, Results
  <2> QED BY <1>1, <1>2, <2>1, EndsIs
<1>3. CASE x = "adopt"
  <2>1. pc' = [pc EXCEPT !["adopt"] = "idle"] /\ job' = [job EXCEPT !["adopt"] = NoJob] /\ run' = run
    BY <1>3 DEF Fails
  <2>2. pc' \in [Procs -> Steps] /\ job' \in [Procs -> Jobs] /\ run' \in Runs /\ pc'["adopt"] = "idle"
    BY <1>1, <2>1, NoJobIs DEF Shape, Steps
  <2>3. Ready("adopt")' /\ Adopting'
    BY <2>2 DEF Ready, Adopting, AdoptWork, Work
  <2> QED BY <1>1, <1>3, <2>1, <2>2, <2>3 DEF Shape
<1> QED BY <1>1, <1>2, <1>3

LEMMA Assembled ==
    ASSUME IInv, raced' = (raced \/ Overlap'), Shape', Applying', Adopting',
           ~raced => Ready("apply")' /\ Ready("adopt")' /\ Agreed' /\ (kept \subseteq OnDisk)'
    PROVE  IInv'
BY DEF IInv, Procs

\* What a step of a process at work has to show.
LEMMA Closes ==
    ASSUME IInv, NEW x \in Procs, Busy(x), raced' = (raced \/ Overlap'),
           Shape', kept' = kept, spec' = spec,
           \A y \in Procs : y # x => pc'[y] = pc[y] /\ job'[y] = job[y],
           \A q \in Paths : q \notin {Site(x), IF x = "apply" THEN Dir ELSE job["adopt"].source} => fs'[q] = fs[q],
           \A q \in Paths : q # Site(x) => bak'[q] = bak[q],
           x = "apply" => Applying', x = "adopt" => Adopting' /\ run' = run,
           ~raced => Ready(x)' /\ (x = "apply" => Agreed') /\ \A b \in kept : Somewhere(b) => Somewhere(b)'
    PROVE  IInv'
<1>1. Procs = {"apply", "adopt"} /\ Layout /\ Layout'
  BY DEF Procs, IInv, Shape
<1>2. ASSUME ~raced PROVE (kept \subseteq OnDisk)'
  BY <1>1, <1>2, StillThere DEF IInv
<1>3. CASE x = "apply"
  <2>1. Adopting' /\ (~raced => Ready("adopt")')
    BY <1>1, <1>3, ApplyActs DEF Busy
  <2> QED BY <1>2, <1>3, <2>1, Assembled
<1>4. CASE x = "adopt"
  <2>1. Applying' /\ (~raced => Ready("apply")' /\ Agreed')
    BY <1>1, <1>4, AdoptActs DEF Busy
  <2> QED BY <1>2, <1>4, <2>1, Assembled
<1> QED BY <1>1, <1>3, <1>4

LEMMA FaultsCount ==
    ASSUME Shape, NEW what \in {"runs", "adopts", "faults", "edits"}, Spend(what)
    PROVE  used' \in [{"runs", "adopts", "faults", "edits"} -> Nat]
BY DEF Shape, Spend

\* A process gives up and has changed nothing.
LEMMA FailsKeeps ==
    ASSUME IInv, NEW x \in Procs, Fails(x), Busy(x), raced' = (raced \/ Overlap'),
           UNCHANGED <<fs, bak, spec, kept, settled>>, used' = used \/ Spend("faults")
    PROVE  IInv'
<1>1. /\ pc' \in [Procs -> Steps] /\ job' \in [Procs -> Jobs] /\ run' \in Runs
      /\ \A y \in Procs : y # x => pc'[y] = pc[y] /\ job'[y] = job[y]
      /\ Ready(x)' /\ (x = "apply" => Applying' /\ Agreed') /\ (x = "adopt" => Adopting' /\ run' = run)
  BY FailsIs
<1>2. Shape'
  <2>1. Shape /\ used' \in [{"runs", "adopts", "faults", "edits"} -> Nat]
    BY FaultsCount DEF IInv, Shape
  <2> QED BY <1>1, <2>1 DEF Shape, Layout, TreeOf, Backups
<1>3. \A b \in kept : Somewhere(b) => Somewhere(b)'
  BY DEF Somewhere
<1> QED BY <1>1, <1>2, <1>3, Closes

-----------------------------------------------------------------------------
(* The steps of createSymlinkAt.                                           *)

\* What is true of a process at work, by itself.
LEMMA AtWork ==
    ASSUME IInv, NEW x \in Procs, Busy(x)
    PROVE  /\ Procs = {"apply", "adopt"} /\ Shape /\ Layout /\ Applying /\ Adopting
           /\ job[x] \in Jobs /\ job[x].target \in Targets /\ job[x].source \in Sources
           /\ Site(x) \in Paths /\ There(x) \in Nodes
           /\ x = "apply" => run.at \in DOMAIN spec /\ job[x].target = Entry.target /\ pc[x] \in ApplyWork
           /\ x = "adopt" => job[x].target \notin {Dir, Child} /\ Site(x) = job[x].target
           /\ pc[x] \in {"stage", "place", "swap", "drop"} => job[x].target # Dir /\ Site(x) # Dir
           /\ (job[x].target = Dir <=> Site(x) = Dir)
           /\ pc[x] \in {"park", "swap", "drop"} => job[x].slot \in 1..Slots
           /\ ~raced => Ready(x) /\ Agreed
<1>1. Procs = {"apply", "adopt"} /\ Shape /\ Layout /\ Applying /\ Adopting /\ job[x] \in Jobs
  BY DEF IInv, Procs, Shape
<1>2. job[x].target \in Targets /\ job[x].source \in Sources /\ Site(x) \in Paths /\ There(x) \in Nodes
  BY <1>1, Sites
<1>3. x = "apply" => run.at \in DOMAIN spec /\ job[x].target = Entry.target /\ pc[x] \in ApplyWork
  BY <1>1 DEF Applying, Busy, ApplyWork, Work
<1>4. x = "adopt" => job[x].target \notin {Dir, Child} /\ Site(x) = job[x].target
  BY <1>1, Sites DEF Adopting, Busy
<1>5. job[x].target = Dir <=> Site(x) = Dir
  BY <1>1, <1>2, RealPath, PathsAssumption DEF Site, Paths
<1>6. pc[x] \in {"stage", "place", "swap", "drop"} => job[x].target # Dir
  BY <1>1, <1>3, <1>4, EntryIs DEF Applying
<1>7. ~raced => Ready(x) /\ Agreed
  BY DEF IInv
<1>8. pc[x] \in {"park", "swap", "drop"} => job[x].slot \in 1..Slots
  BY <1>1, <1>3 DEF Applying, Adopting, Busy
<1> QED BY <1>1, <1>2, <1>3, <1>4, <1>5, <1>6, <1>7, <1>8

LEMMA StageKeeps ==
    ASSUME IInv, NEW x \in Procs, Stage(x), raced' = (raced \/ Overlap')
    PROVE  IInv'
<1> DEFINE j == job[x]
           s == IF At(j.target).kind = "absent" THEN "place" ELSE "name"
<1>1. Busy(x) /\ pc[x] = "stage"
  BY DEF Stage, Busy, ApplyWork, AdoptWork, Work, Procs
<1>2. CASE ~ParentOk(j.target)
  BY <1>1, <1>2, FailsKeeps DEF Stage, ghosts
<1>3. CASE ParentOk(j.target)
  <2>1. /\ fs' = WithParent(j.target) /\ pc' = [pc EXCEPT ![x] = s]
        /\ job' = [job EXCEPT ![x].exists = At(j.target).kind # "absent",
                              ![x].backup = j.backup \/ At(j.target).kind = "dir"]
        /\ UNCHANGED <<run, bak, spec, locked, used, kept, quiet, settled, foreseen>>
    BY <1>3 DEF Stage, Go, ghosts
  <2>2. /\ Procs = {"apply", "adopt"} /\ Shape /\ Layout /\ j \in Jobs /\ j.target \in Targets /\ j.target \in Paths
        /\ Site(x) \in Paths /\ Site(x) # Dir /\ j.target # Dir /\ Dir \in Paths /\ Child \in Paths /\ Dir # Child
    BY <1>1, AtWork, PathsAssumption DEF Paths
  <2>3. /\ job'[x].target = j.target /\ job'[x].source = j.source /\ job'[x].slot = j.slot
        /\ job'[x].backup = (j.backup \/ At(j.target).kind = "dir") /\ job'[x] \in Jobs
    BY <2>1, <2>2 DEF Shape, Jobs
  <2>4. job' \in [Procs -> Jobs] /\ pc' \in [Procs -> Steps] /\ pc'[x] = s /\ s \in {"place", "name"}
    BY <2>1, <2>2, <2>3 DEF Shape, Steps, ApplyWork, Work
  <2>5. fs' = fs \/ (fs' = [fs EXCEPT ![Dir] = Plain(Absent, TRUE)] /\ fs[Dir] = Absent /\ j.target = Child)
    BY <2>1 DEF WithParent
  <2>6. Layout' /\ \A q \in Paths : q # Dir => fs'[q] = fs[q]
    <3>1. CASE fs' = fs
      BY <2>1, <2>2, <3>1 DEF Layout, TreeOf, Backups
    <3>2. CASE fs' = [fs EXCEPT ![Dir] = Plain(Absent, TRUE)] /\ fs[Dir] = Absent
      <4>1. fs' = [q \in Paths |-> IF q = Dir THEN Plain(Absent, TRUE) ELSE fs[q]]
        BY <2>2, <3>2 DEF Layout, TreeOf
      <4>2. fs[Child] = Absent /\ Plain(Absent, TRUE) \in Nodes /\ Plain(Absent, TRUE).kind = "dir"
        BY <2>2, <3>2, Made DEF Layout, TreeOf
      <4>3. TreeOf'
        BY <2>2, <4>1, <4>2, TreePut DEF Layout
      <4> QED BY <2>1, <2>2, <4>1, <4>3 DEF Layout, Backups
    <3> QED BY <2>5, <3>1, <3>2
  <2>7. Shape'
    BY <2>1, <2>2, <2>4, <2>6 DEF Shape
  <2>8. Site(x)' = Site(x) /\ There(x)' = There(x)
    <3>1. fs'[Dir] = fs[Dir] \/ (fs[Dir] = Absent /\ fs'[Dir] = Plain(Absent, TRUE))
      BY <2>2, <2>5 DEF Layout, TreeOf
    <3>2. (fs'[Dir] = Link(SrcDir)) <=> (fs[Dir] = Link(SrcDir))
      <4>1. Link(SrcDir).kind = "link" /\ Absent.kind = "absent" /\ Plain(Absent, TRUE).kind = "dir"
        BY Made
      <4> QED BY <3>1, <4>1
    <3>3. Site(x)' = Site(x)
      BY <2>3, <3>2 DEF Site, Real
    <3> QED BY <2>2, <2>6, <3>3 DEF There
  <2>9. x = "apply" => Applying'
    <3> SUFFICES ASSUME x = "apply" PROVE Applying'
      OBVIOUS
    <3>1. Applying /\ IsLink(Entry) /\ Entry' = Entry /\ j.target = Entry.target
      BY <1>1, <2>1, AtWork DEF Applying, Entry
    <3>2. j.target = Child => fs'[Dir].kind \in {"dir", "link"}
      <4>1. j.target = Child => fs[Dir].kind # "file"
        BY <1>3 DEF ParentOk
      <4>2. fs[Dir] \in Nodes /\ (j.target = Child /\ fs[Dir] = Absent => fs'[Dir] = Plain(Absent, TRUE))
        BY <2>1, <2>2 DEF WithParent, Layout, TreeOf
      <4> QED BY <2>5, <4>1, <4>2, Made, NodeKinds
    <3> QED BY <1>1, <2>1, <2>2, <2>3, <2>4, <3>1, <3>2 DEF Applying, ApplyWork, Work, IsLink
  <2>10. x = "adopt" => Adopting' /\ run' = run
    <3>1. Adopting /\ (x = "adopt" => j.target # Child /\ j.target # Dir)
      BY <1>1, AtWork
    <3> QED BY <1>1, <2>1, <2>3, <2>4, <3>1 DEF Adopting, AdoptWork, Work
  <2>11. ~raced => Ready(x)' /\ (x = "apply" => Agreed')
    <3> SUFFICES ASSUME ~raced PROVE Ready(x)' /\ (x = "apply" => Agreed')
      OBVIOUS
    <3>1. Ready(x) /\ Agreed
      BY <1>1, AtWork
    <3>2. s = "place" => There(x).kind = "absent"
      BY <2>2, SeenAt DEF There, Site
    <3>3. Ready(x)'
      BY <1>1, <2>1, <2>3, <2>4, <2>8, <3>1, <3>2 DEF Ready, MayGo
    <3>4. x = "apply" => Agreed'
      BY <1>1, <2>1, <2>8, <3>1 DEF Agreed, Entry
    <3> QED BY <3>3, <3>4
  <2>12. \A b \in kept : Somewhere(b) => Somewhere(b)'
    <3>1. \A p \in Paths : fs[p].kind = "file" => fs'[p] = fs[p]
      BY <2>5, <2>6, Made
    <3> QED BY <2>1, <3>1 DEF Somewhere
  <2>13. \A y \in Procs : y # x => pc'[y] = pc[y] /\ job'[y] = job[y]
    BY <2>1, <2>2 DEF Shape
  <2>14. /\ \A q \in Paths : q \notin {Site(x), IF x = "apply" THEN Dir ELSE job["adopt"].source} => fs'[q] = fs[q]
         /\ \A q \in Paths : q # Site(x) => bak'[q] = bak[q]
    <3>1. x = "adopt" => fs' = fs
      BY <1>1, <2>5, AtWork
    <3> QED BY <2>1, <2>2, <2>6, <3>1
  <2> QED BY <1>1, <2>1, <2>7, <2>9, <2>10, <2>11, <2>12, <2>13, <2>14, Closes
<1> QED BY <1>2, <1>3

\* A link that is being put into Dir finds it there.
LEMMA PlaceOfChild ==
    ASSUME IInv, NEW x \in Procs, pc[x] \in {"place", "swap"}, Site(x) = Child
    PROVE  fs[Dir].kind = "dir"
<1>1. Busy(x)
  BY DEF Busy, ApplyWork, AdoptWork, Work, Procs
<1>2. Layout /\ Procs = {"apply", "adopt"} /\ job[x].target \in Paths /\ SrcChild # Child
  BY <1>1, AtWork, PathsAssumption DEF Paths
<1>3. x = "apply" /\ Applying /\ IsLink(Entry) /\ job[x].target = Entry.target
  BY <1>1, <1>2, AtWork DEF Applying
<1>4. job[x].target = Child /\ fs[Dir] # Link(SrcDir)
  BY <1>2, RealPath DEF Site, Real
<1>5. fs[Dir].kind \in {"dir", "link"}
  BY <1>3, <1>4 DEF Applying, ApplyWork, Work
<1> QED BY <1>2, <1>4, <1>5 DEF Layout, TreeOf

\* A link is renamed to a place where nothing is any more.
LEMMA LinkArrives ==
    ASSUME IInv, NEW x \in Procs, pc[x] \in {"place", "swap"}, raced' = (raced \/ Overlap'),
           At(job[x].target).kind \notin {"dir", "notdir"},
           fs' = With(fs, Real(job[x].target), Link(job[x].source)),
           NEW s \in {"perm", "record", "drop"}, pc' = [pc EXCEPT ![x] = s],
           s # "drop" => s = After(x),
           s = "drop" => pc[x] = "swap" /\ ~job[x].backup,
           UNCHANGED <<bak, spec, job, run, used, kept, settled>>
    PROVE  IInv'
<1> DEFINE j == job[x]
           n == Link(j.source)
<1>1. Busy(x)
  BY DEF Busy, ApplyWork, AdoptWork, Work, Procs
<1>2. /\ Procs = {"apply", "adopt"} /\ Shape /\ Layout /\ j \in Jobs /\ j.target \in Targets /\ j.target \in Paths
      /\ Site(x) \in Paths /\ Site(x) # Dir /\ j.target # Dir /\ Dir \in Paths /\ Child \in Paths /\ Dir # Child
      /\ There(x) \in Nodes /\ j.source \in Paths /\ SrcChild \in Paths /\ SrcChild # Child
  BY <1>1, AtWork, PathsAssumption DEF Paths
<1>3. n \in Nodes /\ n.kind = "link"
  BY <1>2, Made
<1> HIDE DEF n
<1>4. fs' = [q \in Paths |-> IF q = Site(x) THEN n ELSE fs[q]]
  <2>1. fs' = With(fs, Site(x), n)
    BY DEF Site, n
  <2>2. n.kind # "dir" /\ Site(x) \in Paths
    BY <1>2, <1>3
  <2> QED BY <2>1, <2>2 DEF With
<1>5. Site(x) = Child => fs[Dir].kind = "dir"
  BY PlaceOfChild
<1>6. Layout'
  BY <1>2, <1>3, <1>4, <1>5, TreePut DEF Layout, Backups
<1>7. pc' \in [Procs -> Steps] /\ pc'[x] = s /\ s \in Steps
  BY <1>2 DEF Shape, Steps, ApplyWork, Work
<1>8. Shape'
  BY <1>2, <1>6, <1>7 DEF Shape
<1>9. x = "apply" => Applying'
  <2> SUFFICES ASSUME x = "apply" PROVE Applying'
    OBVIOUS
  <2>1. Applying /\ IsLink(Entry) /\ Entry' = Entry /\ s \in {"perm", "drop"} /\ run.at \in DOMAIN spec
    BY <1>1, AtWork DEF Applying, Entry, After
  <2> QED BY <1>7, <2>1 DEF Applying, ApplyWork, Work, IsLink
<1>10. x = "adopt" => Adopting' /\ run' = run
  <2>1. Adopting /\ (x = "adopt" => s \in {"record", "drop"})
    BY <1>1, AtWork DEF After
  <2> QED BY <1>7, <2>1 DEF Adopting, AdoptWork, Work
<1>11. Site(x)' = Site(x)
  BY <1>2, <1>4 DEF Site, Real
<1>12. ~raced => Ready(x)' /\ (x = "apply" => Agreed') /\ There(x).kind = "absent"
  <2> SUFFICES ASSUME ~raced PROVE Ready(x)' /\ (x = "apply" => Agreed') /\ There(x).kind = "absent"
    OBVIOUS
  <2>1. Ready(x)
    BY <1>1, AtWork
  <2>2. Ready(x)'
    BY <1>7, <1>11, <2>1 DEF Ready, MayGo, Parked
  <2>3. x = "apply" => Agreed'
    BY <1>7 DEF Agreed
  <2> QED BY <2>1, <2>2, <2>3 DEF Ready
<1>13. ASSUME ~raced PROVE \A b \in kept : Somewhere(b) => Somewhere(b)'
  <2>1. \A p \in Paths : fs[p].kind = "file" => fs'[p] = fs[p]
    BY <1>4, <1>12, <1>13 DEF There
  <2> QED BY <2>1 DEF Somewhere
<1>14. \A y \in Procs : y # x => pc'[y] = pc[y] /\ job'[y] = job[y]
  BY <1>2 DEF Shape
<1>15. /\ \A q \in Paths : q \notin {Site(x), IF x = "apply" THEN Dir ELSE job["adopt"].source} => fs'[q] = fs[q]
       /\ \A q \in Paths : q # Site(x) => bak'[q] = bak[q]
  BY <1>4
<1> QED BY <1>1, <1>8, <1>9, <1>10, <1>12, <1>13, <1>14, <1>15, Closes

LEMMA PlaceKeeps ==
    ASSUME IInv, NEW x \in Procs, Place(x), raced' = (raced \/ Overlap')
    PROVE  IInv'
<1>1. Busy(x) /\ pc[x] = "place"
  BY DEF Place, Busy, ApplyWork, AdoptWork, Work, Procs
<1>2. CASE At(job[x].target).kind \in {"dir", "notdir"}
  BY <1>1, <1>2, FailsKeeps DEF Place
<1>3. CASE At(job[x].target).kind \notin {"dir", "notdir"}
  BY <1>1, <1>3, LinkArrives DEF Place, Go, After
<1> QED BY <1>2, <1>3

LEMMA SwapKeeps ==
    ASSUME IInv, NEW x \in Procs, Swap(x), raced' = (raced \/ Overlap')
    PROVE  IInv'
<1>1. Busy(x) /\ pc[x] = "swap"
  BY DEF Swap, Busy, ApplyWork, AdoptWork, Work, Procs
<1>2. CASE At(job[x].target).kind \in {"dir", "notdir"}
  BY <1>1, <1>2, FailsKeeps DEF Swap
<1>3. CASE At(job[x].target).kind \notin {"dir", "notdir"} /\ job[x].backup
  BY <1>1, <1>3, LinkArrives DEF Swap, Go, After
<1>4. CASE At(job[x].target).kind \notin {"dir", "notdir"} /\ ~job[x].backup
  BY <1>1, <1>4, LinkArrives DEF Swap, Go
<1> QED BY <1>2, <1>3, <1>4

\* The backup name is chosen among those that are free, and nobody takes it before.
LEMMA NameKeeps ==
    ASSUME IInv, NEW x \in Procs, Name(x), raced' = (raced \/ Overlap')
    PROVE  IInv'
<1> DEFINE j == job[x]
           k == FirstFree(j.target)
<1>1. Busy(x) /\ pc[x] = "name"
  BY DEF Name, Busy, ApplyWork, AdoptWork, Work, Procs
<1>2. /\ Procs = {"apply", "adopt"} /\ Shape /\ Layout /\ j \in Jobs /\ j.target \in Targets /\ Site(x) \in Paths
  BY <1>1, AtWork
<1>3. k \in 1..Slots /\ bak[Site(x)][k] = Absent
  <2> DEFINE F == FreeSlots(j.target)
  <2>1. F # {} /\ F \subseteq 1..Slots /\ F \subseteq Nat
    BY BoundsAssumption DEF Name, FreeSlots
  <2>2. \E m \in F : \A l \in F : m <= l
    BY <2>1, SmallestOf
  <2>3. k \in F
    BY <2>2 DEF FirstFree
  <2> QED BY <2>1, <2>3 DEF FreeSlots, Site
<1> HIDE DEF k
<1>4. /\ job' = [job EXCEPT ![x].slot = k] /\ pc' = [pc EXCEPT ![x] = "park"]
      /\ UNCHANGED <<fs, bak, spec, run, used, kept, settled>>
  BY DEF Name, Go, ghosts, k
<1>5. /\ job'[x].target = j.target /\ job'[x].source = j.source /\ job'[x].slot = k
      /\ job'[x].backup = j.backup /\ job'[x] \in Jobs
  BY <1>2, <1>3, <1>4 DEF Shape, Jobs
<1>6. job' \in [Procs -> Jobs] /\ pc' \in [Procs -> Steps] /\ pc'[x] = "park"
  BY <1>2, <1>4, <1>5 DEF Shape, Steps, ApplyWork, Work
<1>7. Shape'
  BY <1>2, <1>4, <1>6 DEF Shape, Layout, TreeOf, Backups
<1>8. x = "apply" => Applying'
  <2>1. Applying /\ Entry' = Entry /\ (x = "apply" => run.at \in DOMAIN spec)
    BY <1>1, <1>4, AtWork DEF Entry
  <2> QED BY <1>1, <1>3, <1>4, <1>5, <1>6, <2>1 DEF Applying, ApplyWork, Work, IsLink
<1>9. x = "adopt" => Adopting' /\ run' = run
  <2>1. Adopting
    BY <1>1, AtWork
  <2> QED BY <1>1, <1>3, <1>4, <1>5, <1>6, <2>1 DEF Adopting, AdoptWork, Work
<1>10. Site(x)' = Site(x) /\ There(x)' = There(x) /\ Parked(x)' = Absent
  BY <1>3, <1>4, <1>5 DEF Site, Real, There, Parked
<1>11. ~raced => Ready(x)' /\ (x = "apply" => Agreed')
  <2> SUFFICES ASSUME ~raced PROVE Ready(x)' /\ (x = "apply" => Agreed')
    OBVIOUS
  <2>1. Ready(x) /\ Agreed
    BY <1>1, AtWork
  <2>2. Ready(x)'
    BY <1>1, <1>3, <1>4, <1>5, <1>6, <1>10, <2>1 DEF Ready, MayGo
  <2>3. x = "apply" => Agreed'
    BY <1>1, <1>4, <1>10, <2>1 DEF Agreed, Entry
  <2> QED BY <2>2, <2>3
<1>12. \A b \in kept : Somewhere(b) => Somewhere(b)'
  BY <1>4 DEF Somewhere
<1>13. \A y \in Procs : y # x => pc'[y] = pc[y] /\ job'[y] = job[y]
  BY <1>2, <1>4 DEF Shape
<1> QED BY <1>1, <1>4, <1>7, <1>8, <1>9, <1>11, <1>12, <1>13, Closes

\* The target goes to its backup name, which is still free.
LEMMA ParkKeeps ==
    ASSUME IInv, NEW x \in Procs, Park(x), raced' = (raced \/ Overlap')
    PROVE  IInv'
<1> DEFINE j == job[x]
           k == j.slot
           s == IF x = "adopt" THEN "swap" ELSE Content(Entry)
<1>1. Busy(x) /\ pc[x] = "park"
  BY DEF Park, Busy, ApplyWork, AdoptWork, Work, Procs
<1>2. /\ Procs = {"apply", "adopt"} /\ Shape /\ Layout /\ j \in Jobs /\ j.target \in Targets /\ j.target \in Paths
      /\ Site(x) \in Paths /\ There(x) \in Nodes /\ Dir \in Paths /\ Child \in Paths /\ Dir # Child
      /\ (j.target = Dir <=> Site(x) = Dir) /\ k \in 1..Slots
  BY <1>1, AtWork, PathsAssumption DEF Paths
<1>3. CASE At(j.target).kind \in {"absent", "notdir"}
  BY <1>1, <1>3, FailsKeeps DEF Park
<1>4. CASE At(j.target).kind \notin {"absent", "notdir"}
  <2>1. /\ bak' = [bak EXCEPT ![Site(x)][k] = Whole(j.target)] /\ fs' = Without(j.target)
        /\ pc' = [pc EXCEPT ![x] = s]
        /\ UNCHANGED <<job, run, spec, locked, used, kept, quiet, settled, foreseen>>
    BY <1>4 DEF Park, Go, Site
  <2>2. At(j.target) = There(x)
    BY <1>2, <1>4, SeenAt DEF There, Site
  <2>3. Site(x) = Dir => There(x).kind \in {"file", "link"}
    <3>1. x = "adopt" => Site(x) # Dir
      BY <1>1, <1>2, AtWork
    <3>2. x = "apply" => Applying /\ j.target = Entry.target
      BY <1>1, AtWork
    <3> QED BY <1>1, <1>2, <3>1, <3>2 DEF Applying, ApplyWork, Work, There
  <2>4. There(x).kind # "dir"
    BY <1>2, <2>3 DEF Layout, TreeOf, There
  <2>5. Whole(j.target) = There(x) /\ fs' = [q \in Paths |-> IF q = Site(x) THEN Absent ELSE fs[q]]
    <3>1. j.target = Dir => fs[Dir].kind # "dir"
      BY <1>2, <2>4 DEF There
    <3> QED BY <1>2, <2>1, <2>2, <3>1, WithoutIs DEF Whole, Site
  <2>6. TreeOf'
    <3>1. Site(x) = Dir => fs[Child] = Absent
      BY <1>2, <2>4 DEF There, Layout, TreeOf
    <3> QED BY <1>2, <2>5, <3>1, Made, TreePut DEF Layout
  <2>7. s \in {"swap", "write", "mkdir"} /\ (x = "apply" => s = Content(Entry))
    BY <1>2 DEF Content
  <2>8. pc' \in [Procs -> Steps] /\ pc'[x] = s
    BY <1>2, <2>1, <2>7 DEF Shape, Steps, ApplyWork, Work
  <2>9. Site(x)' = Site(x) /\ There(x)' = Absent
    <3>1. Site(x)' = Site(x)
      <4>1. fs'[Dir] = fs[Dir] \/ (fs'[Dir] = Absent /\ Site(x) = Dir)
        BY <1>2, <2>5
      <4>2. CASE fs'[Dir] = fs[Dir]
        BY <2>1, <4>2 DEF Site, Real
      <4>3. CASE Site(x) = Dir
        BY <1>2, <2>1, <4>3 DEF Site, Real
      <4> QED BY <4>1, <4>2, <4>3
    <3> QED BY <1>2, <2>5, <3>1 DEF There
  <2>10. x = "apply" => Applying'
    <3> SUFFICES ASSUME x = "apply" PROVE Applying'
      OBVIOUS
    <3>1. /\ Applying /\ Entry' = Entry /\ run.at \in DOMAIN spec /\ j.target = Entry.target
          /\ Entry \in Entries
      BY <1>1, <1>2, <2>1, AtWork, EntryIs DEF Entry
    <3>2. /\ s = "swap" => IsLink(Entry)
          /\ s = "write" => Entry.kind = "template"
          /\ s = "mkdir" => Entry.kind = "dir"
      BY <2>7, <3>1 DEF Content, Entries, Kinds, IsLink
    <3>3. IsLink(Entry) /\ Entry.target = Child => fs'[Dir].kind \in {"dir", "link"}
      BY <1>1, <1>2, <2>5, <3>1 DEF Applying, ApplyWork, Work
    <3> QED BY <1>1, <2>1, <2>7, <2>8, <3>1, <3>2, <3>3 DEF Applying, ApplyWork, Work, IsLink
  <2>11. x = "adopt" => Adopting' /\ run' = run
    <3>1. Adopting
      BY <1>1, AtWork
    <3> QED BY <1>1, <2>1, <2>8, <3>1 DEF Adopting, AdoptWork, Work
  <2> HIDE DEF k
  <2>12. /\ Backups' /\ bak'[Site(x)][k] = There(x)
         /\ \A q \in Paths : \A l \in 1..Slots : (q = Site(x) /\ l = k) \/ bak'[q][l] = bak[q][l]
         /\ \A q \in Paths : q # Site(x) => bak'[q] = bak[q]
    <3>1. bak' = [bak EXCEPT ![Site(x)][k] = There(x)]
      BY <2>1, <2>5
    <3> QED BY <1>2, <2>4, <3>1 DEF Layout, Backups
  <2>14. Shape'
    BY <1>2, <2>1, <2>6, <2>8, <2>12 DEF Shape, Layout
  <2>15. ASSUME ~raced
         PROVE  Ready(x)' /\ (x = "apply" => Agreed') /\ \A b \in kept : Somewhere(b) => Somewhere(b)'
    <3>1. Ready(x) /\ Parked(x) = Absent
      BY <1>1, <2>15, AtWork DEF Ready
    <3>2. Parked(x)' = There(x)
      BY <2>1, <2>9, <2>12 DEF Parked, k
    <3>3. Ready(x)'
      BY <1>1, <2>1, <2>7, <2>8, <2>9, <3>1, <3>2, Made DEF Ready, MayGo
    <3>4. x = "apply" => Agreed'
      BY <2>7, <2>8 DEF Agreed
    <3>5. \A b \in kept : Somewhere(b) => Somewhere(b)'
      <4> SUFFICES ASSUME NEW b, Somewhere(b) PROVE Somewhere(b)'
        OBVIOUS
      <4>1. CASE \E p \in Paths : fs[p].kind = "file" /\ fs[p].data = b
        <5>1. PICK p \in Paths : fs[p].kind = "file" /\ fs[p].data = b
          BY <4>1
        <5>2. CASE p = Site(x)
          BY <1>2, <2>12, <5>1, <5>2 DEF Somewhere, There
        <5>3. CASE p # Site(x)
          BY <2>5, <5>1, <5>3 DEF Somewhere
        <5> QED BY <5>2, <5>3
      <4>2. CASE \E p \in Paths : \E l \in 1..Slots : bak[p][l].kind = "file" /\ bak[p][l].data = b
        <5>1. PICK p \in Paths, l \in 1..Slots : bak[p][l].kind = "file" /\ bak[p][l].data = b
          BY <4>2
        <5>2. ~(p = Site(x) /\ l = k)
          BY <3>1, <5>1, Made DEF Parked, k
        <5> QED BY <2>12, <5>1, <5>2 DEF Somewhere
      <4> QED BY <4>1, <4>2 DEF Somewhere
    <3> QED BY <3>3, <3>4, <3>5
  <2>16. \A y \in Procs : y # x => pc'[y] = pc[y] /\ job'[y] = job[y]
    BY <1>2, <2>1 DEF Shape
  <2>17. /\ \A q \in Paths : q \notin {Site(x), IF x = "apply" THEN Dir ELSE job["adopt"].source} => fs'[q] = fs[q]
         /\ \A q \in Paths : q # Site(x) => bak'[q] = bak[q]
    BY <2>5, <2>12
  <2> QED BY <1>1, <2>1, <2>10, <2>11, <2>14, <2>15, <2>16, <2>17, Closes
<1> QED BY <1>3, <1>4

\* The rename fails: the parked node comes back, or stays where it is.
LEMMA SwapFailsKeeps ==
    ASSUME IInv, NEW x \in Procs, SwapFails(x), raced' = (raced \/ Overlap')
    PROVE  IInv'
<1> DEFINE j == job[x]
           k == j.slot
           b == bak[Site(x)][k]
<1>1. Busy(x) /\ pc[x] = "swap"
  BY DEF SwapFails, Busy, ApplyWork, AdoptWork, Work, Procs
<1>2. /\ Procs = {"apply", "adopt"} /\ Shape /\ Layout /\ j \in Jobs /\ j.target \in Targets /\ j.target \in Paths
      /\ Site(x) \in Paths /\ Site(x) # Dir /\ Dir \in Paths /\ Child \in Paths /\ Dir # Child
  BY <1>1, AtWork, PathsAssumption DEF Paths
<1>3. /\ Fails(x) /\ Spend("faults") /\ UNCHANGED <<spec, kept, settled>>
      /\ \/ /\ b # Absent /\ At(j.target).kind \in {"absent", "link", "file"}
            /\ fs' = With(fs, Site(x), b) /\ bak' = [bak EXCEPT ![Site(x)][k] = Absent]
         \/ UNCHANGED <<fs, bak>>
  BY DEF SwapFails, Site
<1>4. CASE UNCHANGED <<fs, bak>>
  BY <1>1, <1>3, <1>4, FailsKeeps
<1>5. CASE ~UNCHANGED <<fs, bak>>
  <2>1. /\ b # Absent /\ b \in Nodes /\ b.kind # "dir" /\ k \in 1..Slots
        /\ bak' = [bak EXCEPT ![Site(x)][k] = Absent] /\ fs' = With(fs, Site(x), b)
    BY ZenonT(40), <1>1, <1>2, <1>3, <1>5, AtWork DEF Layout, Backups
  <2> HIDE DEF k, b
  <2>2. fs' = [q \in Paths |-> IF q = Site(x) THEN b ELSE fs[q]]
    BY <2>1, <1>2 DEF With
  <2>3. Site(x) = Child => fs[Dir].kind = "dir"
    BY <1>1, <1>2, PlaceOfChild
  <2>4. TreeOf'
    BY <1>2, <2>1, <2>2, <2>3, TreePut DEF Layout
  <2>5. /\ Backups'
        /\ \A q \in Paths : \A l \in 1..Slots : (q = Site(x) /\ l = k) \/ bak'[q][l] = bak[q][l]
        /\ \A q \in Paths : q # Site(x) => bak'[q] = bak[q]
    BY <1>2, <2>1, Made DEF Layout, Backups
  <2>6. /\ pc' \in [Procs -> Steps] /\ job' \in [Procs -> Jobs] /\ run' \in Runs
        /\ \A y \in Procs : y # x => pc'[y] = pc[y] /\ job'[y] = job[y]
        /\ Ready(x)' /\ (x = "apply" => Applying' /\ Agreed') /\ (x = "adopt" => Adopting' /\ run' = run)
    BY <1>1, <1>3, FailsIs
  <2>7. Shape'
    BY <1>2, <1>3, <2>4, <2>5, <2>6, FaultsCount DEF Shape, Layout
  <2>8. ASSUME ~raced PROVE \A c \in kept : Somewhere(c) => Somewhere(c)'
    <3>1. There(x).kind = "absent"
      BY <1>1, <2>8, AtWork DEF Ready
    <3> SUFFICES ASSUME NEW c, Somewhere(c) PROVE Somewhere(c)'
      OBVIOUS
    <3>2. CASE \E p \in Paths : fs[p].kind = "file" /\ fs[p].data = c
      <4>1. PICK p \in Paths : fs[p].kind = "file" /\ fs[p].data = c
        BY <3>2
      <4>2. p # Site(x)
        BY <3>1, <4>1 DEF There
      <4> QED BY <2>2, <4>1, <4>2 DEF Somewhere
    <3>3. CASE \E p \in Paths : \E l \in 1..Slots : bak[p][l].kind = "file" /\ bak[p][l].data = c
      <4>1. PICK p \in Paths, l \in 1..Slots : bak[p][l].kind = "file" /\ bak[p][l].data = c
        BY <3>3
      <4>2. CASE p = Site(x) /\ l = k
        BY <1>2, <2>2, <4>1, <4>2 DEF Somewhere, b
      <4>3. CASE ~(p = Site(x) /\ l = k)
        BY <2>5, <4>1, <4>3 DEF Somewhere
      <4> QED BY <4>2, <4>3
    <3> QED BY <3>2, <3>3 DEF Somewhere
  <2>9. \A q \in Paths : q \notin {Site(x), IF x = "apply" THEN Dir ELSE job["adopt"].source} => fs'[q] = fs[q]
    BY <2>2
  <2> QED BY <1>1, <1>3, <2>5, <2>6, <2>7, <2>8, <2>9, Closes
<1> QED BY <1>4, <1>5

\* The parked original goes, if nobody wanted it.
LEMMA DropKeeps ==
    ASSUME IInv, NEW x \in Procs, Drop(x), raced' = (raced \/ Overlap')
    PROVE  IInv'
<1> DEFINE j == job[x]
           k == j.slot
<1>1. Busy(x) /\ pc[x] = "drop"
  BY DEF Drop, Busy, ApplyWork, AdoptWork, Work, Procs
<1>2. Procs = {"apply", "adopt"} /\ Shape /\ Layout /\ Site(x) \in Paths /\ k \in 1..Slots
  BY <1>1, AtWork
<1>3. /\ bak' = bak \/ bak' = [bak EXCEPT ![Site(x)][k] = Absent]
      /\ used' = used \/ Spend("faults")
      /\ pc' = [pc EXCEPT ![x] = After(x)] /\ UNCHANGED <<fs, spec, job, run, kept, settled>>
  BY DEF Drop, Go, ghosts, Site
<1> HIDE DEF k
<1>4. /\ Backups'
      /\ \A q \in Paths : \A l \in 1..Slots : (q = Site(x) /\ l = k) \/ bak'[q][l] = bak[q][l]
      /\ \A q \in Paths : q # Site(x) => bak'[q] = bak[q]
  <2>1. CASE bak' = bak
    BY <1>2, <2>1 DEF Layout, Backups
  <2>2. CASE bak' = [bak EXCEPT ![Site(x)][k] = Absent]
    BY <1>2, <2>2, Made DEF Layout, Backups
  <2> QED BY <1>3, <2>1, <2>2
<1>5. pc' \in [Procs -> Steps] /\ pc'[x] = After(x) /\ After(x) \in {"perm", "record"}
  BY <1>2, <1>3 DEF Shape, Steps, After
<1>6. Shape'
  <2>1. used' \in [{"runs", "adopts", "faults", "edits"} -> Nat]
    BY <1>2, <1>3, FaultsCount DEF Shape
  <2> QED BY <1>2, <1>3, <1>4, <1>5, <2>1 DEF Shape, Layout, TreeOf
<1>7. x = "apply" => Applying'
  BY <1>1, <1>3, <1>5, AtWork DEF Applying, ApplyWork, Work, Entry, After
<1>8. x = "adopt" => Adopting' /\ run' = run
  BY <1>3, <1>5 DEF Adopting, AdoptWork, Work, After
<1>9. Ready(x)' /\ (x = "apply" => Agreed')
  BY <1>5 DEF Ready, Agreed
<1>10. ASSUME ~raced PROVE \A b \in kept : Somewhere(b) => Somewhere(b)'
  <2>1. MayGo(x, bak[Site(x)][k])
    BY <1>1, <1>10, AtWork DEF Ready, Parked, k
  <2> SUFFICES ASSUME NEW b \in kept, Somewhere(b) PROVE Somewhere(b)'
    OBVIOUS
  <2>2. CASE \E p \in Paths : fs[p].kind = "file" /\ fs[p].data = b
    BY <1>3, <2>2 DEF Somewhere
  <2>3. CASE \E p \in Paths : \E l \in 1..Slots : bak[p][l].kind = "file" /\ bak[p][l].data = b
    <3>1. PICK p \in Paths, l \in 1..Slots : bak[p][l].kind = "file" /\ bak[p][l].data = b
      BY <2>3
    <3>2. ~(p = Site(x) /\ l = k)
      BY <2>1, <3>1 DEF MayGo
    <3> QED BY <1>4, <3>1, <3>2 DEF Somewhere
  <2> QED BY <2>2, <2>3 DEF Somewhere
<1>11. \A y \in Procs : y # x => pc'[y] = pc[y] /\ job'[y] = job[y]
  BY <1>2, <1>3 DEF Shape
<1> QED BY <1>1, <1>3, <1>4, <1>6, <1>7, <1>8, <1>9, <1>10, <1>11, Closes

-----------------------------------------------------------------------------
(* The steps of RenderTemplate and applyDir.                               *)

\* Apply has what it wants at the target, and nothing kept was there.
LEMMA ContentArrives ==
    ASSUME IInv, pc["apply"] \in {"write", "remove", "mkdir"}, raced' = (raced \/ Overlap'),
           NEW s \in {"perm", "mkdir"}, pc' = [pc EXCEPT !["apply"] = s],
           s = "mkdir" => pc["apply"] = "remove",
           TreeOf', \A q \in Paths : q \notin {Site("apply"), Dir} => fs'[q] = fs[q],
           ~raced => \A q \in Paths : fs[q].kind = "file" /\ fs[q].data \in kept => fs'[q] = fs[q],
           UNCHANGED <<bak, spec, job, run, used, kept, settled>>
    PROVE  IInv'
<1>1. Busy("apply") /\ "apply" \in Procs
  BY DEF Busy, ApplyWork, Procs
<1>2. Procs = {"apply", "adopt"} /\ Shape /\ Layout /\ Applying /\ run.at \in DOMAIN spec
  BY <1>1, AtWork
<1>3. pc' \in [Procs -> Steps] /\ pc'["apply"] = s
  BY <1>2 DEF Shape, Steps, ApplyWork
<1>4. Shape'
  BY <1>2, <1>3 DEF Shape, Layout, Backups
<1>5. Applying'
  BY <1>2, <1>3 DEF Applying, ApplyWork, Work, Entry
<1>6. Ready("apply")' /\ Agreed'
  BY <1>3 DEF Ready, Agreed
<1>7. ~raced => \A b \in kept : Somewhere(b) => Somewhere(b)'
  BY DEF Somewhere
<1>8. \A y \in Procs : y # "apply" => pc'[y] = pc[y] /\ job'[y] = job[y]
  BY <1>2, <1>3 DEF Shape
<1> QED BY <1>1, <1>4, <1>5, <1>6, <1>7, <1>8, Closes

LEMMA WriteKeeps == ASSUME IInv, Write, raced' = (raced \/ Overlap') PROVE IInv'
<1> DEFINE e == Entry
           n == File(fs[e.source].data, fs[e.source].perm)
<1>1. Busy("apply") /\ pc["apply"] = "write" /\ "apply" \in Procs
  BY DEF Write, Busy, ApplyWork, Procs
<1>2. /\ Procs = {"apply", "adopt"} /\ Shape /\ Layout /\ job["apply"].target = e.target
      /\ e.target # Dir /\ Site("apply") \in Paths /\ Site("apply") # Dir /\ e.source \in Paths
      /\ Dir \in Paths /\ Child \in Paths /\ Dir # Child
  <2>1. Applying /\ run.at \in DOMAIN spec /\ Shape
    BY <1>1, AtWork
  <2>2. e.kind = "template"
    BY <1>1, <2>1 DEF Applying, ApplyWork
  <2> QED BY <1>1, <2>1, <2>2, AtWork, EntryIs, PathsAssumption DEF Paths
<1>3. CASE fs[e.source].kind # "file" \/ ~ParentOk(e.target)
  BY <1>1, <1>3, FailsKeeps DEF Write, ghosts
<1>4. CASE fs[e.source].kind = "file" /\ ParentOk(e.target)
  <2>1. /\ fs' = With(WithParent(e.target), Site("apply"), n) /\ pc' = [pc EXCEPT !["apply"] = "perm"]
        /\ UNCHANGED <<bak, spec, job, run, used, kept, settled>>
    BY <1>2, <1>4 DEF Write, Go, ghosts, Site
  <2>2. n \in Nodes /\ n.kind = "file"
    BY <1>2, <1>4, NodeKinds, Made DEF Layout, TreeOf
  <2> HIDE DEF n
  <2>3. fs' = [q \in Paths |-> IF q = Site("apply") THEN n ELSE WithParent(e.target)[q]]
    BY <1>2, <2>1, <2>2 DEF With
  <2>4. WithParent(e.target) = fs \/ (/\ e.target = Child /\ fs[Dir] = Absent
                                      /\ WithParent(e.target) = [fs EXCEPT ![Dir] = Plain(Absent, TRUE)])
    BY DEF WithParent
  <2>5. TreeOf'
    <3>1. CASE WithParent(e.target) = fs
      <4>1. Site("apply") = Child => fs[Dir].kind = "dir"
        <5> SUFFICES ASSUME Site("apply") = Child PROVE fs[Dir].kind = "dir"
          OBVIOUS
        <5>1. e.target = Child /\ fs[Dir] # Link(SrcDir)
          BY <1>1, <1>2, <2>1, AtWork, RealPath, PathsAssumption DEF Site, Real, Paths
        <5>2. fs[Dir].kind # "file" /\ fs[Dir] # Absent
          <6>1. fs[Dir] # Absent
            <7> SUFFICES ASSUME fs[Dir] = Absent PROVE FALSE
              OBVIOUS
            <7>1. fs = [fs EXCEPT ![Dir] = Plain(Absent, TRUE)]
              BY <3>1, <5>1 DEF WithParent
            <7>2. fs[Dir] = Plain(Absent, TRUE)
              BY <1>2, <7>1 DEF Layout, TreeOf
            <7> QED BY <7>2, Made
          <6> QED BY <1>4, <5>1, <6>1 DEF ParentOk
        <5> QED BY <1>2, <5>1, <5>2, NodeKinds DEF Layout, TreeOf
      <4> QED BY <1>2, <2>2, <2>3, <3>1, <4>1, TreePut DEF Layout
    <3>2. CASE /\ e.target = Child /\ fs[Dir] = Absent
               /\ WithParent(e.target) = [fs EXCEPT ![Dir] = Plain(Absent, TRUE)]
      <4>1. Plain(Absent, TRUE) \in Nodes /\ Plain(Absent, TRUE).kind = "dir"
        BY Made
      <4>2. fs' = [q \in Paths |-> IF q = Site("apply") THEN n ELSE IF q = Dir THEN Plain(Absent, TRUE) ELSE fs[q]]
        BY <1>2, <2>3, <3>2 DEF Layout, TreeOf
      <4> QED BY <1>2, <2>2, <4>1, <4>2 DEF Layout, TreeOf
    <3> QED BY <2>4, <3>1, <3>2
  <2>6. \A q \in Paths : q \notin {Site("apply"), Dir} => fs'[q] = fs[q]
    BY <1>2, <2>3, <2>4 DEF Layout, TreeOf
  <2>7. ASSUME ~raced PROVE \A q \in Paths : fs[q].kind = "file" /\ fs[q].data \in kept => fs'[q] = fs[q]
    <3>1. MayGo("apply", There("apply"))
      BY <1>1, <2>7, AtWork DEF Ready
    <3>2. fs[Dir].kind = "file" => fs'[Dir] = fs[Dir]
      BY <1>2, <2>3, <2>4, Made DEF Layout, TreeOf
    <3> QED BY <2>6, <3>1, <3>2 DEF MayGo, There
  <2> QED BY <1>1, <2>1, <2>5, <2>6, <2>7, ContentArrives
<1> QED BY <1>3, <1>4

LEMMA RemoveKeeps == ASSUME IInv, RemoveTarget, raced' = (raced \/ Overlap') PROVE IInv'
<1>1. Busy("apply") /\ pc["apply"] = "remove" /\ "apply" \in Procs
  BY DEF RemoveTarget, Busy, ApplyWork, Procs
<1>2. /\ Shape /\ Layout /\ Dir \in Paths /\ Child \in Paths /\ Dir # Child
      /\ Entry.target = Dir /\ Site("apply") = Dir /\ fs[Dir].kind \in {"file", "link"}
  <2>1. Applying /\ run.at \in DOMAIN spec /\ Shape
    BY <1>1, AtWork
  <2>2. Entry.kind = "dir" /\ Entry.target = Dir
    BY <1>1, <2>1, EntryIs DEF Applying, ApplyWork
  <2> QED BY <1>1, <2>1, <2>2, AtWork, PathsAssumption DEF Paths, Applying, ApplyWork
<1>3. fs' = [q \in Paths |-> IF q = Dir THEN Absent ELSE fs[q]]
  BY <1>2, WithoutIs DEF RemoveTarget, Real
<1>4. fs[Child] = Absent
  BY <1>2 DEF Layout, TreeOf
<1>5. TreeOf'
  BY <1>2, <1>3, <1>4, Made, TreePut DEF Layout
<1>6. ~raced => MayGo("apply", fs[Dir])
  BY <1>1, <1>2, AtWork DEF Ready, There
<1>7. ~raced => \A q \in Paths : fs[q].kind = "file" /\ fs[q].data \in kept => fs'[q] = fs[q]
  BY <1>3, <1>6 DEF MayGo
<1> QED BY <1>1, <1>2, <1>3, <1>5, <1>7, ContentArrives DEF RemoveTarget, Go, ghosts

LEMMA MakeDirKeeps == ASSUME IInv, MakeDir, raced' = (raced \/ Overlap') PROVE IInv'
<1> DEFINE n == Plain(Absent, ~Entry.perm)
<1>1. Busy("apply") /\ pc["apply"] = "mkdir" /\ "apply" \in Procs
  BY DEF MakeDir, Busy, ApplyWork, Procs
<1>2. /\ Shape /\ Layout /\ Dir \in Paths /\ Child \in Paths /\ Dir # Child
      /\ Entry.target = Dir /\ Site("apply") = Dir /\ At(Dir) = fs[Dir] /\ Entry \in Entries
  <2>1. Applying /\ run.at \in DOMAIN spec /\ Shape
    BY <1>1, AtWork
  <2>2. Entry.kind = "dir" /\ Entry.target = Dir /\ Entry \in Entries
    BY <1>1, <2>1, EntryIs DEF Applying, ApplyWork
  <2> QED BY <1>1, <2>1, <2>2, AtWork, PathsAssumption DEF Paths, At, Real
<1>3. CASE fs[Dir].kind \in {"file", "link"}
  BY <1>1, <1>2, <1>3, FailsKeeps DEF MakeDir, ghosts
<1>4. CASE fs[Dir].kind = "dir"
  <2>1. fs' = fs /\ pc' = [pc EXCEPT !["apply"] = "perm"] /\ UNCHANGED <<bak, spec, job, run, used, kept, settled>>
    BY <1>2, <1>4 DEF MakeDir, Go, ghosts
  <2>2. TreeOf'
    BY <1>2, <2>1 DEF Layout, TreeOf
  <2> QED BY <1>1, <2>1, <2>2, ContentArrives
<1>5. CASE fs[Dir].kind = "absent"
  <2>1. fs' = With(fs, Dir, n) /\ pc' = [pc EXCEPT !["apply"] = "perm"] /\ UNCHANGED <<bak, spec, job, run, used, kept, settled>>
    BY <1>2, <1>5 DEF MakeDir, Go, ghosts
  <2>2. n \in Nodes /\ n.kind = "dir" /\ n.inside = Absent /\ n.perm = ~Entry.perm /\ fs[Child] = Absent
    <3>1. (~Entry.perm) \in BOOLEAN
      OBVIOUS
    <3>2. n \in Nodes /\ n.kind = "dir" /\ n.inside = Absent
      BY <3>1, Made
    <3>3. n.perm = ~Entry.perm
      BY DEF Plain
    <3>4. fs[Child] = Absent
      BY <1>2, <1>5 DEF Layout, TreeOf
    <3> QED BY <3>2, <3>3, <3>4
  <2>3. Plain(Absent, n.perm) = n
    BY <2>2
  <2>4. fs' = [q \in Paths |-> IF q = Dir THEN n ELSE fs[q]]
    BY <1>2, <2>1, <2>2, <2>3 DEF With
  <2> HIDE DEF n
  <2>5. TreeOf'
    BY <1>2, <2>2, <2>4, TreePut DEF Layout
  <2> QED BY <1>1, <1>2, <1>5, <2>1, <2>4, <2>5, ContentArrives
<1>6. fs[Dir].kind \in {"absent", "file", "link", "dir"}
  BY <1>2, NodeKinds DEF Layout, TreeOf
<1> QED BY <1>3, <1>4, <1>5, <1>6

-----------------------------------------------------------------------------
(* The copy an adoption makes of a target that has no source yet.          *)

LEMMA CopyMoves ==
    ASSUME IInv, pc["adopt"] \in {"seed", "copy"}, raced' = (raced \/ Overlap'),
           NEW s \in {"copy", "stage"}, pc' = [pc EXCEPT !["adopt"] = s],
           NEW d \in Data, s = "copy" => d.ver = 0,
           fs' = [fs EXCEPT ![job["adopt"].source] = File(d, TRUE)],
           UNCHANGED <<bak, spec, job, run, used, kept, settled>>
    PROVE  IInv'
<1> DEFINE j == job["adopt"]
           n == File(d, TRUE)
<1>1. Busy("adopt") /\ "adopt" \in Procs
  BY DEF Busy, AdoptWork, Procs
<1>2. /\ Procs = {"apply", "adopt"} /\ Shape /\ Layout /\ Adopting /\ j.source \in Sources /\ j.source \in Paths
      /\ j.source # SrcChild /\ j.source \notin {Dir, Child} /\ Site("adopt") = j.target /\ j.target \in Targets
      /\ j.target # Child /\ Dir \in Paths /\ Child \in Paths
  BY <1>1, AtWork, PathsAssumption DEF Paths, Adopting, Busy
<1>3. n \in Nodes /\ n.kind = "file" /\ n.data = d
  BY Made
<1> HIDE DEF n
<1>4. fs' = [q \in Paths |-> IF q = j.source THEN n ELSE fs[q]]
  BY <1>2 DEF n, Layout, TreeOf
<1>5. TreeOf'
  BY <1>2, <1>3, <1>4, TreePut DEF Layout
<1>6. pc' \in [Procs -> Steps] /\ pc'["adopt"] = s
  BY <1>2 DEF Shape, Steps, AdoptWork, Work
<1>7. Shape'
  BY <1>2, <1>5, <1>6 DEF Shape, Layout, Backups
<1>8. Adopting'
  BY <1>1, <1>2, <1>3, <1>4, <1>6 DEF Adopting, AdoptWork, Work, Busy
<1>9. ~raced => Ready("adopt")'
  <2> SUFFICES ASSUME ~raced PROVE Ready("adopt")'
    OBVIOUS
  <2>1. Ready("adopt")
    BY <1>1, AtWork
  <2> QED BY <1>6, <2>1 DEF Ready
<1>10. \A b \in kept : Somewhere(b) => Somewhere(b)'
  <2>1. fs[j.source].kind = "file" => fs[j.source].data.ver = 0
    BY <1>2, Made DEF Adopting, AdoptWork
  <2>2. \A q \in Paths : fs[q].kind = "file" /\ fs[q].data \in kept => fs'[q] = fs[q]
    <3> SUFFICES ASSUME NEW q \in Paths, fs[q].kind = "file", fs[q].data \in kept PROVE q # j.source
      BY <1>4
    <3>1. fs[q].data.ver # 0
      BY <1>2 DEF Shape
    <3> QED BY <2>1, <3>1
  <2> QED BY <2>2 DEF Somewhere
<1>11. \A y \in Procs : y # "adopt" => pc'[y] = pc[y] /\ job'[y] = job[y]
  BY <1>2, <1>6 DEF Shape
<1>12. /\ \A q \in Paths : q \notin {Site("adopt"), j.source} => fs'[q] = fs[q]
       /\ \A q \in Paths : q # Site("adopt") => bak'[q] = bak[q]
  BY <1>4
<1> QED BY <1>1, <1>7, <1>8, <1>9, <1>10, <1>11, <1>12, Closes

LEMMA SeedKeeps == ASSUME IInv, Seed, raced' = (raced \/ Overlap') PROVE IInv'
<1>1. job["adopt"].source \in Paths
  BY Sites DEF IInv, Paths, Procs
<1>2. Torn(job["adopt"].source) \in Data /\ Torn(job["adopt"].source).ver = 0
  BY <1>1 DEF Torn, Bytes, Data
<1> QED BY <1>2, CopyMoves DEF Seed, Go, ghosts

LEMMA CopyKeeps == ASSUME IInv, Copy, raced' = (raced \/ Overlap') PROVE IInv'
<1>1. job["adopt"].data \in Data
  BY DEF IInv, Shape, Jobs, Procs
<1> QED BY <1>1, CopyMoves DEF Copy, Go, ghosts

-----------------------------------------------------------------------------
(* Steps that change no bytes.                                             *)

\* A process that leaves the disk and its place as they are.
LEMMA Bystander ==
    ASSUME IInv, NEW x \in Procs, Ready(x), pc'[x] = pc[x], job'[x] = job[x],
           \A q \in Paths : /\ fs'[q].kind = fs[q].kind
                            /\ fs[q].kind # "file" => fs'[q] = fs[q]
                            /\ fs[q].kind = "file" => fs'[q].data = fs[q].data,
           (fs'[Dir] = Link(SrcDir)) <=> (fs[Dir] = Link(SrcDir)),
           bak' = bak, x = "apply" => kept' \subseteq kept
    PROVE  Ready(x)' /\ Site(x)' = Site(x)
<1>1. Site(x)' = Site(x)
  BY DEF Site, Real
<1>2. Site(x) \in Paths
  BY Sites DEF IInv
<1>3. /\ There(x)'.kind = There(x).kind
      /\ There(x).kind = "file" => There(x)'.data = There(x).data
      /\ Parked(x)' = Parked(x)
  BY <1>1, <1>2 DEF There, Parked
<1>4. /\ MayGo(x, There(x)) => MayGo(x, There(x))'
      /\ MayGo(x, Parked(x)) => MayGo(x, Parked(x))'
  <2>1. CASE x = "adopt"
    BY <1>3, <2>1 DEF MayGo
  <2>2. CASE x = "apply"
    BY <1>3, <2>2 DEF MayGo
  <2> QED BY <2>1, <2>2 DEF Procs
<1>5. Ready(x)'
  BY <1>3, <1>4 DEF Ready
<1> QED BY <1>1, <1>5

LEMMA ApplyAlone ==
    ASSUME IInv, UNCHANGED <<fs, bak, spec, run, kept>>, pc'["apply"] = pc["apply"], job'["apply"] = job["apply"]
    PROVE  Applying' /\ (~raced => Ready("apply")' /\ Agreed')
<1>1. Applying'
  BY DEF IInv, Applying, Entry
<1>2. ASSUME ~raced PROVE Ready("apply")' /\ Agreed'
  <2>1. Ready("apply") /\ Agreed /\ "apply" \in Procs
    BY <1>2 DEF IInv, Procs
  <2>2. Ready("apply")' /\ Site("apply")' = Site("apply")
    BY <2>1, Bystander
  <2> QED BY <2>1, <2>2 DEF Agreed, There, Entry
<1> QED BY <1>1, <1>2

LEMMA AdoptAlone ==
    ASSUME IInv, UNCHANGED <<fs, bak>>, pc'["adopt"] = pc["adopt"], job'["adopt"] = job["adopt"]
    PROVE  Adopting' /\ (~raced => Ready("adopt")')
<1>1. Adopting'
  BY DEF IInv, Adopting
<1>2. ASSUME ~raced PROVE Ready("adopt")'
  <2>1. Ready("adopt") /\ "adopt" \in Procs
    BY <1>2 DEF IInv, Procs
  <2> QED BY <2>1, Bystander
<1> QED BY <1>1, <1>2

\* A step that leaves the disk alone, and wants nothing more kept.
LEMMA Aside ==
    ASSUME IInv, raced' = (raced \/ Overlap'), Shape', Applying', Adopting',
           fs' = fs, bak' = bak, kept' \subseteq kept,
           ~raced => Ready("apply")' /\ Ready("adopt")' /\ Agreed'
    PROVE  IInv'
<1>1. OnDisk' = OnDisk
  BY DEF OnDisk, OnPaths
<1>2. ~raced => (kept \subseteq OnDisk)'
  BY <1>1 DEF IInv
<1> QED BY <1>2, Assembled

\* What apply decides for an entry, and why.
LEMMA Verdicts ==
    ASSUME Shape, run.at \in DOMAIN spec
    PROVE  LET e == Entry  v == Verdict(e)  n == fs[Real(e.target)] IN
           /\ v \in {"create", "keep", "replace", "mismatch", "error"}
           /\ v = "create" => n.kind = "absent"
           /\ v = "replace" => n.kind \in {"file", "link"} /\ At(e.target) = n
           /\ v = "replace" /\ n.kind = "file" => run.opts.force \/ e.backup
<1> DEFINE e == Entry
           a == At(e.target)
           n == fs[Real(e.target)]
<1>1. /\ e.kind \in Kinds /\ Layout /\ e.target \in Paths /\ Real(e.target) \in Paths
      /\ (e.kind = "dir" <=> e.target = Dir) /\ (Real(e.target) = Dir => e.target = Dir)
  BY EntryIs, RealPath, PathsAssumption DEF Shape, Entries
<1>2. /\ a.kind \in {"absent", "file", "link", "dir", "notdir"}
      /\ a.kind \in {"absent", "file", "link", "dir"} => a = n
      /\ n.kind = "dir" => e.kind = "dir"
  <2>1. n.kind = "dir" => Real(e.target) = Dir
    BY <1>1 DEF Layout, TreeOf
  <2> QED BY <1>1, <2>1, SeenAt
<1>3. CASE IsLink(e)
  <2>1. Verdict(e) = LinkVerdict(e) /\ e.kind # "dir"
    BY <1>3 DEF Verdict, IsLink
  <2> QED BY <1>2, <2>1 DEF LinkVerdict
<1>4. CASE e.kind = "template"
  <2>1. Verdict(e) = TemplateVerdict(e)
    BY <1>4 DEF Verdict, IsLink
  <2> QED BY <1>2, <1>4, <2>1 DEF TemplateVerdict
<1>5. CASE e.kind = "dir"
  <2>1. Verdict(e) = DirVerdict(e)
    BY <1>5 DEF Verdict, IsLink
  <2>2. a.kind # "notdir"
    <3>1. a = n /\ n \in Nodes
      BY <1>1, <1>5, PathsAssumption DEF At, Layout, TreeOf
    <3> QED BY <3>1, NodeKinds
  <2> QED BY <1>2, <2>1, <2>2 DEF DirVerdict
<1> QED BY <1>1, <1>3, <1>4, <1>5 DEF Kinds, IsLink

-----------------------------------------------------------------------------
(* Apply looks at an entry, and sets its mode.                             *)

LEMMA LookKeeps == ASSUME IInv, Look, raced' = (raced \/ Overlap') PROVE IInv'
<1> DEFINE e == Entry
           v == Verdict(e)
           n == fs[Real(e.target)]
<1>1. /\ pc["apply"] = "look" /\ run.at <= Len(spec) /\ UNCHANGED <<fs, bak, spec, used, settled>>
      /\ Shape /\ Layout /\ Applying /\ Procs = {"apply", "adopt"}
  BY DEF Look, IInv, Shape, Procs
<1>2. run.at \in DOMAIN spec
  <2>1. spec \in Seq(Entries) /\ run.at \in Nat /\ run.at = Len(run.res) + 1 /\ run.res \in Seq(Results)
    BY <1>1, SpecsAssumption DEF Shape, Runs, Applying
  <2> QED BY <1>1, <2>1, LenProperties
<1>3. /\ v \in {"create", "keep", "replace", "mismatch", "error"}
      /\ v = "create" => n.kind = "absent"
      /\ v = "replace" => n.kind \in {"file", "link"} /\ At(e.target) = n
      /\ v = "replace" /\ n.kind = "file" => run.opts.force \/ e.backup
  BY <1>1, <1>2, Verdicts
<1>4. e \in Entries /\ (e.kind = "dir" <=> e.target = Dir)
  BY <1>1, <1>2, EntryIs
<1>5. ASSUME NEW r \in Results, Ends(r), kept' = kept PROVE IInv'
  <2>1. /\ pc' \in [Procs -> Steps] /\ job' \in [Procs -> Jobs] /\ run' \in Runs
        /\ pc'["adopt"] = pc["adopt"] /\ job'["adopt"] = job["adopt"]
        /\ Applying' /\ Ready("apply")' /\ Agreed'
    BY <1>1, <1>2, <1>5, EndsIs
  <2>2. Shape'
    BY <1>1, <1>5, <2>1 DEF Shape, Layout, TreeOf, Backups
  <2> QED BY <1>1, <1>5, <2>1, <2>2, AdoptAlone, Aside
<1>6. ASSUME NEW r \in {"skipped", "updated"}, pc' = [pc EXCEPT !["apply"] = "perm"],
             job' = [job EXCEPT !["apply"] = [NoJob EXCEPT !.next = r]], UNCHANGED <<run, kept>>
      PROVE  IInv'
  <2>1. [NoJob EXCEPT !.next = r] \in Jobs /\ [NoJob EXCEPT !.next = r].next \in Results
    BY NoJobIs DEF Jobs, Results
  <2>2. /\ pc' \in [Procs -> Steps] /\ job' \in [Procs -> Jobs] /\ pc'["apply"] = "perm"
        /\ job'["apply"].next \in Results
        /\ pc'["adopt"] = pc["adopt"] /\ job'["adopt"] = job["adopt"]
    BY <1>1, <1>6, <2>1 DEF Shape, Steps
  <2>3. Applying' /\ Ready("apply")' /\ Agreed'
    BY <1>1, <1>2, <1>6, <2>2 DEF Applying, ApplyWork, Work, Ready, Agreed
  <2>4. Shape'
    BY <1>1, <1>6, <2>2 DEF Shape, Layout, TreeOf, Backups
  <2> QED BY <1>1, <1>6, <2>2, <2>3, <2>4, AdoptAlone, Aside
<1>7. ASSUME v \in {"create", "replace"}, ~run.opts.dry,
             pc' = [pc EXCEPT !["apply"] = First(e, v)],
             job' = [job EXCEPT !["apply"] = [NoJob EXCEPT !.target = e.target, !.source = e.source,
                                                           !.backup = v = "replace" /\ Backs(e),
                                                           !.next = Done(e, v)]],
             kept' = IF Discards(e, v) THEN kept \ Consented(e) ELSE kept, run' = run
      PROVE  IInv'
  <2> DEFINE s == First(e, v)
             j == [NoJob EXCEPT !.target = e.target, !.source = e.source,
                                !.backup = v = "replace" /\ Backs(e), !.next = Done(e, v)]
  <2>1. /\ j \in Jobs /\ j.target = e.target /\ j.source = e.source
        /\ j.backup = (v = "replace" /\ Backs(e)) /\ j.next \in Results
    <3>1. e.target \in Targets /\ e.source \in Sources
      BY <1>4 DEF Entries
    <3>2. Done(e, v) \in Results
      BY DEF Done, Results
    <3>3. (v = "replace" /\ Backs(e)) \in BOOLEAN
      OBVIOUS
    <3> HIDE DEF v
    <3> QED BY <3>1, <3>2, <3>3, NoJobIs DEF Jobs
  <2> HIDE DEF j
  <2>2. /\ s \in {"stage", "name", "write", "remove", "mkdir"}
        /\ s = "stage" => IsLink(e)
        /\ s = "write" => e.kind = "template" /\ (v = "create" \/ ~Backs(e))
        /\ s = "name" => v = "replace" /\ Backs(e) /\ ~IsLink(e)
        /\ s = "remove" => v = "replace" /\ ~Backs(e) /\ e.kind = "dir"
        /\ s = "mkdir" => e.kind = "dir"
    BY <1>4, <1>7 DEF First, Content, IsLink, Entries, Kinds
  <2> HIDE DEF s
  <2>3. /\ pc' \in [Procs -> Steps] /\ job' \in [Procs -> Jobs] /\ pc'["apply"] = s /\ job'["apply"] = j
        /\ pc'["adopt"] = pc["adopt"] /\ job'["adopt"] = job["adopt"]
    BY <1>1, <1>7, <2>1, <2>2 DEF Shape, Steps, ApplyWork, Work, j, s
  <2>4. kept' \subseteq kept
    BY <1>7
  <2>5. Shape'
    BY <1>1, <1>7, <2>3, <2>4 DEF Shape, Layout, TreeOf, Backups
  <2>6. Entry' = e /\ Site("apply")' = Real(e.target) /\ There("apply")' = n
    BY <1>1, <1>7, <2>1, <2>3 DEF Entry, Site, Real, There
  <2>7. Applying'
    <3>1. e.target = Dir => Real(e.target) = Dir
      BY PathsAssumption DEF Real
    <3> QED BY <1>1, <1>2, <1>3, <1>4, <1>7, <2>1, <2>2, <2>3, <2>6, <3>1 DEF Applying, ApplyWork, Work
  <2>8. j.backup \/ (n.kind = "file" => n.data \notin kept')
    <3> SUFFICES ASSUME ~j.backup, n.kind = "file" PROVE n.data \notin kept'
      OBVIOUS
    <3>1. v = "replace" /\ ~Backs(e) /\ At(e.target) = n
      BY <1>3, <1>7, <2>1
    <3> QED BY <1>7, <3>1 DEF Discards, Consented
  <2>9. Ready("apply")'
    <3>1. s \in {"write", "remove"} => ~j.backup
      BY <2>1, <2>2
    <3>2. j.backup \/ MayGo("apply", There("apply"))'
      BY <2>6, <2>8 DEF MayGo
    <3> QED BY <2>2, <2>3, <3>1, <3>2 DEF Ready
  <2>10. Agreed'
    BY <1>1, <1>3, <1>7, <2>6 DEF Agreed
  <2> QED BY <1>1, <2>3, <2>4, <2>5, <2>7, <2>9, <2>10, AdoptAlone, Aside
<1>8. Done(e, v) \in Results /\ {"error", "skipped", "mismatched"} \subseteq Results
  BY DEF Done, Results
<1>9. CASE ~Visited(e) \/ v = "error"
  BY <1>5, <1>8, <1>9 DEF Look
<1>10. CASE Visited(e) /\ v = "mismatch"
  BY <1>5, <1>8, <1>10 DEF Look
<1>11. CASE Visited(e) /\ v = "keep"
  BY <1>6, <1>11 DEF Look
<1>12. CASE Visited(e) /\ v \in {"create", "replace"} /\ run.opts.dry /\ (v = "create" \/ ~IsLink(e))
  BY <1>5, <1>8, <1>12 DEF Look
<1>13. CASE Visited(e) /\ v \in {"create", "replace"} /\ run.opts.dry /\ ~(v = "create" \/ ~IsLink(e))
  BY <1>6, <1>13 DEF Look
<1>14. CASE Visited(e) /\ v \in {"create", "replace"} /\ ~run.opts.dry
  <2>1. v # "error" /\ v # "mismatch" /\ v # "keep"
    BY <1>14
  <2> QED BY <1>7, <1>14, <2>1 DEF Look
<1> QED BY <1>3, <1>9, <1>10, <1>11, <1>12, <1>13, <1>14

\* The mode is that of a file or directory that is there.
LEMMA PermPlace ==
    ASSUME Shape, run.at \in DOMAIN spec, HasPerm(PermNode(Entry))
    PROVE  PermAt(Entry) \in Paths /\ HasPerm(fs[PermAt(Entry)]) /\ fs[PermAt(Entry)] = PermNode(Entry)
<1> DEFINE p == PermPath(Entry)
           n == At(p)
<1>1. Layout /\ p \in Paths /\ Real(p) \in Paths
  <2>1. Layout /\ p \in Paths
    BY EntryIs DEF Shape, PermPath
  <2> QED BY <2>1, RealPath
<1>2. CASE n.kind = "link"
  BY <1>2 DEF PermNode, PermAt, HasPerm
<1>3. CASE n.kind # "link"
  <2>1. PermNode(Entry) = n /\ PermAt(Entry) = Real(p) /\ n.kind \in {"file", "dir"}
    BY <1>3 DEF PermNode, PermAt, HasPerm
  <2>2. n = fs[Real(p)]
    BY <1>1, <2>1, SeenAt
  <2> QED BY <1>1, <2>1, <2>2
<1> QED BY <1>2, <1>3

LEMMA NodeOfMode ==
    ASSUME NEW n \in Nodes, HasPerm(n)
    PROVE  LET m == [n EXCEPT !.perm = TRUE] IN
           /\ m \in Nodes /\ m.kind = n.kind
           /\ n.kind = "file" => m.data = n.data
           /\ n.kind = "dir" => m.kind = "dir"
BY DEF Nodes, HasPerm, Absent

LEMMA PermKeeps == ASSUME IInv, Perm, raced' = (raced \/ Overlap') PROVE IInv'
<1>1. /\ pc["apply"] = "perm" /\ Shape /\ Layout /\ Applying /\ Procs = {"apply", "adopt"}
      /\ UNCHANGED <<bak, spec, kept, settled>> /\ run.at \in DOMAIN spec
  BY DEF Perm, IInv, Shape, Procs, Applying
<1>2. /\ \E r \in Results : Ends(r)
      /\ used' = used \/ Spend("faults")
  <2>1. job["apply"].next \in Results
    BY <1>1 DEF Applying
  <2> QED BY <2>1 DEF Perm, Results
<1>3. /\ pc' \in [Procs -> Steps] /\ job' \in [Procs -> Jobs] /\ run' \in Runs
      /\ pc'["adopt"] = pc["adopt"] /\ job'["adopt"] = job["adopt"]
      /\ Applying' /\ Ready("apply")' /\ Agreed'
  BY <1>1, <1>2, EndsIs
<1>4. used' \in [{"runs", "adopts", "faults", "edits"} -> Nat]
  BY <1>1, <1>2, FaultsCount DEF Shape
<1>5. CASE fs' = fs
  <2>1. Shape'
    BY <1>1, <1>3, <1>4, <1>5 DEF Shape, Layout, TreeOf, Backups
  <2> QED BY <1>1, <1>3, <1>5, <2>1, AdoptAlone, Aside
<1>6. CASE HasPerm(PermNode(Entry)) /\ fs' = [fs EXCEPT ![PermAt(Entry)].perm = TRUE]
  <2> DEFINE p == PermAt(Entry)
             m == [fs[p] EXCEPT !.perm = TRUE]
  <2>1. p \in Paths /\ HasPerm(fs[p]) /\ fs \in [Paths -> Nodes]
    BY <1>1, <1>6, PermPlace DEF Layout, TreeOf
  <2>2. m \in Nodes /\ m.kind = fs[p].kind /\ (fs[p].kind = "file" => m.data = fs[p].data)
    BY <2>1, NodeOfMode
  <2>3. fs' = [q \in Paths |-> IF q = p THEN m ELSE fs[q]]
    BY <1>6, <2>1
  <2> HIDE DEF m, p
  <2>4. \A q \in Paths : /\ fs'[q] \in Nodes /\ fs'[q].kind = fs[q].kind
                         /\ fs[q].kind \notin {"file", "dir"} => fs'[q] = fs[q]
                         /\ fs[q].kind = "file" => fs'[q].data = fs[q].data
    BY <2>1, <2>2, <2>3 DEF HasPerm
  <2>5. Dir \in Paths /\ Child \in Paths /\ Link(SrcDir).kind = "link"
    BY PathsAssumption, Made DEF Paths
  <2>6. (fs'[Dir] = Link(SrcDir)) <=> (fs[Dir] = Link(SrcDir))
    <3>1. CASE fs[Dir].kind = "link"
      BY <2>4, <2>5, <3>1
    <3>2. CASE fs[Dir].kind # "link"
      BY <2>4, <2>5, <3>2
    <3> QED BY <3>1, <3>2
  <2>7. TreeOf'
    <3>1. fs[Child] = Absent => fs'[Child] = Absent
      BY <2>4, <2>5, Made
    <3>2. fs' \in [Paths -> Nodes]
      BY <2>3, <2>4
    <3> QED BY <1>1, <2>4, <2>5, <3>1, <3>2 DEF Layout, TreeOf
  <2>8. Shape'
    BY <1>1, <1>3, <1>4, <2>7 DEF Shape, Layout, Backups
  <2>9. Adopting'
    <3> DEFINE j == job["adopt"]
    <3>1. Adopting /\ j.source \in Paths
      BY Sites DEF IInv, Paths, Procs
    <3>2. /\ fs'[j.source].kind = fs[j.source].kind
          /\ fs[j.source] = Absent => fs'[j.source] = Absent
          /\ fs[j.source].kind = "file" => fs'[j.source].data = fs[j.source].data
      BY <2>4, <3>1, Made
    <3> QED BY <1>3, <3>1, <3>2 DEF Adopting
  <2>10. ASSUME ~raced PROVE Ready("adopt")'
    <3>1. Ready("adopt") /\ "adopt" \in Procs
      BY <2>10 DEF IInv, Procs
    <3> DEFINE j == job["adopt"]
    <3>2. Site("adopt")' = Site("adopt")
      BY <1>3, <2>6 DEF Site, Real
    <3>3. There("adopt")'.kind = There("adopt").kind /\ Parked("adopt")' = Parked("adopt")
      BY <1>1, <1>3, <2>4, <3>1, <3>2, Sites DEF There, Parked
    <3> QED BY <1>3, <3>1, <3>3 DEF Ready, MayGo
  <2>11. ASSUME ~raced PROVE (kept \subseteq OnDisk)'
    <3>1. kept \subseteq OnDisk
      BY <2>11 DEF IInv
    <3>2. \A b \in kept : Somewhere(b) => Somewhere(b)'
      BY <1>1, <2>4 DEF Somewhere
    <3> QED BY <1>1, <2>8, <3>1, <3>2, StillThere DEF Shape
  <2> QED BY <1>3, <2>8, <2>9, <2>10, <2>11, Assembled
<1>7. fs' = fs \/ (HasPerm(PermNode(Entry)) /\ fs' = [fs EXCEPT ![PermAt(Entry)].perm = TRUE])
  BY DEF Perm
<1> QED BY <1>5, <1>6, <1>7

-----------------------------------------------------------------------------
(* Beginnings, ends, kills and edits.                                      *)

LEMMA ApplyStartKeeps == ASSUME IInv, ApplyStart, raced' = (raced \/ Overlap') PROVE IInv'
<1>1. /\ Shape /\ Procs = {"apply", "adopt"} /\ pc' = [pc EXCEPT !["apply"] = "look"]
      /\ Spend("runs") /\ settled' = FALSE /\ UNCHANGED <<fs, bak, spec, job, kept>>
  BY DEF ApplyStart, IInv, Procs
<1>2. PICK o \in [force : BOOLEAN, backup : BOOLEAN, dry : BOOLEAN] :
         run' = [opts |-> o, at |-> 1, res |-> <<>>, clean |-> settled, faults |-> used["faults"]]
  BY DEF ApplyStart
<1>3. run' \in Runs /\ run'.at = 1 /\ run'.res = <<>>
  BY <1>1, <1>2 DEF Shape, Runs
<1>4. /\ pc' \in [Procs -> Steps] /\ pc'["apply"] = "look"
      /\ pc'["adopt"] = pc["adopt"] /\ job'["adopt"] = job["adopt"]
  BY <1>1 DEF Shape, Steps
<1>5. Shape'
  <2>1. used' \in [{"runs", "adopts", "faults", "edits"} -> Nat]
    BY <1>1, FaultsCount
  <2> QED BY <1>1, <1>3, <1>4, <2>1 DEF Shape, Layout, TreeOf, Backups
<1>6. Applying' /\ Ready("apply")' /\ Agreed'
  <2>1. Len(spec) \in Nat /\ Len(<<>>) = 0
    BY <1>1, SpecsAssumption, LenProperties DEF Shape
  <2> QED BY <1>1, <1>3, <1>4, <2>1 DEF Applying, ApplyWork, Work, Ready, Agreed
<1> QED BY <1>1, <1>4, <1>5, <1>6, AdoptAlone, Aside

LEMMA FinishKeeps == ASSUME IInv, Finish, raced' = (raced \/ Overlap') PROVE IInv'
<1>1. /\ Shape /\ Procs = {"apply", "adopt"} /\ pc' = [pc EXCEPT !["apply"] = "idle"] /\ run' = NoRun
      /\ settled' \in BOOLEAN /\ UNCHANGED <<fs, bak, spec, job, used, kept>>
  BY DEF Finish, IInv, Procs
<1>2. /\ pc' \in [Procs -> Steps] /\ pc'["apply"] = "idle"
      /\ pc'["adopt"] = pc["adopt"] /\ job'["adopt"] = job["adopt"]
  BY <1>1 DEF Shape, Steps
<1>3. Shape'
  BY <1>1, <1>2, NoJobIs DEF Shape, Layout, TreeOf, Backups
<1>4. Applying' /\ Ready("apply")' /\ Agreed'
  BY <1>1, <1>2 DEF Applying, ApplyWork, Work, Ready, Agreed
<1> QED BY <1>1, <1>2, <1>3, <1>4, AdoptAlone, Aside

\* An adoption gets to work, or ends: apply does not notice.
LEMMA AdoptGoes ==
    ASSUME IInv, raced' = (raced \/ Overlap'),
           UNCHANGED <<fs, bak, spec, run, kept>>, settled' \in BOOLEAN,
           used' = used \/ (\E what \in {"adopts", "faults"} : Spend(what)),
           NEW s \in {"idle", "record", "stage", "seed"}, pc' = [pc EXCEPT !["adopt"] = s],
           NEW j \in Jobs, job' = [job EXCEPT !["adopt"] = j],
           s \in {"stage", "seed"} => j.target \notin {Dir, Child} /\ j.source # SrcChild,
           s = "seed" => fs[j.source] = Absent /\ j.backup,
           s = "stage" => j.backup \/ fs[j.target].kind = "absent"
    PROVE  IInv'
<1>1. Shape /\ Layout /\ Procs = {"apply", "adopt"} /\ j.target \in Paths
  BY DEF IInv, Shape, Procs, Jobs, Paths
<1>2. /\ pc' \in [Procs -> Steps] /\ pc'["adopt"] = s /\ job' \in [Procs -> Jobs] /\ job'["adopt"] = j
      /\ pc'["apply"] = pc["apply"] /\ job'["apply"] = job["apply"]
  BY <1>1 DEF Shape, Steps, AdoptWork, Work
<1>3. used' \in [{"runs", "adopts", "faults", "edits"} -> Nat]
  BY <1>1, FaultsCount DEF Shape
<1>4. Shape'
  BY <1>1, <1>2, <1>3 DEF Shape, Layout, TreeOf, Backups
<1>5. Adopting'
  BY <1>2 DEF Adopting, AdoptWork, Work
<1>6. Ready("adopt")'
  <2>1. s = "stage" => There("adopt")' = fs[j.target]
    BY <1>2 DEF There, Site, Real
  <2> QED BY <1>2, <2>1 DEF Ready, MayGo
<1> QED BY <1>2, <1>4, <1>5, <1>6, ApplyAlone, Aside

LEMMA AdoptStartKeeps == ASSUME IInv, AdoptStart, raced' = (raced \/ Overlap') PROVE IInv'
<1> DEFINE J(e, n) == [NoJob EXCEPT !.target = e.target, !.source = e.source, !.next = "one",
                                    !.data = IF n.kind = "file" THEN n.data ELSE NoHash]
<1>1. PICK i \in DOMAIN spec :
        LET e == spec[i]  n == At(e.target)  j == J(e, n) IN
        /\ e.kind \in {"link", "managed"}
        /\ \/ n.kind = "absent" /\ fs[e.source] # Absent
              /\ Go("adopt", "stage") /\ job' = [job EXCEPT !["adopt"] = j]
           \/ n = Link(e.source)
              /\ Go("adopt", "record") /\ job' = [job EXCEPT !["adopt"] = j]
           \/ n.kind = "file"
              /\ Go("adopt", IF fs[e.source] = Absent THEN "seed" ELSE "stage")
              /\ job' = [job EXCEPT !["adopt"] = [j EXCEPT !.backup = TRUE]]
  BY DEF AdoptStart
<1> DEFINE e == spec[i]
           n == At(e.target)
           j == J(e, n)
<1>2. /\ Shape /\ Layout /\ e \in Entries /\ e.target \in Targets /\ e.source \in Sources /\ e.target \in Paths
      /\ e.target \notin {Dir, Child} /\ e.source # SrcChild
  <2>1. /\ Shape /\ Layout /\ spec \in Seq(Entries)
        /\ spec[i].kind = "dir" <=> spec[i].target = Dir
        /\ spec[i].kind \in {"link", "managed"} => spec[i].target # Child /\ spec[i].source # SrcChild
    BY SpecsAssumption DEF IInv, Shape
  <2>2. e \in Entries
    BY <2>1, ElementOfSeq, LenProperties
  <2> QED BY <1>1, <2>1, <2>2 DEF Entries, Paths
<1>3. n = fs[e.target] /\ n \in Nodes
  BY <1>2, PathsAssumption DEF At, Real, Layout, TreeOf
<1>4. j \in Jobs /\ j.target = e.target /\ j.source = e.source
  <2>1. (IF n.kind = "file" THEN n.data ELSE NoHash) \in Data
    BY <1>3, NodeKinds, PathsAssumption DEF NoHash, Bytes, Data, Paths
  <2> DEFINE d == IF n.kind = "file" THEN n.data ELSE NoHash
  <2> HIDE DEF d
  <2>2. d \in Data
    BY <2>1 DEF d
  <2>3. [NoJob EXCEPT !.target = e.target, !.source = e.source, !.next = "one", !.data = d] \in Jobs
    BY <1>2, <2>2, NoJobIs DEF Jobs
  <2> QED BY <1>2, <2>3, NoJobIs DEF d, Jobs
<1> HIDE DEF J
<1>5. /\ [j EXCEPT !.backup = TRUE] \in Jobs /\ [j EXCEPT !.backup = TRUE].backup
      /\ [j EXCEPT !.backup = TRUE].target = e.target /\ [j EXCEPT !.backup = TRUE].source = e.source
  BY <1>4 DEF Jobs
<1>6. UNCHANGED <<fs, bak, spec, run, kept>> /\ settled' \in BOOLEAN /\ Spend("adopts")
  BY DEF AdoptStart, Disturbs
<1>7. CASE n.kind = "absent" /\ Go("adopt", "stage") /\ job' = [job EXCEPT !["adopt"] = j]
  BY <1>2, <1>3, <1>4, <1>6, <1>7, AdoptGoes DEF Go
<1>8. CASE Go("adopt", "record") /\ job' = [job EXCEPT !["adopt"] = j]
  BY <1>4, <1>6, <1>8, AdoptGoes DEF Go
<1>9. CASE /\ n.kind = "file" /\ job' = [job EXCEPT !["adopt"] = [j EXCEPT !.backup = TRUE]]
           /\ Go("adopt", IF fs[e.source] = Absent THEN "seed" ELSE "stage")
  <2>1. CASE fs[e.source] = Absent
    BY <1>2, <1>5, <1>6, <1>9, <2>1, AdoptGoes DEF Go
  <2>2. CASE fs[e.source] # Absent
    BY <1>2, <1>5, <1>6, <1>9, <2>2, AdoptGoes DEF Go
  <2> QED BY <2>1, <2>2
<1> QED BY <1>1, <1>7, <1>8, <1>9

LEMMA AdoptAllKeeps == ASSUME IInv, AdoptAll, raced' = (raced \/ Overlap') PROVE IInv'
<1> DEFINE j == [job["adopt"] EXCEPT !.next = "all"]
<1>1. j \in Jobs /\ job' = [job EXCEPT !["adopt"] = j]
  BY DEF AdoptAll, IInv, Shape, Jobs, Procs
<1> HIDE DEF j
<1> QED BY <1>1, AdoptGoes DEF AdoptAll, Go, Disturbs

LEMMA RecordKeeps == ASSUME IInv, Record, raced' = (raced \/ Overlap') PROVE IInv'
<1>1. settled' \in BOOLEAN
  BY DEF Record, IInv, Shape
<1>2. used' = used \/ Spend("faults")
  BY DEF Record
<1> QED BY <1>1, <1>2, NoJobIs, AdoptGoes DEF Record, Go

LEMMA FaultsKeep == ASSUME IInv, Faults, raced' = (raced \/ Overlap') PROVE IInv'
<1>1. PICK x \in Procs, s \in {"stage", "place", "park", "write", "remove", "mkdir", "seed", "copy"} : Fault(x, s)
  BY DEF Faults
<1>2. pc[x] = s /\ Fails(x) /\ Spend("faults") /\ UNCHANGED <<fs, bak, spec, kept, settled>>
  BY <1>1 DEF Fault, ghosts
<1>3. Busy(x)
  BY <1>2 DEF IInv, Applying, Adopting, Busy, ApplyWork, AdoptWork, Work, Procs
<1> QED BY <1>2, <1>3, FailsKeeps

LEMMA CrashKeeps == ASSUME IInv, NEW x \in Procs, Crash(x), raced' = (raced \/ Overlap') PROVE IInv'
<1>1. /\ Shape /\ Procs = {"apply", "adopt"} /\ pc' = [pc EXCEPT ![x] = "idle"] /\ job' = [job EXCEPT ![x] = NoJob]
      /\ run' = (IF x = "apply" THEN NoRun ELSE run) /\ Spend("faults") /\ settled' \in BOOLEAN
      /\ UNCHANGED <<fs, bak, spec, kept>>
  BY DEF Crash, IInv, Procs, Go, Disturbs
<1>2. CASE x = "adopt"
  BY <1>1, <1>2, NoJobIs, AdoptGoes
<1>3. CASE x = "apply"
  <2>1. /\ pc' \in [Procs -> Steps] /\ pc'["apply"] = "idle" /\ job' \in [Procs -> Jobs]
        /\ pc'["adopt"] = pc["adopt"] /\ job'["adopt"] = job["adopt"]
    BY <1>1, <1>3, NoJobIs DEF Shape, Steps
  <2>2. used' \in [{"runs", "adopts", "faults", "edits"} -> Nat]
    BY <1>1, FaultsCount
  <2>3. Shape'
    BY <1>1, <1>3, <2>1, <2>2, NoJobIs DEF Shape, Layout, TreeOf, Backups
  <2>4. Applying' /\ Ready("apply")' /\ Agreed'
    BY <1>1, <1>3, <2>1 DEF Applying, ApplyWork, Work, Ready, Agreed
  <2> QED BY <1>1, <2>1, <2>3, <2>4, AdoptAlone, Aside
<1> QED BY <1>1, <1>2, <1>3

LEMMA EditSourceKeeps == ASSUME IInv, EditSource, raced' = (raced \/ Overlap') PROVE IInv'
<1>1. /\ Shape /\ Layout /\ Applying /\ Adopting /\ Procs = {"apply", "adopt"} /\ pc["apply"] = "idle" /\ Spend("edits")
      /\ settled' \in BOOLEAN /\ UNCHANGED <<bak, spec, pc, job, run>>
  BY DEF EditSource, Disturbs, IInv, Shape, Procs
<1>2. PICK p \in Sources : LET d == Bytes(p, used["edits"] + 2) IN
        /\ fs[p].kind = "file" /\ fs[p].data.ver > 0
        /\ fs' = [fs EXCEPT ![p].data = d]
        /\ kept' = (kept \ {fs[p].data}) \cup {d}
  BY DEF EditSource
<1> DEFINE d == Bytes(p, used["edits"] + 2)
           m == [fs[p] EXCEPT !.data = d]
<1>3. d \in Data /\ d.ver > 0
  <2>1. used["edits"] \in Nat /\ p \in Paths
    BY <1>1 DEF Shape, Paths
  <2> QED BY <2>1 DEF Bytes, Data
<1> HIDE DEF d
<1>4. /\ p \in Paths /\ p \notin Targets /\ Dir \in Targets /\ Child \in Targets /\ Dir \in Paths /\ Child \in Paths
      /\ fs \in [Paths -> Nodes]
  BY <1>1, PathsAssumption DEF Paths, Layout, TreeOf
<1>5. m \in Nodes /\ m.kind = "file" /\ m.data = d
  BY <1>2, <1>3, <1>4 DEF Nodes, Data, Absent
<1>6. fs' = [q \in Paths |-> IF q = p THEN m ELSE fs[q]]
  BY <1>2, <1>4 DEF d
<1> HIDE DEF m
<1>7. TreeOf'
  BY <1>1, <1>4, <1>5, <1>6, TreePut DEF Layout
<1>8. Shape'
  <2>1. used' \in [{"runs", "adopts", "faults", "edits"} -> Nat]
    BY <1>1, FaultsCount
  <2>2. \A b \in kept' : b.ver > 0
    BY <1>1, <1>2, <1>3 DEF Shape, d
  <2> QED BY <1>1, <1>7, <2>1, <2>2 DEF Shape, Layout, Backups
<1>9. Applying' /\ Ready("apply")' /\ Agreed'
  BY <1>1 DEF Applying, ApplyWork, Work, Ready, Agreed
<1>10. Adopting'
  <2> DEFINE j == job["adopt"]
  <2>1. j.source \in Paths
    BY <1>1, Sites DEF Paths
  <2>2. pc["adopt"] \in {"seed", "copy"} => j.source # p
    BY <1>1, <1>2, Made DEF Adopting, AdoptWork
  <2> QED BY <1>1, <1>6, <2>1, <2>2 DEF Adopting
<1>11. ASSUME ~raced PROVE Ready("adopt")'
  <2>1. Ready("adopt")
    BY <1>1, <1>11 DEF IInv
  <2>2. CASE pc["adopt"] \notin AdoptWork
    <3>1. pc["adopt"] \in {"idle", "record"}
      BY <1>1, <2>2 DEF Adopting
    <3> QED BY <1>1, <3>1 DEF Ready
  <2>3. CASE pc["adopt"] \in AdoptWork
    <3>1. Site("adopt") \in Targets /\ Site("adopt")' = Site("adopt")
      BY <1>1, <2>3, Sites DEF Adopting, Site, Real
    <3>2. There("adopt")' = There("adopt") /\ Parked("adopt")' = Parked("adopt")
      BY <1>1, <1>4, <1>6, <3>1 DEF There, Parked, Paths
    <3> QED BY <1>1, <2>1, <3>2 DEF Ready, MayGo
  <2> QED BY <2>2, <2>3
<1>12. ASSUME ~raced PROVE (kept \subseteq OnDisk)'
  <2>1. kept \subseteq OnDisk
    BY <1>12 DEF IInv
  <2>2. ASSUME NEW b \in kept' PROVE (b \in kept => (Somewhere(b) => Somewhere(b)')) /\ (b \notin kept => Somewhere(b)')
    <3>1. CASE b = d
      BY <1>4, <1>5, <1>6, <3>1 DEF Somewhere
    <3>2. CASE b # d
      <4>1. b \in kept /\ b # fs[p].data
        BY <1>2, <2>2, <3>2 DEF d
      <4>2. Somewhere(b) => Somewhere(b)'
        BY <1>1, <1>6, <4>1 DEF Somewhere
      <4> QED BY <4>1, <4>2
    <3> QED BY <3>1, <3>2
  <2> QED BY <1>1, <1>8, <2>1, <2>2, StillThere DEF Shape
<1> QED BY <1>8, <1>9, <1>10, <1>11, <1>12, Assembled

LEMMA EditSpecKeeps == ASSUME IInv, EditSpec, raced' = (raced \/ Overlap') PROVE IInv'
<1>1. /\ Shape /\ Procs = {"apply", "adopt"} /\ pc["apply"] = "idle" /\ pc["adopt"] = "idle" /\ Spend("edits")
      /\ settled' \in BOOLEAN /\ spec' \in Specs /\ UNCHANGED <<fs, bak, pc, job, run, kept>>
  BY DEF EditSpec, Disturbs, IInv, Procs
<1>2. Shape'
  <2>1. used' \in [{"runs", "adopts", "faults", "edits"} -> Nat]
    BY <1>1, FaultsCount
  <2> QED BY <1>1, <2>1 DEF Shape, Layout, TreeOf, Backups
<1>3. Applying' /\ Adopting' /\ Ready("apply")' /\ Ready("adopt")' /\ Agreed'
  BY <1>1 DEF IInv, Applying, Adopting, ApplyWork, AdoptWork, Work, Ready, Agreed
<1> QED BY <1>1, <1>2, <1>3, Aside

-----------------------------------------------------------------------------
(* The theorems.                                                           *)

LEMMA InitIInv == Init => IInv
<1> SUFFICES ASSUME Init PROVE IInv
  OBVIOUS
<1>1. Procs = {"apply", "adopt"} /\ NoJob \in Jobs /\ NoRun \in Runs
  BY NoJobIs DEF Procs
<1>2. /\ fs \in [Paths -> Nodes]
      /\ \A p \in Paths : /\ fs[p].kind = "dir" => p = Dir
                          /\ fs[p].kind = "file" => fs[p].data.ver > 0
      /\ fs[Dir].kind = "link" => fs[Dir] = Link(SrcDir)
      /\ fs[Child] = Absent \/ fs[Dir].kind = "dir"
  BY TreesAssumption DEF Init
<1>3. Layout
  BY <1>2, Made DEF Init, Layout, TreeOf, Backups
<1>4. \A b \in kept : b.ver > 0 /\ Somewhere(b)
  BY <1>2 DEF Init, UserBytes, Somewhere, Paths
<1>5. Shape
  BY <1>1, <1>3, <1>4 DEF Init, Shape, Steps
<1>6. Applying /\ Adopting /\ ~Overlap /\ Agreed /\ \A x \in Procs : Ready(x)
  BY <1>1 DEF Init, Applying, Adopting, Overlap, Agreed, Ready, ApplyWork, AdoptWork, Work
<1>7. kept \subseteq OnDisk
  BY <1>3, <1>4, WhatIsOnDisk
<1> QED BY <1>5, <1>6, <1>7 DEF IInv

LEMMA StepKeeps == IInv /\ [Next]_vars => IInv'
<1> SUFFICES ASSUME IInv, [Next]_vars PROVE IInv'
  OBVIOUS
<1>1. CASE UNCHANGED vars
  <2>1. Shape' /\ Applying' /\ Adopting' /\ (raced' = raced) /\ (Overlap' <=> Overlap) /\ OnDisk' = OnDisk
    BY <1>1 DEF vars, IInv, Shape, Layout, TreeOf, Backups, Applying, Entry, Adopting, Overlap, OnDisk, OnPaths
  <2>2. (\A x \in Procs : Ready(x)' <=> Ready(x)) /\ (Agreed' <=> Agreed)
    BY <1>1 DEF vars, Ready, Agreed, There, Parked, Site, Real, MayGo, Entry
  <2> QED BY <1>1, <2>1, <2>2 DEF vars, IInv
<1>2. CASE Next
  <2>1. Step /\ raced' = (raced \/ Overlap')
    BY <1>2 DEF Next
  <2>2. CASE ApplyStart \/ ApplyStep
    BY <2>1, <2>2, ApplyStartKeeps, LookKeeps, PermKeeps, FinishKeeps, WriteKeeps, RemoveKeeps, MakeDirKeeps
       DEF ApplyStep
  <2>3. CASE AdoptStart \/ AdoptAll \/ AdoptStep
    BY <2>1, <2>3, AdoptStartKeeps, AdoptAllKeeps, SeedKeeps, CopyKeeps, RecordKeeps DEF AdoptStep
  <2>4. CASE \E x \in Procs : LinkStep(x) \/ SwapFails(x) \/ Crash(x)
    BY <2>1, <2>4, StageKeeps, PlaceKeeps, NameKeeps, ParkKeeps, SwapKeeps, DropKeeps, SwapFailsKeeps, CrashKeeps
       DEF LinkStep
  <2>5. CASE Faults \/ EditSource \/ EditSpec
    BY <2>1, <2>5, FaultsKeep, EditSourceKeeps, EditSpecKeeps
  <2> QED BY <2>1, <2>2, <2>3, <2>4, <2>5 DEF Step
<1> QED BY <1>1, <1>2

\* Every process is where its entry and its job say, and what it is about to take away
\* is absent, agreed to, or on its way to a free backup name (linkat.go, backup.go).
THEOREM Invariance == Spec => []IInv
<1> QED BY InitIInv, StepKeeps, PTL DEF Spec

\* The types of the model's state, for any specs, trees and bounds.
THEOREM TypeCorrect == Spec => []TypeOK
<1>1. ASSUME IInv PROVE TypeOK
  <2>1. Shape /\ Applying /\ spec \in Seq(Entries) /\ run \in Runs /\ Len(spec) \in Nat
    BY <1>1, SpecsAssumption, LenProperties DEF IInv, Shape
  <2>2. run.at \in Nat /\ Len(run.res) \in Nat
    BY <2>1, LenProperties DEF Runs
  <2>3. Len(<<>>) = 0 /\ NoRun.at = 0 /\ NoRun.res = <<>>
    BY NoJobIs
  <2>4. run.at \in 0..(Len(spec) + 1) /\ Len(run.res) <= Len(spec)
    BY <2>1, <2>2, <2>3 DEF Applying
  <2>5. \A p \in Paths : fs[p].kind \in {"absent", "file", "dir", "link"}
    BY <2>1, NodeKinds DEF Shape, Layout, TreeOf
  <2> QED BY <2>1, <2>4, <2>5 DEF TypeOK, Shape, Layout, TreeOf, Jobs
<1> QED BY <1>1, Invariance, PTL

\* linkat.go, backup.go, template.go: no bytes of the user's are lost without consent,
\* whatever fails and wherever a process is killed, for any specs, trees and bounds.
THEOREM NothingLost == Spec => []NothingIsLost
<1>1. IInv => NothingIsLost
  BY DEF IInv, NothingIsLost
<1> QED BY <1>1, Invariance, PTL

\* links.go, dirs.go, template.go: what apply takes away, --force or the entry allowed it
\* to, and a dry run changes nothing.
THEOREM Consent == Spec => OnlyByConsent
<1> DEFINE A == /\ run.opts.dry /\ pc'["apply"] # pc["apply"] => fs' = fs
                /\ \A p \in Targets :
                     /\ fs[p].kind \in {"file", "dir"} /\ fs'[p].kind # fs[p].kind
                     /\ job["apply"].target = p /\ pc["apply"] \in {"park", "remove"}
                     /\ pc'["apply"] # pc["apply"]
                     => run.opts.force \/ Entry.backup \/ raced'
<1>1. ASSUME IInv, Next PROVE A
  <2>1. Shape /\ Layout /\ Applying /\ Step /\ (raced => raced') /\ Procs = {"apply", "adopt"}
    BY <1>1 DEF IInv, Shape, Next, Procs
  <2>2. ASSUME run.opts.dry, pc'["apply"] # pc["apply"] PROVE fs' = fs
    <3>1. pc["apply"] \in {"idle", "look", "perm"}
      BY <2>1, <2>2 DEF Applying
    <3>2. \A s : pc' # [pc EXCEPT !["adopt"] = s]
      BY <2>1, <2>2 DEF Shape
    <3>3. CASE ApplyStart \/ ApplyStep
      BY <2>2, <3>1, <3>3 DEF ApplyStart, ApplyStep, Look, Perm, Finish, Write, RemoveTarget, MakeDir
    <3>4. CASE AdoptStart \/ AdoptAll \/ AdoptStep
      BY <3>2, <3>4 DEF AdoptStart, AdoptAll, AdoptStep, Seed, Copy, Record, Go
    <3>5. CASE \E x \in Procs : LinkStep(x) \/ SwapFails(x)
      <4>1. PICK x \in Procs : LinkStep(x) \/ SwapFails(x)
        BY <3>5
      <4>2. pc[x] \in Work
        BY <4>1 DEF LinkStep, Stage, Place, Name, Park, Swap, Drop, SwapFails, Work
      <4>3. x = "adopt"
        BY <2>1, <3>1, <4>2 DEF Work
      <4> QED BY <3>2, <4>1, <4>3 DEF LinkStep, Stage, Place, Name, Park, Swap, Drop, SwapFails, Fails, Go
    <3>6. CASE (\E x \in Procs : Crash(x)) \/ Faults \/ EditSource \/ EditSpec
      BY <2>2, <3>6 DEF Crash, Faults, Fault, EditSource, EditSpec
    <3> QED BY <2>1, <3>3, <3>4, <3>5, <3>6 DEF Step
  <2>3. ASSUME NEW p \in Targets, fs[p].kind \in {"file", "dir"}, job["apply"].target = p,
               pc["apply"] \in {"park", "remove"}, ~raced'
        PROVE  run.opts.force \/ Entry.backup
    <3>1. ~raced /\ Agreed /\ Entry.target = p
      BY <1>1, <2>1, <2>3 DEF IInv, Applying, ApplyWork, Work
    <3>2. p \in Paths /\ p # Dir => fs[p].kind = "file"
      BY <2>1, <2>3 DEF Layout, TreeOf
    <3>3. fs[p].kind = "file"
      BY <2>1, <2>3, <3>1, <3>2 DEF Applying, ApplyWork, Work, Paths
    <3>4. Real(p) = p
      <4>1. Link(SrcDir).kind = "link" /\ Absent.kind = "absent"
        BY Made
      <4> QED BY <2>1, <3>3, <4>1 DEF Real, Layout, TreeOf
    <3> QED BY <2>3, <3>1, <3>3, <3>4 DEF Agreed, There, Site
  <2> QED BY <2>2, <2>3
<1>2. UNCHANGED vars => A
  BY DEF vars
<1>3. IInv /\ [Next]_vars => [A]_vars
  BY <1>1, <1>2
<1> QED BY <1>3, Invariance, PTL DEF Spec, OnlyByConsent

=============================================================================
