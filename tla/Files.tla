-------------------------------- MODULE Files --------------------------------
(***************************************************************************)
(* The files of a spec (internal/files, main_files.go, adopt --files): a   *)
(* process that applies the declared directories, links and templates to   *)
(* the home directory, and a process that adopts a live file, which runs   *)
(* outside the lock mutex until it records what it did.  Each system call  *)
(* that changes the file system is a step: it may fail, the process may be *)
(* killed before it, and the other process may run before it.              *)
(*                                                                         *)
(* A path holds nothing, a file, a directory or a symbolic link.  Of a     *)
(* file's bytes the module keeps whose they are and which version.  One    *)
(* directory, Dir, has one entry, Child; when Dir is itself a link to the  *)
(* directory SrcDir of the sources, Child names the source SrcChild.       *)
(***************************************************************************)
EXTENDS Naturals, Sequences, Functions

CONSTANTS
  Targets, Sources,             \* paths outside and inside the spec's repo
  Dir, Child, SrcDir, SrcChild, \* Dir, Child are targets, SrcChild a source
  Specs,     \* what the spec may declare: sequences of entries
  InitTrees, \* what the paths may hold at the start: functions on Paths
  Slots,     \* backup names of one path within one second: 1..Slots
  MaxRuns, MaxAdopts, MaxFaults, MaxEdits,  \* bounds, and one for
  MaxEvents                                 \* adoptions, faults and edits together

Paths == Targets \cup Sources
Procs == {"apply", "adopt"}

Absent      == [kind |-> "absent"]
NotDir      == [kind |-> "notdir"]             \* ENOTDIR: a parent is a file
File(d, ok) == [kind |-> "file", data |-> d, perm |-> ok]
Link(p)     == [kind |-> "link", to |-> p]
Plain(d, ok) == [kind |-> "dir", inside |-> d, perm |-> ok]
Bytes(p, v) == [of |-> p, ver |-> v]
Torn(p)     == Bytes(p, 0)                     \* a file truncated, not yet written
NoHash      == Bytes(Dir, 0)

ASSUME PathsAssumption ==
  /\ {Dir, Child} \subseteq Targets /\ Dir # Child /\ SrcChild \in Sources /\ SrcDir \notin Paths
  /\ Targets \cap Sources = {}
ASSUME BoundsAssumption ==
  {Slots, MaxRuns, MaxAdopts, MaxFaults, MaxEdits, MaxEvents} \subseteq Nat

Kinds == {"link", "managed", "merge", "template", "dir"}
Entries == [kind : Kinds, target : Targets, source : Sources, backup : BOOLEAN, perm : BOOLEAN]
Nodes == {Absent}
  \cup [kind : {"file"}, data : [of : Paths, ver : Nat], perm : BOOLEAN]
  \cup [kind : {"link"}, to : Paths \cup {SrcDir}]
  \cup [kind : {"dir"}, inside : {Absent}, perm : BOOLEAN]

\* Dir is what a dir entry declares; what is in the two directories is reached
\* through them: by merges and templates.
ASSUME SpecsAssumption ==
  \A s \in Specs : /\ s \in Seq(Entries)
                   /\ \A i \in DOMAIN s :
                        /\ s[i].kind = "dir" <=> s[i].target = Dir
                        /\ s[i].kind \in {"link", "managed"} =>
                             s[i].target # Child /\ s[i].source # SrcChild
ASSUME TreesAssumption ==
  \A f \in InitTrees :
    /\ f \in [Paths -> Nodes]
    /\ \A p \in Paths : /\ f[p].kind = "dir" => p = Dir
                        /\ f[p].kind = "file" => f[p].data.ver > 0
    /\ f[Dir].kind = "link" => f[Dir] = Link(SrcDir)

VARIABLES
  fs,      \* fs[p]: the node at path p
  bak,     \* bak[p][k]: the node at the k-th backup name of p
  spec,    \* the entries the spec declares, in the order apply visits them
  locked,  \* the lock's files section
  pc,      \* pc[x]: the step process x is at
  job,     \* job[x]: the link, template or directory x is working on
  run,     \* the apply in progress: options, the entry it is at, its results
  used,    \* runs, adoptions, faults and edits so far
  \* Ghosts.
  kept,    \* bytes of the user's that no run was told to discard
  raced,   \* the two processes were at work on one target at the same time
  quiet,   \* nothing but the current apply has touched anything since it began
  settled, \* the last apply was complete and undisturbed, nothing since
  foreseen \* the options and results of a dry run, nothing since

vars == <<fs, bak, spec, locked, pc, job, run, used, kept, raced, quiet, settled, foreseen>>
ghosts == <<kept, quiet, settled, foreseen>>
world == <<spec, locked, used>>

-----------------------------------------------------------------------------
\* The file system.

\* The path a name stands for: Child inside a Dir that is a link is SrcChild.
Real(p) == IF p = Child /\ fs[Dir] = Link(SrcDir) THEN SrcChild ELSE p

\* os.Lstat.
At(p) == IF p = Child /\ fs[Dir].kind = "file" THEN NotDir ELSE fs[Real(p)]

\* The bytes a read of path p returns, following links; NoHash if it fails.
ReadAt(p) ==
  LET n == At(p)
      m == IF n.kind = "link" /\ n.to \in Paths /\ n.to # p THEN fs[n.to] ELSE n
  IN IF m.kind = "file" THEN m.data ELSE NoHash

\* A node as it is taken away from path p, with what is in it.
Whole(p) == IF p = Dir /\ fs[Dir].kind = "dir" THEN Plain(fs[Child], fs[Dir].perm)
            ELSE At(p)
Without(p) == [q \in Paths |->
  IF q = Real(p) \/ (q = Child /\ p = Dir /\ fs[Dir].kind = "dir") THEN Absent ELSE fs[q]]
With(f, p, n) == [q \in Paths |->
  CASE q = p -> IF n.kind = "dir" THEN Plain(Absent, n.perm) ELSE n
    [] q = Child /\ p = Dir /\ n.kind = "dir" -> n.inside
    [] OTHER -> f[q]]

\* MkdirAll of the parent: Child's may be missing, or a file.
ParentOk(p) == p # Child \/ fs[Dir].kind # "file"
WithoutParent(p) == fs
WithParent(p) == IF p = Child /\ fs[Dir] = Absent
                 THEN [fs EXCEPT ![Dir] = Plain(Absent, TRUE)] ELSE fs

\* backupPathFor: the first name not taken now; renaming onto it comes later.
FreeSlots(p) == {k \in 1..Slots : bak[Real(p)][k] = Absent}
FirstOfTheSecond(p) == 1
FirstFree(p) == CHOOSE k \in FreeSlots(p) : \A l \in FreeSlots(p) : k <= l

-----------------------------------------------------------------------------
\* What apply decides for an entry from what it sees.

IsLink(e) == e.kind \in {"link", "managed", "merge"}
Heals(e)  == e.kind \in {"managed", "merge"}
Backs(e)  == IF e.kind = "dir" THEN run.opts.backup ELSE run.opts.backup \/ e.backup

\* Mutants: any link will do; a managed link heals files as well; a dry run
\* takes every file for replaceable.
LinkVerdictAnyLink(e) ==
  LET n == At(e.target) IN
  CASE n.kind = "notdir" -> "error" [] n.kind = "absent" -> "create" [] n.kind = "link" -> "keep"
    [] OTHER -> IF run.opts.force /\ Backs(e) THEN "replace" ELSE "mismatch"
LinkVerdictHealsFiles(e) ==
  LET n == At(e.target) IN
  CASE n.kind = "notdir" -> "error" [] n.kind = "absent" -> "create"
    [] n = Link(e.source) -> "keep"
    [] OTHER -> IF Heals(e) \/ run.opts.force THEN "replace" ELSE "mismatch"
LinkVerdictDryOptimist(e) ==
  LET n == At(e.target) IN
  CASE n.kind = "notdir" -> "error" [] n.kind = "absent" -> "create"
    [] n = Link(e.source) -> "keep"
    [] OTHER -> IF run.opts.dry \/ run.opts.force THEN "replace" ELSE "mismatch"

LinkVerdict(e) ==
  LET n == At(e.target) IN
  CASE n.kind = "notdir" -> "error"
    [] n.kind = "absent" -> "create"
    [] n.kind = "link" -> IF n.to = e.source THEN "keep"
                          ELSE IF Heals(e) \/ run.opts.force THEN "replace" ELSE "mismatch"
    [] n.kind = "dir" -> IF ~run.opts.force THEN "mismatch"
                         ELSE IF Backs(e) THEN "replace" ELSE "error"
    [] n.kind = "file" -> IF run.opts.force \/ e.backup THEN "replace" ELSE "mismatch"

\* Mutant: the rendered text is not compared.
TemplateVerdictBlind(e) ==
  IF At(e.target).kind = "absent" THEN "create"
  ELSE IF At(e.target).kind \in {"notdir", "dir"} THEN "error"
  ELSE IF run.opts.force \/ e.backup THEN "replace" ELSE "mismatch"

TemplateVerdict(e) ==
  LET n == At(e.target) IN
  IF fs[e.source].kind # "file" \/ n.kind \in {"notdir", "dir"} THEN "error"
  ELSE IF n.kind = "absent" THEN "create"
  ELSE IF ReadAt(e.target) = NoHash THEN "error"
  ELSE IF ReadAt(e.target) = fs[e.source].data THEN "keep"
  ELSE IF run.opts.force \/ e.backup THEN "replace" ELSE "mismatch"

DirVerdict(e) ==
  LET n == At(e.target) IN
  CASE n.kind = "absent" -> "create"
    [] n.kind = "dir" -> "keep"
    [] OTHER -> IF run.opts.force THEN "replace" ELSE "mismatch"

Verdict(e) == CASE IsLink(e) -> LinkVerdict(e)
                [] e.kind = "template" -> TemplateVerdict(e)
                [] e.kind = "dir" -> DirVerdict(e)

\* The path whose mode the entry's perm is about: a link's source.
PermPath(e) == IF IsLink(e) THEN e.source ELSE e.target
PermNode(e) ==
  LET n == At(PermPath(e)) IN
  IF n.kind = "link" /\ n.to \in Paths /\ n.to # PermPath(e) THEN fs[n.to] ELSE n
HasPerm(n) == n.kind \in {"file", "dir"}
\* The node chmod changes.
PermAt(e) ==
  LET n == At(PermPath(e)) IN IF n.kind = "link" THEN n.to ELSE Real(PermPath(e))

-----------------------------------------------------------------------------
\* Status and the lock's content hashes.

Hash(e) == CASE e.kind \in {"link", "managed", "template"} /\ fs[e.source].kind = "file" ->
                  fs[e.source].data
             [] OTHER -> NoHash

LockEntry(e) == [source |-> e.source, target |-> e.target, kind |-> e.kind, hash |-> Hash(e)]
LockedFilesFromSpec == [i \in DOMAIN spec |-> LockEntry(spec[i])]

SameKey(a, b) == a.source = b.source /\ a.target = b.target /\ a.kind = b.kind

\* mergeLockedFiles: an entry with the same key gets the new hash, others are appended.
MergeLockedFiles(adopted) ==
  [i \in DOMAIN locked |->
    LET new == {a \in Range(adopted) : SameKey(a, locked[i]) /\ a.hash # NoHash}
    IN IF new = {} THEN locked[i] ELSE CHOOSE a \in new : TRUE]
  \o SelectSeq(adopted, LAMBDA a : ~\E b \in Range(locked) : SameKey(a, b))

\* fileContentHashes: by target, the last entry that has a hash.
HashOf(target) ==
  LET I == {i \in DOMAIN locked : locked[i].target = target /\ locked[i].hash # NoHash}
  IN IF I = {} THEN NoHash ELSE locked[CHOOSE i \in I : \A j \in I : j <= i].hash

PermStatus(e) == IF e.perm /\ ~(HasPerm(PermNode(e)) /\ PermNode(e).perm)
                 THEN "perm-mismatch" ELSE "ok"
\* A matching entry: drifted from the recorded content, or of the wrong mode.
Settle(e, h, withHashes) ==
  IF withHashes /\ HashOf(e.target) # NoHash /\ h # NoHash /\ h # HashOf(e.target)
  THEN "drifted" ELSE PermStatus(e)

StatusOf(e, withHashes) ==
  LET n == At(e.target) IN
  IF e.kind = "merge" /\ At(e.source) = Absent THEN "ok"      \* no file to walk
  ELSE IF n.kind = "notdir" THEN "error"
  ELSE IF n.kind = "absent" THEN "missing"
  ELSE IF e.kind = "dir" THEN IF n.kind = "dir" THEN PermStatus(e) ELSE "wrong-type"
  ELSE IF IsLink(e)
  THEN IF n.kind # "link" THEN "wrong-type"
       ELSE IF n.to # e.source THEN "mismatch"
       ELSE Settle(e, Hash(e), withHashes)
  ELSE IF n.kind # "file" THEN "wrong-type"
  ELSE IF Hash(e) = NoHash THEN "error"
  ELSE IF n.data = Hash(e) THEN Settle(e, Hash(e), withHashes)
  ELSE "mismatch"

StatusOk(withHashes) == \A i \in DOMAIN spec : StatusOf(spec[i], withHashes) = "ok"

-----------------------------------------------------------------------------
\* One apply: files.Apply entry by entry.

NoRun == [opts |-> [force |-> FALSE, backup |-> FALSE, dry |-> FALSE], at |-> 0, res |-> <<>>, clean |-> FALSE, faults |-> 0]
NoJob == [target |-> Dir, source |-> SrcChild, backup |-> FALSE, exists |-> FALSE,
          slot |-> 0, next |-> "idle", data |-> NoHash]

Entry == spec[run.at]
Events == used["adopts"] + used["faults"] + used["edits"]
Budget(what, max) == used[what] < max /\ (what = "runs" \/ Events < MaxEvents)
Spend(what) == used' = [used EXCEPT ![what] = @ + 1]

\* Bytes a user would miss: the originals of the targets and the sources.
UserBytes(f) ==
  {f[p].data : p \in {q \in Targets : f[q].kind = "file" /\ f[q].data.of = q}}
  \cup {f[p].data : p \in {q \in Sources : f[q].kind = "file"}}

Init ==
  /\ spec \in Specs
  /\ fs \in {f \in InitTrees : f[Child] = Absent \/ f[Dir].kind = "dir"}
  /\ bak = [p \in Paths |-> [k \in 1..Slots |-> Absent]]
  /\ locked = <<>>
  /\ pc = [x \in Procs |-> "idle"]
  /\ job = [x \in Procs |-> NoJob]
  /\ run = NoRun
  /\ used = [w \in {"runs", "adopts", "faults", "edits"} |-> 0]
  /\ kept = UserBytes(fs)
  /\ raced = FALSE /\ quiet = FALSE /\ settled = FALSE
  /\ foreseen = <<>>

\* genv apply takes the mutex (adopt records under it, and is never inside
\* it between two steps) and reaches its files phase.
ApplyStart ==
  /\ pc["apply"] = "idle" /\ Budget("runs", MaxRuns)
  /\ \E o \in [force : BOOLEAN, backup : BOOLEAN, dry : BOOLEAN] :
       run' = [opts |-> o, at |-> 1, res |-> <<>>, clean |-> settled, faults |-> used["faults"]]
  /\ pc' = [pc EXCEPT !["apply"] = "look"]
  /\ Spend("runs")
  /\ quiet' = (pc["adopt"] = "idle")
  /\ settled' = FALSE
  /\ UNCHANGED <<fs, bak, spec, locked, job, kept, foreseen>>

\* The entry ends with result r; apply goes on with the next one.
Ends(r) ==
  /\ run' = [run EXCEPT !.res = Append(@, r), !.at = @ + 1]
  /\ pc' = [pc EXCEPT !["apply"] = "look"]
  /\ job' = [job EXCEPT !["apply"] = NoJob]

\* What the entry's job will do once its target has been dealt with.
Content(e) == CASE IsLink(e) -> "swap" [] e.kind = "template" -> "write" [] OTHER -> "mkdir"
Done(e, v) == IF v = "create" THEN "created" ELSE "updated"

\* The first step of replacing or creating a target: a link is staged first,
\* a file to be kept gets a backup name, the rest is written at once.
First(e, v) ==
  IF IsLink(e) THEN "stage"
  ELSE IF v = "create" THEN Content(e)
  ELSE IF Backs(e) THEN "name"
  ELSE IF e.kind = "dir" THEN "remove" ELSE "write"

\* --force without a backup is the user's consent to lose what the target
\* name stands for.
Discards(e, v) == v = "replace" /\ ~Backs(e)
Consented(e) == IF At(e.target).kind = "file" THEN {At(e.target).data} ELSE {}

\* A merge-dir visits what its source directory holds.
Visited(e) == e.kind # "merge" \/ At(e.source) # Absent

Look ==
  /\ pc["apply"] = "look" /\ run.at <= Len(spec)
  /\ LET e == Entry  v == Verdict(e) IN
     IF ~Visited(e) \/ v = "error"
     THEN Ends(IF Visited(e) THEN "error" ELSE "skipped") /\ UNCHANGED kept
     ELSE IF v = "mismatch" THEN Ends("mismatched") /\ UNCHANGED kept
     ELSE IF v = "keep"
     THEN /\ pc' = [pc EXCEPT !["apply"] = "perm"]
          /\ job' = [job EXCEPT !["apply"] = [NoJob EXCEPT !.next = "skipped"]]
          /\ UNCHANGED <<run, kept>>
     ELSE IF run.opts.dry /\ (v = "create" \/ ~IsLink(e))
     THEN Ends(Done(e, v)) /\ UNCHANGED kept
     ELSE IF run.opts.dry
     THEN /\ pc' = [pc EXCEPT !["apply"] = "perm"]
          /\ job' = [job EXCEPT !["apply"] = [NoJob EXCEPT !.next = "updated"]]
          /\ UNCHANGED <<run, kept>>
     ELSE /\ pc' = [pc EXCEPT !["apply"] = First(e, v)]
          /\ job' = [job EXCEPT !["apply"] =
                      [NoJob EXCEPT !.target = e.target, !.source = e.source,
                                    !.backup = v = "replace" /\ Backs(e),
                                    !.next = Done(e, v)]]
          /\ kept' = IF Discards(e, v) THEN kept \ Consented(e) ELSE kept
          /\ UNCHANGED run
  /\ UNCHANGED <<fs, bak, spec, locked, used, quiet, settled, foreseen>>

\* applyPermIfNeeded, last in every entry.  For a link that was just created
\* it changes the source's mode without saying so (recordPermChange).
Perm ==
  /\ pc["apply"] = "perm"
  /\ LET e == Entry  n == PermNode(e)  r == job["apply"].next IN
     \/ ~e.perm /\ Ends(r) /\ UNCHANGED <<fs, used>>
     \/ e.perm /\ ~HasPerm(n) /\ Ends("error") /\ UNCHANGED <<fs, used>>
     \/ e.perm /\ HasPerm(n) /\ n.perm /\ Ends(r) /\ UNCHANGED <<fs, used>>
     \/ /\ e.perm /\ HasPerm(n) /\ ~n.perm
        /\ Ends(IF r = "skipped" THEN "updated" ELSE r)
        /\ fs' = IF run.opts.dry THEN fs ELSE [fs EXCEPT ![PermAt(e)].perm = TRUE]
        /\ UNCHANGED used
     \/ /\ e.perm /\ HasPerm(n) /\ ~n.perm /\ ~run.opts.dry
        /\ Budget("faults", MaxFaults) /\ Spend("faults")
        /\ Ends("error") /\ UNCHANGED fs
  /\ UNCHANGED <<bak, spec, locked, kept, quiet, settled, foreseen>>

\* Apply returns.  Without a mismatch or an error the content hashes of the
\* lock become those of the spec, and the lock is written with them.
Finish ==
  /\ pc["apply"] = "look" /\ run.at > Len(spec)
  /\ LET clean == Range(run.res) \subseteq {"created", "updated", "skipped"} IN
     /\ locked' = IF clean /\ ~run.opts.dry THEN LockedFilesFromSpec ELSE locked
     /\ settled' = (clean /\ ~run.opts.dry /\ quiet)
     /\ foreseen' = IF run.opts.dry /\ quiet THEN <<run.opts, run.res>>
                    ELSE IF run.opts.dry THEN foreseen ELSE <<>>
  /\ pc' = [pc EXCEPT !["apply"] = "idle"] /\ run' = NoRun
  /\ UNCHANGED <<fs, bak, spec, job, used, kept, quiet>>

-----------------------------------------------------------------------------
\* Steps of createSymlinkAt, RenderTemplate and applyDir, by process.

\* Process x gives up its job: apply records an error and goes on with the
\* next entry, adopt exits.
Fails(x) ==
  IF x = "apply" THEN Ends("error")
  ELSE pc' = [pc EXCEPT ![x] = "idle"] /\ job' = [job EXCEPT ![x] = NoJob] /\ UNCHANGED run

Go(x, step) == pc' = [pc EXCEPT ![x] = step]
After(x) == IF x = "apply" THEN "perm" ELSE "record"

Fault(x, step) ==
  /\ pc[x] = step /\ Budget("faults", MaxFaults) /\ Spend("faults")
  /\ Fails(x)
  /\ UNCHANGED <<fs, bak, spec, locked>> /\ UNCHANGED ghosts

\* createSymlinkAt: the parent exists, the target has been looked at again,
\* and the link waits under a unique name.
Stage(x) ==
  /\ pc[x] = "stage"
  /\ LET j == job[x]  n == At(j.target) IN
     IF ~ParentOk(j.target) THEN Fails(x) /\ UNCHANGED fs
     ELSE /\ fs' = WithParent(j.target)
          /\ Go(x, IF n.kind = "absent" THEN "place" ELSE "name")
          /\ job' = [job EXCEPT ![x].exists = n.kind # "absent",
                                ![x].backup = j.backup \/ n.kind = "dir"]
          /\ UNCHANGED run
  /\ UNCHANGED <<bak, spec, locked, used>> /\ UNCHANGED ghosts

\* No file was at the target: the link is renamed there, over whatever is
\* there by now, unless that is a directory.
Place(x) ==
  /\ pc[x] = "place"
  /\ LET j == job[x]  n == At(j.target) IN
     IF n.kind \in {"dir", "notdir"} THEN Fails(x) /\ UNCHANGED fs
     ELSE /\ fs' = With(fs, Real(j.target), Link(j.source))
          /\ Go(x, After(x)) /\ UNCHANGED <<job, run>>
  /\ UNCHANGED <<bak, spec, locked, used, kept, quiet, settled, foreseen>>

\* backupPathFor, the same for a backup and for parking a file.
Name(x) ==
  /\ pc[x] = "name" /\ FreeSlots(job[x].target) # {}
  /\ job' = [job EXCEPT ![x].slot = FirstFree(job[x].target)]
  /\ Go(x, "park")
  /\ UNCHANGED <<fs, bak, spec, locked, run, used>> /\ UNCHANGED ghosts

\* The target is renamed to the name chosen before; a template or a directory
\* is then written, a link renamed into place.
Park(x) ==
  /\ pc[x] = "park"
  /\ LET j == job[x]  n == At(j.target) IN
     IF n.kind \in {"absent", "notdir"} THEN Fails(x) /\ UNCHANGED <<fs, bak>>
     ELSE /\ bak' = [bak EXCEPT ![Real(j.target)][j.slot] = Whole(j.target)]
          /\ fs' = Without(j.target)
          /\ Go(x, IF x = "adopt" THEN "swap" ELSE Content(Entry))
          /\ UNCHANGED <<job, run>>
  /\ UNCHANGED <<spec, locked, used, kept, quiet, settled, foreseen>>

\* The staged link takes the target's place.
Swap(x) ==
  /\ pc[x] = "swap"
  /\ LET j == job[x]  n == At(j.target) IN
     IF n.kind \in {"dir", "notdir"} THEN Fails(x) /\ UNCHANGED fs
     ELSE /\ fs' = With(fs, Real(j.target), Link(j.source))
          /\ Go(x, IF j.backup THEN After(x) ELSE "drop")
          /\ UNCHANGED <<job, run>>
  /\ UNCHANGED <<bak, spec, locked, used, kept, quiet, settled, foreseen>>

\* The rename fails, the parked file is renamed back, and that may fail too.
SwapFails(x) ==
  /\ pc[x] = "swap" /\ Budget("faults", MaxFaults) /\ Spend("faults")
  /\ LET j == job[x]  t == Real(j.target)  b == bak[t][j.slot] IN
     \/ /\ b # Absent /\ At(j.target).kind \in {"absent", "link", "file"}
        /\ fs' = With(fs, t, b)
        /\ bak' = [bak EXCEPT ![t][j.slot] = Absent]
     \/ UNCHANGED <<fs, bak>>
  /\ Fails(x)
  /\ UNCHANGED <<spec, locked, kept, quiet, settled, foreseen>>

\* The parked original of a replacement without backup is removed.
Drop(x) ==
  /\ pc[x] = "drop"
  /\ LET j == job[x]  t == Real(j.target) IN
     \/ bak' = [bak EXCEPT ![t][j.slot] = Absent] /\ UNCHANGED used
     \/ UNCHANGED bak /\ Budget("faults", MaxFaults) /\ Spend("faults")
  /\ Go(x, After(x))
  /\ UNCHANGED <<fs, spec, locked, job, run>> /\ UNCHANGED ghosts

\* RenderTemplate's atomicWrite: the rendered source under a temporary name,
\* with the source's mode, renamed over the target.
Write ==
  /\ pc["apply"] = "write"
  /\ LET e == Entry  s == fs[e.source] IN
     IF s.kind # "file" \/ ~ParentOk(e.target) THEN Fails("apply") /\ UNCHANGED fs
     ELSE /\ fs' = With(WithParent(e.target), Real(e.target), File(s.data, s.perm))
          /\ Go("apply", "perm") /\ UNCHANGED <<job, run>>
  /\ UNCHANGED <<bak, spec, locked, used>> /\ UNCHANGED ghosts

\* applyDir without a backup: os.Remove, for a file or a link.
RemoveTarget ==
  /\ pc["apply"] = "remove"
  /\ fs' = Without(Entry.target)
  /\ Go("apply", "mkdir")
  /\ UNCHANGED <<bak, spec, locked, job, run, used>> /\ UNCHANGED ghosts

MakeDir ==
  /\ pc["apply"] = "mkdir"
  /\ LET e == Entry IN
     IF At(e.target).kind \in {"file", "link"} THEN Fails("apply") /\ UNCHANGED fs
     ELSE /\ fs' = IF At(e.target).kind = "dir" THEN fs
                   ELSE With(fs, e.target, Plain(Absent, ~e.perm))
          /\ Go("apply", "perm") /\ UNCHANGED <<job, run>>
  /\ UNCHANGED <<bak, spec, locked, used>> /\ UNCHANGED ghosts

-----------------------------------------------------------------------------
\* genv files adopt, and genv adopt --files.

Disturbs == quiet' = FALSE /\ settled' = FALSE /\ foreseen' = <<>>

\* Adopt looks at source and target: nothing to do, a link to make, or a file
\* to copy to the source if that is missing, to back up and to replace.
AdoptStart ==
  /\ pc["adopt"] = "idle" /\ Budget("adopts", MaxAdopts)
  /\ \E i \in DOMAIN spec :
       LET e == spec[i]  n == At(e.target)
           j == [NoJob EXCEPT !.target = e.target, !.source = e.source, !.next = "one",
                              !.data = IF n.kind = "file" THEN n.data ELSE NoHash] IN
       /\ e.kind \in {"link", "managed"}
       /\ \/ n.kind = "absent" /\ fs[e.source] # Absent
             /\ Go("adopt", "stage") /\ job' = [job EXCEPT !["adopt"] = j]
          \/ n = Link(e.source)
             /\ Go("adopt", "record") /\ job' = [job EXCEPT !["adopt"] = j]
          \/ n.kind = "file"
             /\ Go("adopt", IF fs[e.source] = Absent THEN "seed" ELSE "stage")
             /\ job' = [job EXCEPT !["adopt"] = [j EXCEPT !.backup = TRUE]]
  /\ Spend("adopts") /\ Disturbs
  /\ UNCHANGED <<fs, bak, spec, locked, run, kept>>

\* copyFile: os.WriteFile truncates the source before it writes it.
Seed ==
  /\ pc["adopt"] = "seed"
  /\ fs' = [fs EXCEPT ![job["adopt"].source] = File(Torn(job["adopt"].source), TRUE)]
  /\ Go("adopt", "copy")
  /\ UNCHANGED <<bak, spec, locked, job, run, used>> /\ UNCHANGED ghosts

Copy ==
  /\ pc["adopt"] = "copy"
  /\ LET j == job["adopt"] IN fs' = [fs EXCEPT ![j.source] = File(j.data, TRUE)]
  /\ Go("adopt", "stage")
  /\ UNCHANGED <<bak, spec, locked, job, run, used>> /\ UNCHANGED ghosts

\* adopt --files records every entry, if status finds them all as declared.
AdoptAll ==
  /\ pc["adopt"] = "idle" /\ Budget("adopts", MaxAdopts) /\ StatusOk(FALSE)
  /\ Go("adopt", "record") /\ job' = [job EXCEPT !["adopt"].next = "all"]
  /\ Spend("adopts") /\ Disturbs
  /\ UNCHANGED <<fs, bak, spec, locked, run, kept>>

AdoptedEntries(j) ==
  IF j.next = "all" THEN LockedFilesFromSpec
  ELSE SelectSeq(LockedFilesFromSpec, LAMBDA l : l.source = j.source /\ l.target = j.target)

\* Under the mutex: the lock is read again and the adopted entries merged.
Record ==
  /\ pc["adopt"] = "record" /\ pc["apply"] = "idle"
  /\ \/ locked' = MergeLockedFiles(AdoptedEntries(job["adopt"])) /\ UNCHANGED used
     \/ UNCHANGED locked /\ Budget("faults", MaxFaults) /\ Spend("faults")
  /\ Go("adopt", "idle") /\ job' = [job EXCEPT !["adopt"] = NoJob]
  /\ UNCHANGED <<fs, bak, spec, run, kept, quiet, foreseen, settled>>

-----------------------------------------------------------------------------
\* A process is killed; the user edits a source (not
\* while an apply runs), or changes the spec.
Crash(x) ==
  /\ pc[x] # "idle" /\ Budget("faults", MaxFaults) /\ Spend("faults")
  /\ Go(x, "idle") /\ job' = [job EXCEPT ![x] = NoJob]
  /\ run' = IF x = "apply" THEN NoRun ELSE run
  /\ Disturbs
  /\ UNCHANGED <<fs, bak, spec, locked, kept>>

EditSource ==
  /\ pc["apply"] = "idle" /\ Budget("edits", MaxEdits) /\ Spend("edits") /\ Disturbs
  /\ \E p \in Sources :
       /\ fs[p].kind = "file" /\ fs[p].data.ver > 0
       /\ fs' = [fs EXCEPT ![p].data = Bytes(p, used["edits"] + 2)]
       /\ kept' = (kept \ {fs[p].data}) \cup {Bytes(p, used["edits"] + 2)}
  /\ UNCHANGED <<bak, spec, locked, pc, job, run, raced>>

EditSpec ==
  /\ Budget("edits", MaxEdits) /\ Spend("edits") /\ Disturbs
  /\ \A x \in Procs : pc[x] = "idle"
  /\ spec' \in Specs \ {spec}
  /\ UNCHANGED <<fs, bak, locked, pc, job, run, kept>>

Faults ==
  \E x \in Procs : \E s \in {"stage", "place", "park", "write", "remove", "mkdir", "seed", "copy"} :
    Fault(x, s)

ApplyStep == Look \/ Perm \/ Finish \/ Write \/ RemoveTarget \/ MakeDir
AdoptStep == Seed \/ Copy \/ Record
LinkStep(x) == Stage(x) \/ Place(x) \/ Name(x) \/ Park(x) \/ Swap(x) \/ Drop(x)

\* Both processes have decided what to do about the same target.
Overlap == /\ pc["adopt"] # "idle" /\ pc["apply"] \notin {"idle", "look", "perm"}
           /\ job["adopt"].target = job["apply"].target

Step ==
  \/ ApplyStart \/ ApplyStep
  \/ AdoptStart \/ AdoptAll \/ AdoptStep
  \/ \E x \in Procs : LinkStep(x) \/ SwapFails(x) \/ Crash(x)
  \/ Faults
  \/ EditSource \/ EditSpec

Next == Step /\ raced' = (raced \/ Overlap')

Spec == Init /\ [][Next]_vars

-----------------------------------------------------------------------------
\* Properties.

\* Type invariant.
TypeOK ==
  /\ spec \in Specs
  /\ DOMAIN fs = Paths
  /\ \A p \in Paths : fs[p].kind \in {"absent", "file", "dir", "link"}
  /\ fs[Child] = Absent \/ fs[Dir].kind = "dir"
  /\ \A p \in Paths : fs[p].kind = "dir" => p = Dir
  /\ run.at \in 0..(Len(spec) + 1) /\ Len(run.res) <= Len(spec)
  /\ \A x \in Procs : job[x].slot \in 0..Slots

OnPaths == {fs[p] : p \in Paths} \cup UNION {{bak[p][k] : k \in 1..Slots} : p \in Paths}
OnDisk == {n.data : n \in {m \in OnPaths \cup {m.inside : m \in {d \in OnPaths : d.kind = "dir"}} : m.kind = "file"}}

\* The user's bytes are never lost: whatever fails, and wherever a process is
\* killed, every original of a target and every source is still somewhere on
\* disk, under its own name or a backup's, unless --force without a backup
\* discarded it or apply and adopt were at work on one target at once.
NothingIsLost == raced \/ kept \subseteq OnDisk

\* What apply has reported as done is what status then finds: after a complete
\* apply that nothing disturbed every entry is as declared and not drifted.
\* A template whose target is a link to equal content is the exception: apply
\* skips it, status calls it wrong-type.
CleanApplyIsOk ==
  settled => \A i \in DOMAIN spec :
    \/ StatusOf(spec[i], TRUE) = "ok"
    \/ spec[i].kind = "template" /\ At(spec[i].target).kind = "link"

AtEnd == pc["apply"] = "look" /\ run.at > Len(spec)

\* A second apply after a complete one changes nothing, whatever its options.
SecondApplyIsIdle == AtEnd /\ run.clean /\ quiet => Range(run.res) \subseteq {"skipped"}

\* A dry run names the targets that the apply after it refuses to touch, and
\* no others.  (What it cannot foretell are errors: that a mode is wanted of a
\* source that is missing, or what is below a file that --force replaces.)
DryRunForetells ==
  AtEnd /\ quiet /\ foreseen # <<>> /\ ~run.opts.dry /\ run.faults = used["faults"]
    /\ run.opts.force = foreseen[1].force /\ run.opts.backup = foreseen[1].backup
  => \A i \in DOMAIN run.res :
       \/ (run.res[i] = "mismatched") = (foreseen[2][i] = "mismatched")
       \/ "error" \in {run.res[i], foreseen[2][i]}

\* Without --force and without the entry's own consent (backup: true) apply
\* never takes a file or a directory away from its target, and never changes
\* anything in a dry run.
OnlyByConsent ==
  [][/\ run.opts.dry /\ pc'["apply"] # pc["apply"] => fs' = fs
     /\ \A p \in Targets :
       /\ fs[p].kind \in {"file", "dir"} /\ fs'[p].kind # fs[p].kind
       /\ job["apply"].target = p /\ pc["apply"] \in {"park", "remove"}
       /\ pc'["apply"] # pc["apply"]
       => run.opts.force \/ Entry.backup \/ raced']_vars

\* VIOLATED.  createSymlinkAt's own comment (linkat.go:9): a target that held something is never absent
\* while it is being replaced, so that a process killed there leaves a file.
NeverAbsent ==
  \A x \in Procs : pc[x] # "idle" /\ job[x].exists => At(job[x].target).kind # "absent"

-----------------------------------------------------------------------------
(* What the runs check together, as conjunctions of the above.             *)

\* What apply, dry run, status and a second apply say of one tree agrees.
ApplyIsTrue == TypeOK /\ CleanApplyIsOk /\ SecondApplyIsIdle /\ DryRunForetells

=============================================================================
