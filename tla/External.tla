------------------------------- MODULE External -------------------------------
(***************************************************************************)
(* One package with a managed external recipe (internal/external, and the  *)
(* parts of apply, upgrade, remove and adopt that drive it): a release is  *)
(* resolved, downloaded, verified, judged by the execution policy and put  *)
(* in place of what the destinations hold, file by file, each with a       *)
(* backup; it is undone when the tool then reports another version.  Every *)
(* system call that changes a destination or a backup is a step, which may *)
(* fail, and the process may be killed before any of them.                 *)
(*                                                                         *)
(* Of a file's bytes the module keeps whose they are, and the version the  *)
(* tool reports when these bytes are run.                                  *)
(***************************************************************************)
EXTENDS Naturals, Sequences, Functions, Lists

CONSTANTS
  Paths,      \* where a recipe may install
  Protected,  \* the paths outside the home directory, writable only with sudo
  Verifiers,  \* the entries a recipe's verifier chain may have
  Recipes,    \* the recipes the spec may hold
  Feeds,      \* the release lists a provider may serve, newest first
  UserSays,   \* the versions a tool the user put there reports
  InitDisks,  \* what the paths may hold at the start
  MaxRuns, MaxFaults, MaxEdits

Versions == 1..2
Nothing     == [by |-> "nobody", says |-> 0]
User(w)     == [by |-> "user", says |-> w]
Bin(v, w)   == [by |-> "genv", ver |-> v, says |-> w]
Unlocked    == [ver |-> 0, owned |-> FALSE]

Modes == {"interactive", "yes", "unattended"}
Schemes == {"https", "http"}

\* One release of a list: a version of 0 is a tag the recipe's tagRegex rejects.
Release == [draft : BOOLEAN, pre : BOOLEAN, ver : 0..2]

ASSUME ExternalAssumption ==
  /\ Protected \subseteq Paths
  /\ \A r \in Recipes :
       /\ r.type \in {"direct", "archive", "script"}
       /\ r.verify \subseteq Verifiers /\ (r.verify # {} \/ r.unverified)
       /\ r.dest \in [Versions -> Seq(Paths)] /\ r.detect \in Paths
       /\ r.type # "script" => \A v \in Versions : r.dest[v] # <<>>
       /\ r.channel \in {"stable", "prerelease", "any"} /\ r.wants \subseteq Versions
       /\ {r.background, r.http, r.system, r.uninstall} \subseteq BOOLEAN
       /\ r.matching \in 0..2
  /\ \A f \in Feeds : f \in Seq(Release)
  /\ \A d \in InitDisks : d \in [Paths -> Range(d)] /\ \A p \in Paths : d[p].by # "genv"
  /\ {MaxRuns, MaxFaults, MaxEdits} \subseteq Nat

VARIABLES
  disk,     \* disk[p]: what path p holds
  bak,      \* bak[p]: what p's .genv-backup holds
  taken,    \* taken[p]: what p's .genv-remove directory holds
  feed,     \* the provider's release list
  recipe,   \* the recipe in the spec
  declared, \* the spec declares the package
  locked,   \* the package's entry in the lock
  pc, job,  \* the command in progress: its step, and what it has in hand
  used,     \* runs, faults and edits so far
  \* Ghosts.
  before,   \* disk when the command began
  placed,   \* what the command put in place or ran, and under which consent
  broken,   \* what failed although the code ignores it or cannot undo it
  astray    \* paths whose record a kill, a lost write or a new destination took,
            \* and those that scripts install, of which there is none

vars == <<disk, bak, taken, feed, recipe, declared, locked, pc, job, used,
          before, placed, broken, astray>>
files == <<disk, bak, taken>>
world == <<feed, recipe, declared>>
ghosts == <<before, placed, broken, astray>>

Idle == [kind |-> "none", mode |-> "yes", ver |-> 0, says |-> 0, vouched |-> {},
         url |-> "https", via |-> "https", dest |-> <<>>,
         at |-> 1, begun |-> 0, had |-> {}, result |-> "none"]

-----------------------------------------------------------------------------
\* What the code decides without changing anything.

\* resolveGitHub: the first release of the channel; a rejected tag ends the search.
Eligible == {x \in Release : /\ ~x.draft
                             /\ recipe.channel = "stable" => ~x.pre
                             /\ recipe.channel = "prerelease" => x.pre}
Latest == LET ok == Keep(feed, Eligible) IN IF ok = <<>> THEN 0 ELSE Head(ok).ver

\* detectVersion runs the tool: it reports nothing when there is none.
Detected == disk[recipe.detect].says

\* hashRecipe.  Install expands the placeholders of an archive's files in the
\* recipe itself, so that its digest is the expanded recipe's.
Templated == recipe.type = "archive" /\ recipe.dest[1] # recipe.dest[2]
Digest == <<recipe, 0>>
DigestInstalled(v) == <<recipe, IF Templated THEN v ELSE 0>>

\* InspectLocal and packageDrifted.
Modified == {p \in DOMAIN locked.hashes : disk[p] # locked.hashes[p]}
Drifted == \/ Detected = 0 \/ Detected # locked.ver \/ Detected \notin recipe.wants
           \/ locked.digest # Digest
           \/ Modified # {}

\* Mutant: one of several is enough.
VouchedByOne == recipe.verify = {} \/ recipe.verify \cap job.vouched # {}

\* verifyArtifact: every listed verifier vouches for the bytes.
Verified == recipe.verify # {}
Vouched == recipe.verify \subseteq job.vouched
\* CheckExecutionPolicy: Install tells it the scheme of the asset's URL, not of the
\* one a redirect led to.
Permitted == job.mode # "interactive" =>
  Verified /\ job.url # "http" /\ (recipe.type = "script" => recipe.background)

\* SelectPlatform and SelectAsset: exactly one match.
SelectsOne == recipe.matching = 1

InScope(dest) == recipe.system \/ recipe.type = "script" \/ Range(dest) \cap Protected = {}

-----------------------------------------------------------------------------
\* Commands.

Begins(kind, mode) ==
  /\ pc = "idle" /\ used.runs < MaxRuns
  /\ used' = [used EXCEPT !.runs = @ + 1]
  /\ job' = [Idle EXCEPT !.kind = kind, !.mode = mode]
  /\ UNCHANGED <<files, world, locked, ghosts>>

\* apply: install what is missing or drifted, remove what is no longer declared.
Apply(mode) ==
  /\ mode # "unattended" /\ Begins("apply", mode)
  /\ pc' = IF declared THEN IF locked = Unlocked \/ Drifted THEN "resolve" ELSE "succeed"
                       ELSE IF locked = Unlocked THEN "succeed" ELSE "inspect"

\* upgrade, also of the updates worker: PlanUpgrade leaves alone what is
\* current, and what the constraint does not accept.
Upgrade(mode) ==
  /\ declared /\ locked # Unlocked /\ Begins("upgrade", mode)
  /\ pc' = IF Latest = 0 \/ Latest = Detected \/ Latest \notin recipe.wants
           THEN "succeed" ELSE "resolve"

\* remove, which prepares the spec and writes it after the uninstall.
RemovePackage(mode) ==
  /\ declared /\ Begins("remove", mode)
  /\ pc' = IF locked = Unlocked THEN "record" ELSE "inspect"

\* adopt: what the recipe detects is recorded, and never owned.
Adopt ==
  /\ declared /\ locked = Unlocked /\ Detected # 0 /\ Begins("adopt", "yes")
  /\ pc' = "record"

Fails(r) == pc' = "fail" /\ job' = [job EXCEPT !.result = r]

\* Install up to the download: release, platform, templates and scope, asset.
ResolveRelease ==
  /\ pc = "resolve"
  /\ LET v == Latest IN
       IF v = 0 \/ ~SelectsOne \/ ~InScope(recipe.dest[v]) THEN Fails("error")
       ELSE pc' = "download" /\ job' = [job EXCEPT !.ver = v, !.dest = recipe.dest[v]]
  /\ UNCHANGED <<files, world, locked, used, ghosts>>

\* Download and verification.  url: the scheme of the asset's URL; via: that of the
\* URL the last redirect led to.  What arrives may not be what was published:
\* then not every verifier vouches for it.  says: what its tool will report.
Download(vouched, says, url, via) ==
  /\ pc = "download"
  /\ IF "http" \in {url, via} /\ ~recipe.http THEN Fails("error")
     ELSE /\ job' = [job EXCEPT !.vouched = vouched, !.says = says, !.url = url, !.via = via]
          /\ pc' = "policy"
  /\ UNCHANGED <<files, world, locked, used, ghosts>>

\* Verification, policy and, for what nothing verifies, the user's word.
Judge ==
  /\ pc = "policy"
  /\ \/ Vouched /\ Permitted /\ (job.mode = "interactive" \/ Verified)
        /\ pc' = (IF recipe.type = "script" THEN "script" ELSE "clear") /\ UNCHANGED job
     \/ (~Vouched \/ ~Permitted) /\ Fails("error")
     \/ Vouched /\ Permitted /\ ~Verified /\ Fails("declined")
  /\ UNCHANGED <<files, world, locked, used, ghosts>>

-----------------------------------------------------------------------------
\* One file's transaction (installDirectWithMode and its twin with sudo).

Here == job.dest[job.at]
Files(v) == Len(recipe.dest[v])
NotAllowed == Here \in Protected /\ job.mode = "unattended"
Place(p, c) == disk' = [disk EXCEPT ![p] = c]
Placed == placed' =
  {[mode |-> job.mode, vouched |-> job.vouched, url |-> job.url, via |-> job.via, recipe |-> recipe]}

\* The transactions are numbered by their file: begun counts them, had has
\* those that found something to make a backup of.
Dropped(j) == [j EXCEPT !.begun = @ - 1, !.had = @ \ {j.begun}]

\* Anything there?  Then an old backup goes first.
Clear ==
  /\ pc = "clear"
  /\ IF NotAllowed THEN pc' = "undo" /\ job' = [job EXCEPT !.result = "skipped"] /\ UNCHANGED bak
     ELSE IF disk[Here] = Nothing
     THEN pc' = "swap" /\ job' = [job EXCEPT !.begun = @ + 1] /\ UNCHANGED bak
     ELSE pc' = "backup" /\ bak' = [bak EXCEPT ![Here] = Nothing] /\ UNCHANGED job
  /\ UNCHANGED <<disk, taken, world, locked, used, ghosts>>

Backup ==
  /\ pc = "backup" /\ pc' = "swap"
  /\ bak' = [bak EXCEPT ![Here] = disk[Here]] /\ Place(Here, Nothing)
  /\ job' = [job EXCEPT !.begun = @ + 1, !.had = @ \cup {job.begun + 1}]
  /\ UNCHANGED <<taken, world, locked, used, ghosts>>

\* Mutant: one file more than there are.
SwapOneMore ==
  /\ pc = "swap" /\ Place(Here, Bin(job.ver, job.says)) /\ Placed
  /\ job' = [job EXCEPT !.at = @ + 1]
  /\ pc' = IF job.at <= Len(job.dest) THEN "clear" ELSE "detect"
  /\ UNCHANGED <<bak, taken, world, locked, used, before, broken, astray>>

Swap ==
  /\ pc = "swap" /\ Place(Here, Bin(job.ver, job.says)) /\ Placed
  /\ job' = [job EXCEPT !.at = @ + 1]
  /\ pc' = IF job.at < Len(job.dest) THEN "clear" ELSE "detect"
  /\ UNCHANGED <<bak, taken, world, locked, used, before, broken, astray>>

\* The renamed file could not be put there: the old one goes back.
SwapFails ==
  /\ pc = "swap" /\ used.faults < MaxFaults /\ used' = [used EXCEPT !.faults = @ + 1]
  /\ IF job.begun \in job.had
     THEN Place(Here, bak[Here]) /\ bak' = [bak EXCEPT ![Here] = Nothing]
     ELSE UNCHANGED <<disk, bak>>
  /\ job' = [Dropped(job) EXCEPT !.result = "error"] /\ pc' = "undo"
  /\ UNCHANGED <<taken, world, locked, ghosts>>

\* The script runs; when it fails, and when anything fails after it, the
\* declared uninstall runs, if there is one.
Uninstalled == IF recipe.uninstall THEN [disk EXCEPT ![recipe.detect] = Nothing] ELSE disk
RunScript ==
  /\ pc = "script" /\ Placed /\ astray' = astray \cup {recipe.detect}
  /\ Place(recipe.detect, Bin(job.ver, job.says)) /\ pc' = "detect"
  /\ UNCHANGED <<bak, taken, world, locked, job, used, before, broken>>
ScriptFails ==
  /\ pc = "script" /\ used.faults < MaxFaults /\ used' = [used EXCEPT !.faults = @ + 1]
  /\ Placed /\ Fails("error") /\ astray' = astray \cup {recipe.detect}
  /\ disk' \in {Uninstalled, IF recipe.uninstall THEN Uninstalled
                             ELSE [disk EXCEPT ![recipe.detect] = Bin(job.ver, 0)]}
  /\ UNCHANGED <<bak, taken, world, locked, before, broken>>

\* Mutant: any version will do.
DetectAny ==
  /\ pc = "detect"
  /\ IF Detected # 0
     THEN pc' = (IF recipe.type = "script" THEN "record" ELSE "finish")
          /\ job' = [job EXCEPT !.at = 1]
     ELSE pc' = "undo" /\ job' = [job EXCEPT !.result = "error"]
  /\ UNCHANGED <<files, world, locked, used, ghosts>>

\* Mutant: the backups go before the tool has been run.
DetectLate ==
  /\ pc = "detect" /\ recipe.type # "script"
  /\ pc' = (IF Detected = job.ver THEN "finish" ELSE "undo")
  /\ bak' = [p \in Paths |-> Nothing] /\ job' = [job EXCEPT !.at = 1]
  /\ UNCHANGED <<disk, taken, world, locked, used, ghosts>>

\* The installed tool must report the version of the release.
Detect ==
  /\ pc = "detect"
  /\ IF Detected # 0 /\ Detected = job.ver
     THEN pc' = (IF recipe.type = "script" THEN "record" ELSE "finish")
          /\ job' = [job EXCEPT !.at = 1]
     ELSE pc' = "undo" /\ job' = [job EXCEPT !.result = "error"]
  /\ UNCHANGED <<files, world, locked, used, ghosts>>

\* Mutant: the first transaction is the last to be undone, the others never.
UndoFirstOnly ==
  /\ pc = "undo" /\ recipe.type # "script"
  /\ IF job.begun = 0 THEN pc' = "fail" /\ UNCHANGED <<job, disk>>
     ELSE /\ Place(job.dest[1], Nothing) /\ pc' = "putback"
          /\ job' = [job EXCEPT !.begun = 1, !.had = @ \cap {1}]
  /\ UNCHANGED <<bak, taken, world, locked, used, ghosts>>

\* restore, the transactions in reverse: what was placed goes, its backup returns.
Undo ==
  /\ pc = "undo" /\ recipe.type # "script"
  /\ IF job.begun = 0 THEN pc' = "fail" /\ UNCHANGED <<job, disk>>
     ELSE Place(job.dest[job.begun], Nothing) /\ pc' = "putback" /\ UNCHANGED job
  /\ UNCHANGED <<bak, taken, world, locked, used, ghosts>>
PutBack ==
  /\ pc = "putback" /\ pc' = "undo"
  /\ LET p == job.dest[job.begun] IN
       IF job.begun \in job.had /\ bak[p] # Nothing
       THEN Place(p, bak[p]) /\ bak' = [bak EXCEPT ![p] = Nothing]
       ELSE UNCHANGED <<disk, bak>>
  /\ job' = Dropped(job)
  /\ UNCHANGED <<taken, world, locked, used, ghosts>>
UndoScript ==
  /\ pc = "undo" /\ recipe.type = "script" /\ disk' = Uninstalled /\ pc' = "fail"
  /\ UNCHANGED <<bak, taken, world, locked, job, used, ghosts>>
UndoIgnored ==
  /\ pc \in {"undo", "putback"} /\ recipe.type # "script" /\ job.begun # 0
  /\ used.faults < MaxFaults /\ used' = [used EXCEPT !.faults = @ + 1]
  /\ broken' = "undo" /\ astray' = astray \cup {job.dest[job.begun]}
  /\ IF pc = "undo" THEN pc' = "putback" /\ UNCHANGED job
     ELSE pc' = "undo" /\ job' = Dropped(job)
  /\ UNCHANGED <<files, world, locked, before, placed>>

\* finish: the backups go; if one will not, everything is undone.
Finish ==
  /\ pc = "finish"
  /\ bak' = IF job.at \in job.had THEN [bak EXCEPT ![Here] = Nothing] ELSE bak
  /\ IF job.at < Len(job.dest) THEN pc' = "finish" /\ job' = [job EXCEPT !.at = @ + 1]
                               ELSE pc' = "record" /\ UNCHANGED job
  /\ UNCHANGED <<disk, taken, world, locked, used, ghosts>>
FinishFails ==
  /\ pc = "finish" /\ job.at \in job.had
  /\ used.faults < MaxFaults /\ used' = [used EXCEPT !.faults = @ + 1]
  /\ pc' = "undo" /\ job' = [job EXCEPT !.result = "error"] /\ broken' = "finish"
  /\ UNCHANGED <<files, world, locked, before, placed, astray>>

-----------------------------------------------------------------------------
\* Remove: look at every path, move every path aside, delete.

Owns == SetToSeq(DOMAIN locked.hashes)

\* Mutant: a modified path is removed like any other.
InspectBlind ==
  /\ pc = "inspect"
  /\ IF ~locked.owned
     THEN IF locked.uninstall THEN pc' = "uninstall" /\ UNCHANGED job ELSE Fails("error")
     ELSE pc' = "take" /\ job' = [job EXCEPT !.dest = Owns]
  /\ UNCHANGED <<files, world, locked, used, ghosts>>

Inspect ==
  /\ pc = "inspect"
  /\ IF ~locked.owned
     THEN IF locked.uninstall THEN pc' = "uninstall" /\ UNCHANGED job ELSE Fails("error")
     ELSE IF \E p \in Modified : disk[p] # Nothing THEN Fails("error")
     ELSE pc' = "take" /\ job' = [job EXCEPT !.dest = Owns]
  /\ UNCHANGED <<files, world, locked, used, ghosts>>

Uninstall ==
  /\ pc = "uninstall" /\ Place(recipe.detect, Nothing) /\ pc' = "record"
  /\ UNCHANGED <<bak, taken, world, locked, job, used, ghosts>>

Take ==
  /\ pc = "take"
  /\ taken' = [taken EXCEPT ![Here] = disk[Here]] /\ Place(Here, Nothing)
  /\ IF job.at < Len(job.dest) THEN pc' = "take" /\ job' = [job EXCEPT !.at = @ + 1]
                               ELSE pc' = "delete" /\ job' = [job EXCEPT !.at = 1]
  /\ UNCHANGED <<bak, world, locked, used, ghosts>>
Delete ==
  /\ pc = "delete" /\ taken' = [taken EXCEPT ![Here] = Nothing]
  /\ IF job.at < Len(job.dest) THEN pc' = "delete" /\ job' = [job EXCEPT !.at = @ + 1]
                               ELSE pc' = "record" /\ UNCHANGED job
  /\ UNCHANGED <<disk, bak, world, locked, used, ghosts>>

\* A rename or a deletion fails: what is still set aside goes back.
Back == [p \in Paths |-> IF p \in Range(job.dest) /\ taken[p] # Nothing THEN taken[p] ELSE disk[p]]
BackNothing == disk
RemoveFails ==
  /\ pc \in {"take", "delete"} /\ used.faults < MaxFaults
  /\ used' = [used EXCEPT !.faults = @ + 1]
  /\ disk' = Back /\ taken' = [p \in Paths |-> IF p \in Range(job.dest) THEN Nothing ELSE taken[p]]
  /\ broken' = (IF pc = "delete" /\ job.at > 1 THEN "delete" ELSE "nothing") /\ Fails("error")
  /\ UNCHANGED <<bak, world, locked, before, placed, astray>>

-----------------------------------------------------------------------------
\* The lock, and the end of a command.

\* Mutant: the receipt names one file of several.
ReceiptOfLast ==
  [ver |-> job.ver, owned |-> recipe.type # "script", uninstall |-> recipe.type = "script" /\ recipe.uninstall,
   digest |-> DigestInstalled(job.ver),
   hashes |-> [p \in (IF recipe.type = "script" THEN {} ELSE {Last(job.dest)}) |-> disk[p]]]

Receipt ==
  [ver |-> job.ver, owned |-> recipe.type # "script", uninstall |-> recipe.type = "script" /\ recipe.uninstall,
   digest |-> DigestInstalled(job.ver),
   hashes |-> [p \in (IF recipe.type = "script" THEN {} ELSE Range(job.dest)) |-> disk[p]]]
Adopted == [ver |-> Detected, owned |-> FALSE, uninstall |-> FALSE, digest |-> Digest, hashes |-> <<>>]

Removes == job.kind = "remove" \/ (job.kind = "apply" /\ ~declared)
NewLock == CASE job.kind = "adopt" -> Adopted [] Removes -> Unlocked [] OTHER -> Receipt
OwnedPaths(l) == IF l = Unlocked THEN {} ELSE DOMAIN l.hashes

Record ==
  /\ pc = "record" /\ pc' = "succeed" /\ locked' = NewLock
  /\ declared' = (declared /\ job.kind # "remove")
  /\ astray' = (astray \cup IF Removes THEN {} ELSE OwnedPaths(locked)) \ OwnedPaths(locked')
  /\ UNCHANGED <<files, feed, recipe, job, used, before, placed, broken>>
RecordFails ==
  /\ pc = "record" /\ used.faults < MaxFaults /\ used' = [used EXCEPT !.faults = @ + 1]
  /\ declared' \in {declared, declared /\ job.kind # "remove"}
  /\ astray' = Paths /\ Fails("unrecorded")
  /\ UNCHANGED <<files, feed, recipe, locked, before, placed, broken>>

Forget == pc' = "idle" /\ job' = Idle /\ before' = disk /\ placed' = {} /\ broken' = "nothing"
End == /\ pc \in {"succeed", "fail"} /\ Forget
       /\ UNCHANGED <<files, world, locked, used, astray>>

\* A step that changes no destination fails: the network, what a verifier
\* needs, staging, reading a file back, running the tool.
EarlyFault ==
  /\ pc \in {"resolve", "download", "policy", "clear", "backup", "detect"}
  /\ used.faults < MaxFaults /\ used' = [used EXCEPT !.faults = @ + 1]
  /\ pc' = (IF recipe.type = "script" THEN "fail" ELSE "undo")
  /\ job' = [job EXCEPT !.result = "error"]
  /\ UNCHANGED <<files, world, locked, ghosts>>
\* A removal makes directories of its own: what a killed one has set aside is
\* in some nobody looks into again.
Kill ==
  /\ pc # "idle" /\ used.faults < MaxFaults /\ used' = [used EXCEPT !.faults = @ + 1]
  /\ Forget /\ astray' = Paths /\ taken' = [p \in Paths |-> Nothing]
  /\ UNCHANGED <<disk, bak, world, locked>>

\* Between commands: the user's own tool, the spec, a new release.
Edits == pc = "idle" /\ used.edits < MaxEdits /\ used' = [used EXCEPT !.edits = @ + 1]
EditFile(p, c) ==
  /\ Edits /\ c \in {Nothing} \cup {User(w) : w \in UserSays} /\ disk[p] # c /\ Place(p, c)
  /\ before' = disk'
  /\ UNCHANGED <<bak, taken, world, locked, pc, job, placed, broken, astray>>
EditSpec ==
  /\ Edits /\ declared' \in BOOLEAN /\ recipe' \in {recipe} \cup {r \in Recipes : r.kin = recipe.kin}
  /\ <<declared, recipe>>' # <<declared, recipe>>
  /\ UNCHANGED <<files, feed, locked, pc, job, ghosts>>
Publish ==
  /\ Edits /\ feed' \in Feeds \ {feed}
  /\ UNCHANGED <<files, recipe, declared, locked, pc, job, ghosts>>

Init ==
  /\ disk \in InitDisks
  /\ bak = [p \in Paths |-> Nothing] /\ taken = bak
  /\ feed \in Feeds /\ recipe \in Recipes /\ declared = TRUE
  /\ locked = Unlocked /\ pc = "idle" /\ job = Idle
  /\ used = [runs |-> 0, faults |-> 0, edits |-> 0]
  /\ before = disk /\ placed = {} /\ broken = "nothing" /\ astray = {}

Step ==
  \/ \E m \in Modes : Apply(m) \/ Upgrade(m) \/ RemovePackage(m)
  \/ Adopt \/ ResolveRelease \/ Judge
  \/ \E vs \in SUBSET Verifiers, w \in 0..2, url, via \in Schemes : Download(vs, w, url, via)
  \/ Clear \/ Backup \/ Swap \/ SwapFails \/ RunScript \/ ScriptFails \/ Detect
  \/ Undo \/ PutBack \/ UndoScript \/ UndoIgnored \/ Finish \/ FinishFails
  \/ Inspect \/ Uninstall \/ Take \/ Delete \/ RemoveFails
  \/ Record \/ RecordFails \/ End
Next ==
  \/ Step \/ EarlyFault \/ Kill \/ EditSpec \/ Publish
  \/ \E p \in Paths, c \in {Nothing} \cup {User(w) : w \in UserSays} : EditFile(p, c)

Spec == Init /\ [][Next]_vars

-----------------------------------------------------------------------------
Installs == job.kind \in {"apply", "upgrade"} /\ ~Removes /\ recipe.type # "script"

\* Every variable has its type, and a command in progress has its files.
TypeOK ==
  /\ \A f \in {disk, bak, taken, before} : DOMAIN f = Paths
  /\ declared \in BOOLEAN /\ recipe \in Recipes /\ feed \in Feeds
  /\ pc \in {"idle", "resolve", "download", "policy", "clear", "backup", "swap", "script", "detect",
             "undo", "putback", "finish", "inspect", "uninstall", "take", "delete", "record",
             "succeed", "fail"}
  /\ job.begun \in 0..Len(job.dest) /\ job.had \subseteq 1..job.begun
  /\ pc \in {"clear", "backup", "swap", "finish", "take", "delete"} => job.at \in DOMAIN job.dest
  /\ astray \subseteq Paths

\* A failed installation leaves every path as the command found it: whatever
\* failed, wherever in the list of files, each file's transaction was undone.
RollsBack == pc = "fail" /\ Installs /\ broken = "nothing" /\ job.result # "unrecorded" => disk = before

\* Until the new tool has reported its version, what a destination held is
\* still at the destination or in its backup, wherever the command is killed.
OldIsKept ==
  pc \in {"clear", "backup", "swap", "detect", "undo", "putback"} /\ Installs /\ broken = "nothing" =>
    \A p \in Range(job.dest) : before[p] # Nothing => before[p] \in {disk[p], bak[p]}

\* Every listed verifier vouched for what was put in place or run, and it came in
\* the end over HTTPS unless the recipe allows plain HTTP; what nobody was asked
\* about has a verifier, was published under HTTPS, and is no script unless the
\* recipe allows it in the background.
OnlyVouchedFor ==
  \A x \in placed :
    /\ x.recipe.verify \subseteq x.vouched
    /\ x.via = "http" => x.recipe.http
    /\ x.mode # "interactive" =>
         /\ x.recipe.verify # {} /\ x.url = "https"
         /\ x.recipe.type = "script" => x.recipe.background

\* Removing an owned installation takes none of the user's bytes: a file the
\* user put in the place of genv's makes the removal stop, and a removal that
\* stops has put everything back.
RemovesOnlyItsOwn ==
  pc # "idle" /\ Removes /\ locked # Unlocked /\ locked.owned =>
    /\ \A p \in Paths : before[p].by = "user" => disk[p] = before[p]
    /\ pc = "fail" /\ broken = "nothing" /\ job.result # "unrecorded" => disk = before

\* An apply that succeeds leaves a package the next apply has nothing to do
\* for, whatever failed or was killed before it (unless the release it found
\* is one the constraint refuses, or an archive's destinations are templates).
ApplySettles ==
  pc = "succeed" /\ job.kind = "apply" /\ declared /\ ~Templated =>
    locked # Unlocked /\ (locked.ver \in recipe.wants => ~Drifted)

\* Between commands, each of genv's files is in the receipt, as it is on the
\* disk, but for what scripts installed and the paths a kill, a failed write,
\* a failed undo or a recipe with new destinations led astray.
Accounted ==
  pc = "idle" =>
    \A p \in Paths \ astray : disk[p].by = "genv" =>
      p \in OwnedPaths(locked) /\ locked.hashes[p] = disk[p]

\* VIOLATED.  docs/external-releases.md:122: "Plain HTTP is never eligible for
\* scheduler execution."  Nothing that came over plain HTTP is installed unattended.
PlainHttpIsNotScheduled ==
  \A x \in placed : x.mode = "unattended" => x.via = "https"

\* VIOLATED.  engine.go:514 of a receipt's recipe digest: "the canonical non-secret recipe
\* identity stored in lock receipts".  An apply that succeeds has recorded the
\* identity of the recipe the spec holds.
RecipeIdentityIsKept ==
  pc = "succeed" /\ job.kind = "apply" /\ declared => locked.digest = Digest

\* VIOLATED.  engine.go:53: "transactionally installs".  An installation that fails, and
\* whose undoing meets no further failure, does not empty a destination.
InstallsTransactionally ==
  pc = "fail" /\ Installs /\ broken # "undo" /\ job.result # "unrecorded" =>
    \A p \in Range(job.dest) : before[p] # Nothing => disk[p] # Nothing

-----------------------------------------------------------------------------
(* What the runs check together, as conjunctions of the above.             *)

\* An installation or removal that fails leaves what it found, a killed one leaves
\* it at least in a backup, and a removal never takes what is not genv's.
FailureIsUndone == RollsBack /\ OldIsKept /\ RemovesOnlyItsOwn

\* Receipt and disk agree between commands, so the next apply has nothing to do.
ReceiptIsTrue == TypeOK /\ ApplySettles /\ Accounted

===============================================================================
