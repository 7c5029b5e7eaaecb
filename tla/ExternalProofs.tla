---------------------------- MODULE ExternalProofs ----------------------------
(***************************************************************************)
(* Proofs about External for any paths, verifiers, recipes, release lists  *)
(* and bounds.                                                             *)
(*                                                                         *)
(* OnlyVouchedFor speaks of what was put in place or run; what makes it    *)
(* true is decided earlier, in Judge.  The inductive invariant therefore   *)
(* says that the decision still stands at every step from there to the     *)
(* last file: the recipe cannot change while a command is under way, and   *)
(* the command's mode, the addresses and the verifiers' answers stay.      *)
(***************************************************************************)
EXTENDS External, ListTheorems

\* The steps of an installation that Judge has let through.
Installing == {"clear", "backup", "swap", "script"}

\* The bytes in hand came the way the recipe allows.
Carried == job.url \in Schemes /\ (job.via = "http" => recipe.http)
Allowed == Vouched /\ Permitted /\ Carried

JobFields == {"kind", "mode", "ver", "says", "vouched", "url", "via", "dest", "at", "begun", "had", "result"}

Ind ==
  /\ DOMAIN job = JobFields
  /\ pc = "policy" => Carried
  /\ pc \in Installing => Allowed
  /\ OnlyVouchedFor

-----------------------------------------------------------------------------

LEMMA Initially == Init => Ind
BY DEF Init, Ind, Idle, JobFields, Installing, OnlyVouchedFor

SameOrigin ==
  /\ job'.mode = job.mode /\ job'.vouched = job.vouched
  /\ job'.url = job.url /\ job'.via = job.via /\ recipe' = recipe

\* A step that puts nothing in place and does not come to an installing step
\* from elsewhere.
LEMMA Frame ==
  ASSUME Ind, DOMAIN job' = JobFields,
         pc' \in Installing => pc \in Installing /\ SameOrigin,
         pc' = "policy" => (pc = "policy" /\ SameOrigin) \/ Carried',
         placed' = placed \/ placed' = {}
  PROVE  Ind'
<1>1. (pc \in Installing => Allowed)' /\ (pc = "policy" => Carried)'
  BY DEF Ind, Allowed, Vouched, Permitted, Verified, Carried, SameOrigin
<1>2. OnlyVouchedFor'
  BY DEF Ind, OnlyVouchedFor
<1> QED BY <1>1, <1>2 DEF Ind

\* A step that puts something in place, under the decision that was taken.
LEMMA PlacedKeeps ==
  ASSUME Ind, pc \in {"swap", "script"}, Placed, SameOrigin,
         DOMAIN job' = JobFields, pc' # "policy"
  PROVE  Ind'
<1>1. Vouched /\ Permitted /\ Carried
  BY DEF Ind, Installing, Allowed
<1>2. OnlyVouchedFor'
  BY <1>1 DEF Placed, OnlyVouchedFor, Vouched, Permitted, Verified, Carried, Schemes
<1>3. (pc \in Installing => Allowed)'
  BY <1>1 DEF Allowed, Vouched, Permitted, Verified, Carried, SameOrigin
<1> QED BY <1>2, <1>3 DEF Ind

\* The steps that decide what to do, and those that undo, remove or record.
LEMMA BeginKeeps ==
  ASSUME Ind, NEW m, Apply(m) \/ Upgrade(m) \/ RemovePackage(m) \/ Adopt
  PROVE  Ind'
<1>1. DOMAIN job' = JobFields /\ placed' = placed
  BY DEF Apply, Upgrade, RemovePackage, Adopt, Begins, ghosts, Idle, JobFields
<1>2. pc' \notin Installing \cup {"policy"}
  BY DEF Apply, Upgrade, RemovePackage, Adopt, Installing
<1> QED BY <1>1, <1>2, Frame

LEMMA FailsKeeps ==
  ASSUME Ind, NEW r, Fails(r), placed' = placed
  PROVE  Ind'
BY Frame DEF Fails, Ind, JobFields, Installing

LEMMA ResolveReleaseKeeps == ASSUME Ind, ResolveRelease PROVE Ind'
<1>1. placed' = placed
  BY DEF ResolveRelease, ghosts
<1>2. CASE Fails("error")
  BY <1>1, <1>2, FailsKeeps
<1>3. ASSUME NEW v, pc' = "download", job' = [job EXCEPT !.ver = v, !.dest = recipe.dest[v]]
      PROVE  Ind'
  BY <1>1, <1>3, Frame DEF Ind, JobFields, Installing
<1> QED BY <1>2, <1>3 DEF ResolveRelease

LEMMA DownloadKeeps ==
  ASSUME Ind, NEW vs, NEW w, NEW url \in Schemes, NEW via \in Schemes, Download(vs, w, url, via)
  PROVE  Ind'
<1>1. placed' = placed /\ recipe' = recipe
  BY DEF Download, ghosts, world
<1>2. CASE Fails("error")
  BY <1>1, <1>2, FailsKeeps
<1>3. CASE /\ pc' = "policy" /\ ~("http" \in {url, via} /\ ~recipe.http)
           /\ job' = [job EXCEPT !.vouched = vs, !.says = w, !.url = url, !.via = via]
  <2>1. DOMAIN job' = JobFields /\ job'.url = url /\ job'.via = via
    BY <1>3 DEF Ind, JobFields
  <2> QED BY <1>1, <1>3, <2>1, Frame DEF Installing, Carried
<1> QED BY <1>2, <1>3 DEF Download

LEMMA JudgeKeeps == ASSUME Ind, Judge PROVE Ind'
<1>1. placed' = placed /\ recipe' = recipe
  BY DEF Judge, ghosts, world
<1>2. CASE \E r : Fails(r)
  BY <1>1, <1>2, FailsKeeps
<1>3. CASE Vouched /\ Permitted /\ UNCHANGED job
  <2>1. OnlyVouchedFor'
    BY <1>1 DEF Ind, OnlyVouchedFor
  <2>2. Allowed'
    BY <1>1, <1>3 DEF Judge, Ind, Allowed, Vouched, Permitted, Verified, Carried
  <2>3. pc' # "policy"
    BY <1>1, <1>3 DEF Judge, Fails
  <2> QED BY <1>3, <2>1, <2>2, <2>3 DEF Ind
<1> QED BY <1>2, <1>3 DEF Judge

LEMMA InstallKeeps ==
  ASSUME Ind, Clear \/ Backup \/ SwapFails \/ Detect
  PROVE  Ind'
<1>1. placed' = placed /\ recipe' = recipe
  BY DEF Clear, Backup, SwapFails, Detect, ghosts, world
<1>2. DOMAIN job' = JobFields /\ SameOrigin
  BY <1>1 DEF Clear, Backup, SwapFails, Detect, Dropped, Ind, JobFields, SameOrigin
<1>3. pc' # "policy" /\ (pc' \in Installing => pc \in Installing)
  BY DEF Clear, Backup, SwapFails, Detect, Installing
<1> QED BY <1>1, <1>2, <1>3, Frame

LEMMA PlaceKeeps == ASSUME Ind, Swap \/ RunScript \/ ScriptFails PROVE Ind'
<1>1. pc \in {"swap", "script"} /\ Placed /\ recipe' = recipe /\ pc' # "policy"
  BY DEF Swap, RunScript, ScriptFails, Fails, world
<1>2. DOMAIN job' = JobFields /\ SameOrigin
  BY <1>1 DEF Swap, RunScript, ScriptFails, Fails, Ind, JobFields, SameOrigin
<1> QED BY <1>1, <1>2, PlacedKeeps

LEMMA UndoKeeps ==
  ASSUME Ind, Undo \/ PutBack \/ UndoScript \/ UndoIgnored \/ Finish \/ FinishFails
  PROVE  Ind'
<1>1. placed' = placed
  BY DEF Undo, PutBack, UndoScript, UndoIgnored, Finish, FinishFails, ghosts
<1>2. DOMAIN job' = JobFields
  BY DEF Undo, PutBack, UndoScript, UndoIgnored, Finish, FinishFails, Dropped, Ind, JobFields
<1>3. pc' \notin Installing \cup {"policy"}
  BY DEF Undo, PutBack, UndoScript, UndoIgnored, Finish, FinishFails, Installing
<1> QED BY <1>1, <1>2, <1>3, Frame

LEMMA RemovalKeeps ==
  ASSUME Ind, Inspect \/ Uninstall \/ Take \/ Delete \/ RemoveFails
  PROVE  Ind'
<1>1. placed' = placed
  BY DEF Inspect, Uninstall, Take, Delete, RemoveFails, ghosts
<1>2. DOMAIN job' = JobFields
  BY DEF Inspect, Uninstall, Take, Delete, RemoveFails, Fails, Ind, JobFields
<1>3. pc' \notin Installing \cup {"policy"}
  BY DEF Inspect, Uninstall, Take, Delete, RemoveFails, Fails, Installing
<1> QED BY <1>1, <1>2, <1>3, Frame

LEMMA EndKeeps ==
  ASSUME Ind, Record \/ RecordFails \/ End \/ EarlyFault \/ Kill
  PROVE  Ind'
<1>1. placed' = placed \/ placed' = {}
  BY DEF Record, RecordFails, End, EarlyFault, Kill, Forget, ghosts
<1>2. DOMAIN job' = JobFields
  BY DEF Record, RecordFails, End, EarlyFault, Kill, Forget, Fails, Idle, Ind, JobFields
<1>3. pc' \notin Installing \cup {"policy"}
  BY DEF Record, RecordFails, End, EarlyFault, Kill, Forget, Fails, Installing
<1> QED BY <1>1, <1>2, <1>3, Frame

\* The recipe changes between commands only.
LEMMA EditKeeps ==
  ASSUME Ind, EditSpec \/ Publish \/ (\E p \in Paths, c \in {Nothing} \cup {User(w) : w \in UserSays} : EditFile(p, c))
  PROVE  Ind'
<1>1. placed' = placed /\ job' = job /\ pc' = "idle"
  BY DEF EditSpec, Publish, EditFile, Edits, ghosts
<1> QED BY <1>1, Frame DEF Ind, Installing

LEMMA StepKeeps == ASSUME Ind, [Next]_vars PROVE Ind'
<1>1. CASE Next
  BY <1>1, BeginKeeps, ResolveReleaseKeeps, DownloadKeeps, JudgeKeeps, InstallKeeps, PlaceKeeps,
     UndoKeeps, RemovalKeeps, EndKeeps, EditKeeps DEF Next, Step
<1>2. CASE UNCHANGED vars
  BY <1>2, Frame DEF vars, Ind, SameOrigin
<1> QED BY <1>1, <1>2

\* For every recipe, verifier chain, release list, redirect and sequence of commands,
\* faults and edits: what is installed was vouched for by every verifier of its recipe
\* and came in the end over HTTPS unless the recipe allows plain HTTP; what nobody was
\* asked about was published under HTTPS besides, and is no script the recipe keeps
\* from the background (Download, verifyArtifact, CheckExecutionPolicy and their order
\* in Install, engine.go:91-111).
THEOREM NothingUnvouched == Spec => []OnlyVouchedFor
<1>1. Ind => OnlyVouchedFor
  BY DEF Ind
<1> QED BY <1>1, Initially, StepKeeps, PTL DEF Spec

(***************************************************************************)
(* What a command leaves behind, and what the lock says of it.             *)
(*                                                                         *)
(* The invariant is Sound.  It follows a transaction over several files:   *)
(* those in hand have a backup or were not there, the others are as the    *)
(* command found them (Undoable); a removal's are in the place it moved    *)
(* them to (SetAside).  What has gone wrong for good is in broken and      *)
(* astray, and the rest is in the lock (Books).                            *)
(***************************************************************************)
Early == {"resolve", "download", "policy"}
InFile == {"clear", "backup", "swap", "finish", "putback"}
Removing == {"inspect", "uninstall", "take", "delete"}
Installation == job.kind \in {"apply", "upgrade"} /\ ~Removes

\* The files that the transactions begun so far are about.
InHand == {job.dest[i] : i \in 1..job.begun}

Typed ==
  /\ TypeOK
  /\ \A f \in {disk, bak, taken, before} : f = [p \in Paths |-> f[p]]
  /\ job.dest \in Seq(Paths) /\ job.at \in Nat \ {0}
  /\ IsInjective(job.dest)

\* Which commands come to which steps.
Doing ==
  /\ pc = "idle" => job = Idle /\ disk = before
  /\ pc \in Early \cup InFile \cup {"script", "detect", "undo"} => Installation
  /\ pc \in Removing => Removes /\ locked # Unlocked
  /\ pc = "record" => job.kind \in {"apply", "upgrade", "remove", "adopt"}
  /\ job.kind = "adopt" => locked = Unlocked \/ pc \in {"succeed", "idle"}
  /\ pc \in InFile => recipe.type # "script"
  /\ pc = "script" => recipe.type = "script"
  /\ pc \in {"take", "delete"} => locked.owned
  /\ pc = "uninstall" => ~locked.owned
  /\ broken # "nothing" => pc \in {"undo", "putback", "fail"}

\* How far the loop over the files has come.
Counting ==
  /\ pc \in Early \cup {"inspect"} => job.at = 1
  /\ pc \in {"download", "policy", "detect"} /\ recipe.type # "script" => job.dest # <<>>
  /\ pc \in {"clear", "backup"} => job.begun = job.at - 1
  /\ pc = "swap" => job.begun = job.at
  /\ pc = "putback" => job.begun > 0
  /\ pc \in {"detect", "finish"} /\ recipe.type # "script" => job.begun = Len(job.dest)
  /\ pc = "record" /\ Installation /\ recipe.type # "script" =>
       job.begun = Len(job.dest) /\ job.dest # <<>>
  /\ recipe.type = "script" \/ Removes \/ job.kind = "adopt" \/ pc \in Early => job.begun = 0
  /\ pc = "fail" /\ job.result # "unrecorded" => job.begun = 0

\* What the tool reported is what has been installed.
Reports ==
  /\ pc = "finish" \/ (pc = "record" /\ Installation) => Detected # 0 /\ Detected = job.ver
  /\ recipe.type # "script" =>
       /\ pc \in {"clear", "backup", "swap"} => \A i \in 1..(job.at - 1) : disk[job.dest[i]].by = "genv"
       /\ pc \in {"detect", "finish"} \/ (pc = "record" /\ Installation) =>
             \A i \in DOMAIN job.dest : disk[job.dest[i]].by = "genv"

\* What a transaction replaced is in its backup, until all of them are finished.
Undoable ==
  /\ pc \in InFile \cup {"detect", "undo"} => \A i \in 1..job.begun :
       LET p == job.dest[i] IN
         /\ i \in job.had => \/ bak[p] = before[p] /\ before[p] # Nothing
                             \/ bak[p] = Nothing /\ (pc = "finish" \/ broken # "nothing")
         /\ i \notin job.had => before[p] = Nothing
  /\ pc = "backup" => disk[Here] # Nothing
  /\ pc = "swap" => disk[Here] = Nothing
  /\ pc = "putback" => \/ disk[job.dest[job.begun]] = Nothing
                       \/ broken # "nothing" /\ job.dest[job.begun] \in astray

\* The other paths are as they were.
Unchanged ==
  /\ pc # "succeed" =>
       \A p \in Paths \ (InHand \cup astray) : disk[p] = before[p] \/ disk[p] = Nothing
  /\ broken = "nothing"
     /\ (\/ pc \in Early \cup InFile \cup {"script", "inspect"}
         \/ pc \in {"detect", "undo"} /\ recipe.type # "script") =>
       \A p \in Paths \ InHand : disk[p] = before[p]
  /\ pc = "fail" /\ (Removes \/ recipe.type # "script") /\ broken = "nothing" /\ job.result # "unrecorded" =>
       disk = before

\* A removal has moved aside the files it has visited and deleted those it has
\* visited again; none of them is the user's.
SetAside ==
  /\ pc \in {"take", "delete"} =>
       /\ Range(job.dest) = DOMAIN locked.hashes
       /\ \A p \in Range(job.dest) : before[p].by # "user"
       /\ \A p \in Paths \ Range(job.dest) : disk[p] = before[p] /\ taken[p] = Nothing
       /\ \A i \in DOMAIN job.dest :
            LET p == job.dest[i] IN
              IF pc = "take" /\ i >= job.at THEN disk[p] = before[p] /\ taken[p] = Nothing
              ELSE /\ disk[p] = Nothing
                   /\ taken[p] = IF pc = "delete" /\ i < job.at THEN Nothing ELSE before[p]
  /\ pc \notin {"take", "delete"} => \A p \in Paths : taken[p] = Nothing
  /\ pc = "record" /\ Removes => \A p \in OwnedPaths(locked) : disk[p] = Nothing
  /\ pc # "idle" /\ Removes /\ locked # Unlocked /\ locked.owned =>
       \A p \in Paths : before[p].by = "user" => disk[p] = before[p]

\* A receipt owns files of genv's, at least one, or none at all.
ReceiptOK ==
  locked # Unlocked =>
    /\ DOMAIN locked.hashes \subseteq Paths /\ IsFiniteSet(DOMAIN locked.hashes)
    /\ locked.owned => DOMAIN locked.hashes # {}
    /\ ~locked.owned => DOMAIN locked.hashes = {}
    /\ \A p \in DOMAIN locked.hashes : locked.hashes[p].by = "genv"

\* What of genv's is not astray is in the receipt.
Ledger(f) ==
  \A p \in Paths \ astray : f[p].by = "genv" => p \in OwnedPaths(locked) /\ locked.hashes[p] = f[p]
Books ==
  /\ pc # "succeed" => Ledger(before)
  /\ pc = "succeed" => Ledger(disk)
  /\ job.result = "unrecorded" => pc = "fail" /\ astray = Paths

Sound ==
  Typed /\ Doing /\ Counting /\ Reports /\ Undoable /\ Unchanged /\ SetAside
        /\ ReceiptOK /\ Books /\ ApplySettles

-----------------------------------------------------------------------------
\* No recipe names one destination twice.  installArchive refuses a duplicate source
\* only (archive.go:117): with a duplicate destination the second file's backup takes
\* the place of the first one's, and the original is lost.
DestinationsDiffer == \A r \in Recipes : \A v \in Versions : IsInjective(r.dest[v])

LEMMA LatestLemma == ASSUME Typed PROVE Latest \in 0..2
<1> DEFINE ok == Keep(feed, Eligible)
<1>1. feed \in Seq(Release)
  BY ExternalAssumption DEF Typed, TypeOK
<1>2. ok \in Seq(Release)
  BY <1>1, KeepLemma
<1>3. ASSUME ok # <<>> PROVE Head(ok) \in Release
  <2> HIDE DEF ok
  <2> QED BY <1>2, <1>3
<1>4. ASSUME ok # <<>> PROVE Head(ok).ver \in 0..2
  <2> HIDE DEF ok
  <2> QED BY <1>3, <1>4 DEF Release
<1> QED BY <1>4 DEF Latest

\* A command begins: nothing has happened yet.
LEMMA BeginsSound ==
  ASSUME Ind, Sound, NEW kind, NEW mode, Begins(kind, mode),
         pc' \in {"resolve", "succeed", "inspect", "record"},
         pc' = "resolve" => kind \in {"apply", "upgrade"} /\ ~Removes',
         pc' = "inspect" => Removes' /\ locked # Unlocked,
         pc' = "record" => locked = Unlocked /\ kind \in {"remove", "adopt"},
         pc' = "succeed" /\ kind = "apply" /\ declared => locked # Unlocked /\ ~Drifted,
         kind \in {"apply", "upgrade", "remove", "adopt"},
         kind = "adopt" => locked = Unlocked
  PROVE  Sound'
<1>1. /\ pc = "idle" /\ disk = before /\ broken = "nothing"
      /\ job'.kind = kind /\ job'.dest = <<>> /\ job'.begun = 0 /\ job'.had = {} /\ job'.at = 1 /\ job'.result = "none"
  BY DEF Begins, Idle, Sound, Doing
<1>2. /\ disk' = disk /\ bak' = bak /\ taken' = taken /\ feed' = feed /\ recipe' = recipe
      /\ declared' = declared /\ locked' = locked /\ before' = before /\ broken' = broken /\ astray' = astray
  BY DEF Begins, files, world, ghosts
<1>3. job'.begun = 0 /\ InHand' = {} /\ Range(job.dest)' = {}
  BY <1>1 DEF InHand, Range
<1>4. Typed'
  BY <1>1, <1>2 DEF Sound, Typed, TypeOK, IsInjective
<1>5. Doing'
  BY <1>1, <1>2 DEF Sound, Doing, InFile, Early, Removing, Installation, Removes
<1>6. Counting'
  BY <1>1, <1>2, <1>3 DEF Sound, Counting, InFile, Early, Removing, Installation
<1>7. Reports'
  BY <1>1, <1>2, <1>3 DEF Sound, Reports, Installation, Removes
<1>8. Undoable'
  BY <1>1, <1>2, <1>3 DEF Sound, Undoable, InFile
<1>9. Unchanged'
  BY <1>1, <1>2, <1>3 DEF Sound, Unchanged
<1>10. SetAside'
  BY <1>1, <1>2, <1>3 DEF Sound, SetAside, OwnedPaths
<1>11. ReceiptOK' /\ Books'
  BY <1>1, <1>2 DEF Sound, ReceiptOK, Books, Ledger, OwnedPaths
<1>12. ApplySettles'
  BY <1>1, <1>2 DEF ApplySettles, Drifted, Modified, Detected, Digest, Templated
<1> QED BY <1>4, <1>5, <1>6, <1>7, <1>8, <1>9, <1>10, <1>11, <1>12 DEF Sound

LEMMA CommandSound ==
  ASSUME Ind, Sound, NEW m, Apply(m) \/ Upgrade(m) \/ RemovePackage(m) \/ Adopt
  PROVE  Sound'
<1>1. CASE Apply(m)
  <2>1. job'.kind = "apply" /\ declared' = declared
    BY <1>1 DEF Apply, Begins, Idle, world
  <2> QED BY <1>1, <2>1, BeginsSound DEF Apply, Removes
<1>2. CASE Upgrade(m)
  <2>1. job'.kind = "upgrade" /\ declared' = declared
    BY <1>2 DEF Upgrade, Begins, Idle, world
  <2> QED BY <1>2, <2>1, BeginsSound DEF Upgrade, Removes
<1>3. CASE RemovePackage(m)
  <2>1. job'.kind = "remove" /\ declared' = declared
    BY <1>3 DEF RemovePackage, Begins, Idle, world
  <2> QED BY <1>3, <2>1, BeginsSound DEF RemovePackage, Removes
<1>4. CASE Adopt
  BY <1>4, BeginsSound DEF Adopt
<1> QED BY <1>1, <1>2, <1>3, <1>4

\* What a step that changes nothing but the command's record and its step leaves.
Same ==
  /\ disk' = disk /\ bak' = bak /\ taken' = taken /\ feed' = feed /\ recipe' = recipe
  /\ declared' = declared /\ locked' = locked /\ before' = before /\ broken' = broken /\ astray' = astray

\* A command gives up before it has changed anything.
LEMMA FailsSound ==
  ASSUME Ind, Sound, NEW r, Fails(r), Same, pc \in Early \cup {"inspect"}, r # "unrecorded"
  PROVE  Sound'
<1>1. /\ job'.kind = job.kind /\ job'.dest = job.dest /\ job'.begun = job.begun /\ job'.had = job.had /\ job'.at = job.at
      /\ job'.result = r /\ pc' = "fail"
  BY DEF Fails, Ind, JobFields
<1>2. /\ disk' = disk /\ bak' = bak /\ taken' = taken /\ feed' = feed /\ recipe' = recipe
      /\ declared' = declared /\ locked' = locked /\ before' = before /\ broken' = broken /\ astray' = astray
  BY DEF Same
<1>3. broken = "nothing" /\ job.begun = 0 /\ job'.begun = 0 /\ InHand = {} /\ InHand' = {}
  BY <1>1 DEF Sound, Doing, Counting, Early, Removing, InHand
<1>4. disk = before
  <2>1. \A p \in Paths : disk[p] = before[p]
    BY <1>3 DEF Sound, Unchanged, Early
  <2> QED BY <2>1 DEF Sound, Typed
<1>5. Typed'
  BY <1>1, <1>2 DEF Sound, Typed, TypeOK
<1>6. Doing' /\ Counting'
  BY <1>1, <1>2, <1>3 DEF Sound, Doing, Counting, InFile, Early, Removing, Installation, Removes
<1>7. Reports' /\ Undoable'
  BY <1>1, <1>2, <1>3 DEF Sound, Reports, Undoable, InFile, Installation, Removes
<1>8. Unchanged'
  BY <1>1, <1>2, <1>3, <1>4 DEF Sound, Unchanged, InFile, Early
<1>9. SetAside'
  BY <1>1, <1>2, <1>4 DEF Sound, SetAside, OwnedPaths, Removes, Early
<1>10. ReceiptOK' /\ Books' /\ ApplySettles'
  BY <1>1, <1>2 DEF Sound, ReceiptOK, Books, Ledger, OwnedPaths, Early, ApplySettles
<1> QED BY <1>5, <1>6, <1>7, <1>8, <1>9, <1>10 DEF Sound

\* A step on the way to the first file.
LEMMA EarlySound ==
  ASSUME Ind, Sound, Same, pc \in Early,
         pc' \in {"download", "policy", "clear", "script"},
         job'.kind = job.kind, job'.begun = job.begun /\ job'.had = job.had, job'.at = 1,
         job'.result = job.result,
         job'.dest \in Seq(Paths), IsInjective(job'.dest),
         recipe.type # "script" => job'.dest # <<>>,
         pc' = "clear" => recipe.type # "script",
         pc' = "script" => recipe.type = "script"
  PROVE  Sound'
<1>2. /\ disk' = disk /\ bak' = bak /\ taken' = taken /\ feed' = feed /\ recipe' = recipe
      /\ declared' = declared /\ locked' = locked /\ before' = before /\ broken' = broken /\ astray' = astray
  BY DEF Same
<1>3. broken = "nothing" /\ job.begun = 0 /\ job'.begun = 0 /\ InHand = {} /\ InHand' = {}
  BY DEF Sound, Doing, Counting, Early, InHand
<1>5. Typed'
  BY <1>2, <1>3 DEF Sound, Typed, TypeOK
<1>6. Doing' /\ Counting'
  BY <1>2, <1>3 DEF Sound, Doing, Counting, InFile, Early, Removing, Installation, Removes
<1>7. Reports' /\ Undoable'
  BY <1>2, <1>3 DEF Sound, Reports, Undoable, InFile, Installation, Removes
<1>8. Unchanged'
  BY <1>2, <1>3 DEF Sound, Unchanged, InFile, Early
<1>9. SetAside'
  BY <1>2 DEF Sound, SetAside, OwnedPaths, Removes, Early
<1>10. ReceiptOK' /\ Books' /\ ApplySettles'
  BY <1>2 DEF Sound, ReceiptOK, Books, Ledger, OwnedPaths, Early, ApplySettles
<1> QED BY <1>5, <1>6, <1>7, <1>8, <1>9, <1>10 DEF Sound

LEMMA ResolveReleaseSound == ASSUME DestinationsDiffer, Ind, Sound, ResolveRelease PROVE Sound'
<1>1. Same /\ pc = "resolve"
  BY DEF ResolveRelease, Same, files, world, ghosts
<1>2. CASE Fails("error")
  BY <1>1, <1>2, FailsSound DEF Early
<1>3. CASE Latest # 0 /\ pc' = "download" /\ job' = [job EXCEPT !.ver = Latest, !.dest = recipe.dest[Latest]]
  <2>1. recipe \in Recipes /\ Latest \in Versions
    BY <1>3, LatestLemma DEF Sound, Typed, TypeOK, Versions
  <2>2. recipe.dest[Latest] \in Seq(Paths) /\ IsInjective(recipe.dest[Latest])
    BY <2>1, ExternalAssumption DEF DestinationsDiffer
  <2>3. /\ job'.dest = recipe.dest[Latest] /\ job'.kind = job.kind /\ job'.begun = job.begun /\ job'.had = job.had /\ job'.at = job.at
        /\ job'.result = job.result
    BY <1>3 DEF Ind, JobFields
  <2> QED BY <1>1, <1>3, <2>1, <2>2, <2>3, EarlySound, ExternalAssumption DEF Early, Sound, Counting
<1> QED BY <1>2, <1>3 DEF ResolveRelease

LEMMA DownloadSound ==
  ASSUME Ind, Sound, NEW vs, NEW w, NEW url, NEW via, Download(vs, w, url, via)
  PROVE  Sound'
<1>1. Same /\ pc = "download"
  BY DEF Download, Same, files, world, ghosts
<1>2. CASE Fails("error")
  BY <1>1, <1>2, FailsSound DEF Early
<1>3. CASE pc' = "policy" /\ job' = [job EXCEPT !.vouched = vs, !.says = w, !.url = url, !.via = via]
  <2>1. /\ job'.dest = job.dest /\ job'.kind = job.kind /\ job'.begun = job.begun /\ job'.had = job.had /\ job'.at = job.at
        /\ job'.result = job.result
    BY <1>3 DEF Ind, JobFields
  <2> QED BY <1>1, <1>3, <2>1, EarlySound DEF Early, Sound, Counting, Typed
<1> QED BY <1>2, <1>3 DEF Download

LEMMA JudgeSound == ASSUME Ind, Sound, Judge PROVE Sound'
<1>1. Same /\ pc = "policy"
  BY DEF Judge, Same, files, world, ghosts
<1>2. CASE \E r \in {"error", "declined"} : Fails(r)
  BY <1>1, <1>2, FailsSound DEF Early
<1>3. CASE UNCHANGED job /\ pc' = (IF recipe.type = "script" THEN "script" ELSE "clear")
  BY <1>1, <1>3, EarlySound DEF Early, Sound, Counting, Typed
<1> QED BY <1>2, <1>3 DEF Judge

\* A removal looks at every path before it touches one.
LEMMA InspectSound == ASSUME Ind, Sound, Inspect PROVE Sound'
<1>1. /\ disk' = disk /\ bak' = bak /\ taken' = taken /\ feed' = feed /\ recipe' = recipe
      /\ declared' = declared /\ locked' = locked /\ before' = before /\ broken' = broken /\ astray' = astray
      /\ pc = "inspect"
  BY DEF Inspect, files, world, ghosts
<1>2. CASE Fails("error")
  BY <1>1, <1>2, FailsSound DEF Same
<1>3. broken = "nothing" /\ job.begun = 0 /\ InHand = {} /\ Removes /\ locked # Unlocked
  BY <1>1 DEF Sound, Doing, Counting, Removing, InHand
<1>4. \A p \in Paths : disk[p] = before[p] /\ taken[p] = Nothing
  BY <1>1, <1>3 DEF Sound, Unchanged, SetAside
<1>5. CASE ~locked.owned /\ pc' = "uninstall" /\ UNCHANGED job
  <2>1. Typed'
    BY <1>1, <1>5 DEF Sound, Typed, TypeOK
  <2>2. Doing' /\ Counting'
    BY <1>1, <1>3, <1>5 DEF Sound, Doing, Counting, InFile, Early, Removing, Installation, Removes
  <2>3. Reports' /\ Undoable'
    BY <1>1, <1>3, <1>5 DEF Sound, Reports, Undoable, InFile, Installation, Removes
  <2>4. Unchanged'
    BY <1>1, <1>3, <1>5 DEF Sound, Unchanged, InFile, Early, InHand
  <2>5. SetAside'
    BY <1>1, <1>4, <1>5 DEF Sound, SetAside, OwnedPaths, Removes
  <2>6. ReceiptOK' /\ Books' /\ ApplySettles'
    BY <1>1, <1>5 DEF Sound, ReceiptOK, Books, Ledger, OwnedPaths, ApplySettles
  <2> QED BY <2>1, <2>2, <2>3, <2>4, <2>5, <2>6 DEF Sound
<1>6. CASE /\ locked.owned /\ ~(\E p \in Modified : disk[p] # Nothing)
           /\ pc' = "take" /\ job' = [job EXCEPT !.dest = Owns]
  <2>1. Owns \in Seq(Paths) /\ IsInjective(Owns) /\ Range(Owns) = DOMAIN locked.hashes
    <3>1. DOMAIN locked.hashes \subseteq Paths /\ IsFiniteSet(DOMAIN locked.hashes)
      BY <1>3 DEF Sound, ReceiptOK
    <3>2. Owns \in Seq(DOMAIN locked.hashes) /\ IsInjective(Owns) /\ ToSet(Owns) = DOMAIN locked.hashes
      BY <3>1, SetToSeqLemma DEF Owns
    <3>3. Owns \in Seq(Paths)
      BY <3>1, <3>2
    <3> QED BY <3>2, <3>3 DEF ToSet, Range
  <2>2. /\ job'.dest = Owns /\ job'.kind = job.kind /\ job'.begun = job.begun /\ job'.had = job.had /\ job'.at = 1
        /\ job'.begun = 0 /\ InHand' = {}
    BY <1>1, <1>3, <1>6 DEF Ind, JobFields, Sound, Counting, InHand
  <2>3. 1 \in DOMAIN Owns
    <3>1. Owns # <<>>
      BY <1>3, <1>6, <2>1 DEF Sound, ReceiptOK, Range
    <3> QED BY <2>1, <3>1
  <2>4. Typed'
    BY <1>1, <1>3, <1>6, <2>1, <2>2, <2>3 DEF Sound, Typed, TypeOK
  <2>5. Doing' /\ Counting'
    BY <1>1, <1>3, <1>6, <2>2 DEF Sound, Doing, Counting, InFile, Early, Removing, Installation, Removes
  <2>6. Reports' /\ Undoable'
    BY <1>1, <1>3, <1>6, <2>2 DEF Sound, Reports, Undoable, InFile, Installation, Removes
  <2>7. Unchanged'
    BY <1>1, <1>3, <1>4, <1>6, <2>2 DEF Sound, Unchanged, InFile, Early
  <2>8. \A p \in DOMAIN locked.hashes : before[p].by # "user"
    BY <1>3, <1>4, <1>6 DEF Sound, ReceiptOK, Modified, Nothing
  <2>9. \A i \in DOMAIN Owns : Owns[i] \in Paths /\ Owns[i] \in DOMAIN locked.hashes /\ i >= 1
    BY <2>1 DEF Range
  <2>10. SetAside'
    BY <1>1, <1>3, <1>4, <1>6, <2>1, <2>2, <2>8, <2>9 DEF SetAside
  <2>11. ReceiptOK' /\ Books' /\ ApplySettles'
    BY <1>1, <1>6 DEF Sound, ReceiptOK, Books, Ledger, OwnedPaths, ApplySettles
  <2> QED BY <2>4, <2>5, <2>6, <2>7, <2>10, <2>11 DEF Sound
<1> QED BY <1>2, <1>5, <1>6 DEF Inspect

\* A step fails that has changed nothing: what has been replaced is undone.
LEMMA EarlyFaultSound == ASSUME Ind, Sound, EarlyFault PROVE Sound'
<1>1. /\ disk' = disk /\ bak' = bak /\ taken' = taken /\ feed' = feed /\ recipe' = recipe
      /\ declared' = declared /\ locked' = locked /\ before' = before /\ broken' = broken /\ astray' = astray
      /\ pc \in {"resolve", "download", "policy", "clear", "backup", "detect"}
      /\ pc' = (IF recipe.type = "script" THEN "fail" ELSE "undo")
  BY DEF EarlyFault, files, world, ghosts
<1>2. /\ job'.dest = job.dest /\ job'.kind = job.kind /\ job'.begun = job.begun /\ job'.had = job.had /\ job'.at = job.at
      /\ job'.result = "error"
  BY DEF EarlyFault, Ind, JobFields
<1>3. /\ job'.begun = job.begun /\ InHand' = InHand
  BY <1>2 DEF InHand
<1>4. broken = "nothing" /\ Installation /\ Installation'
  BY <1>1, <1>2 DEF Sound, Doing, Early, InFile, Installation, Removes
<1>5. Typed'
  BY <1>1, <1>2 DEF Sound, Typed, TypeOK
<1>6. Doing'
  BY <1>1, <1>2, <1>4 DEF Sound, Doing, InFile, Early, Removing, Installation, Removes
<1>7. Counting'
  BY <1>1, <1>2, <1>3, <1>4 DEF Sound, Counting, Early, Installation, Removes
<1>8. Reports'
  BY <1>1, <1>2 DEF Sound, Reports
<1>9. Undoable'
  BY <1>1, <1>2, <1>3, <1>4 DEF Sound, Undoable, InFile, Counting, Early
<1>10. Unchanged'
  BY <1>1, <1>2, <1>3, <1>4 DEF Sound, Unchanged, InFile, Early, Installation
<1>11. SetAside'
  BY <1>1, <1>2, <1>4 DEF Sound, SetAside, OwnedPaths, Installation
<1>12. ReceiptOK' /\ Books' /\ ApplySettles'
  BY <1>1, <1>2 DEF Sound, ReceiptOK, Books, Ledger, OwnedPaths, ApplySettles
<1> QED BY <1>5, <1>6, <1>7, <1>8, <1>9, <1>10, <1>11, <1>12 DEF Sound

\* The file that the loop is at is not one of those before it.
LEMMA HereLemma ==
  ASSUME Sound, pc \in {"clear", "backup", "swap"}
  PROVE  /\ job.at \in 1..Len(job.dest) /\ Len(job.dest) \in Nat /\ job.begun \in Nat
         /\ Here \in Paths /\ Here = job.dest[job.at]
         /\ \A i \in 1..Len(job.dest) : job.dest[i] \in Paths /\ (i # job.at => job.dest[i] # Here)
         /\ broken = "nothing" /\ Installation /\ recipe.type # "script"
<1>1. job.at \in DOMAIN job.dest /\ job.dest \in Seq(Paths) /\ IsInjective(job.dest)
      /\ job.begun \in 0..Len(job.dest)
  BY DEF Sound, Typed, TypeOK
<1>2. broken = "nothing" /\ Installation /\ recipe.type # "script"
  BY DEF Sound, Doing, InFile
<1> QED BY <1>1, <1>2 DEF Here, IsInjective

LEMMA ClearSound == ASSUME Ind, Sound, Clear PROVE Sound'
<1>1. /\ disk' = disk /\ taken' = taken /\ feed' = feed /\ recipe' = recipe
      /\ declared' = declared /\ locked' = locked /\ before' = before /\ broken' = broken /\ astray' = astray
      /\ pc = "clear" /\ job.begun = job.at - 1
  BY DEF Clear, files, world, ghosts, Sound, Counting
<1>2. /\ job.at \in 1..Len(job.dest) /\ Len(job.dest) \in Nat
      /\ Here \in Paths /\ Here = job.dest[job.at]
      /\ \A i \in 1..Len(job.dest) : job.dest[i] \in Paths /\ (i # job.at => job.dest[i] # Here)
      /\ broken = "nothing" /\ Installation /\ recipe.type # "script"
  BY <1>1, HereLemma
<1>3. /\ job'.dest = job.dest /\ job'.kind = job.kind /\ job'.at = job.at
      /\ job'.result \in {job.result, "skipped"}
  BY DEF Clear, Ind, JobFields
<1>4. Here \notin InHand /\ disk[Here] = before[Here]
  <2>1. Here \notin InHand
    BY <1>1, <1>2 DEF InHand
  <2> QED BY <1>1, <1>2, <2>1 DEF Sound, Unchanged, InFile
<1>5. Doing' /\ ReceiptOK' /\ Books' /\ ApplySettles' /\ (Installation /\ ~Removes)'
  BY <1>1, <1>2, <1>3 DEF Clear, Sound, Doing, InFile, Early, Removing, Installation, Removes, ReceiptOK, Books,
     Ledger, OwnedPaths, ApplySettles
<1>6. SetAside'
  BY <1>1, <1>2, <1>3, <1>5 DEF Clear, Sound, SetAside, OwnedPaths, Installation
<1>7. CASE pc' = "undo" /\ job'.begun = job.begun /\ job'.had = job.had /\ bak' = bak
  <2>1. job'.begun = job.begun /\ InHand' = InHand
    BY <1>3, <1>7 DEF InHand
  <2>2. Typed' /\ Counting' /\ Reports'
    BY <1>1, <1>2, <1>3, <1>5, <1>7, <2>1 DEF Sound, Typed, TypeOK, Counting, Reports, Early, Installation
  <2>3. Undoable' /\ Unchanged'
    BY <1>1, <1>2, <1>3, <1>5, <1>7, <2>1 DEF Sound, Undoable, Unchanged, InFile, Early
  <2> QED BY <1>5, <1>6, <2>2, <2>3 DEF Sound
<1>8. CASE /\ disk[Here] = Nothing /\ pc' = "swap" /\ bak' = bak
           /\ job'.begun = job.begun + 1 /\ job'.had = job.had
  <2>1. job'.begun = job.at /\ job.at \notin job'.had
        /\ \A i \in 1..job'.begun : i = job.at \/ i \in 1..job.begun
    BY <1>1, <1>2, <1>8 DEF Sound, Typed, TypeOK
  <2>2. InHand' = InHand \cup {Here}
    BY <1>1, <1>2, <1>3, <2>1 DEF InHand
  <2>3. Typed'
    BY <1>1, <1>2, <1>3, <1>8, <2>1 DEF Sound, Typed, TypeOK
  <2>4. Counting' /\ Reports'
    BY <1>1, <1>2, <1>3, <1>5, <1>8, <2>1 DEF Sound, Counting, Reports, Early, Installation
  <2>5. Undoable'
    <3>1. disk'[Here'] = Nothing
      BY <1>1, <1>2, <1>3, <1>8 DEF Here
    <3>2. before[job.dest[job.at]] = Nothing
      BY <1>2, <1>4, <1>8
    <3> QED BY <1>1, <1>2, <1>3, <1>8, <2>1, <3>1, <3>2 DEF Sound, Undoable, InFile
  <2>6. Unchanged'
    BY <1>1, <1>2, <1>3, <1>5, <1>8, <2>2 DEF Sound, Unchanged, InFile, Early
  <2> QED BY <1>5, <1>6, <2>3, <2>4, <2>5, <2>6 DEF Sound
<1>9. CASE disk[Here] # Nothing /\ pc' = "backup" /\ job' = job /\ bak' = [bak EXCEPT ![Here] = Nothing]
  <2>1. job'.begun = job.begun /\ InHand' = InHand /\ Here' = Here
    BY <1>9 DEF InHand, Here
  <2>2. \A i \in 1..job.begun : bak'[job.dest[i]] = bak[job.dest[i]]
    BY <1>1, <1>2, <1>9
  <2>3. Typed'
    BY <1>1, <1>2, <1>3, <1>9 DEF Sound, Typed, TypeOK
  <2>4. Counting' /\ Reports'
    BY <1>1, <1>2, <1>3, <1>5, <1>9, <2>1 DEF Sound, Counting, Reports, Early, Installation
  <2>5. Undoable'
    BY <1>1, <1>2, <1>9, <2>1, <2>2 DEF Sound, Undoable, InFile
  <2>6. Unchanged'
    BY <1>1, <1>2, <1>5, <1>9, <2>1 DEF Sound, Unchanged, InFile, Early
  <2> QED BY <1>5, <1>6, <2>3, <2>4, <2>5, <2>6 DEF Sound
<1>10. \/ pc' = "undo" /\ job'.begun = job.begun /\ job'.had = job.had /\ bak' = bak
       \/ /\ disk[Here] = Nothing /\ pc' = "swap" /\ bak' = bak
          /\ job'.begun = job.begun + 1 /\ job'.had = job.had
       \/ disk[Here] # Nothing /\ pc' = "backup" /\ job' = job /\ bak' = [bak EXCEPT ![Here] = Nothing]
  BY DEF Clear, Ind, JobFields
<1> QED BY <1>7, <1>8, <1>9, <1>10

LEMMA OneMore ==
  ASSUME NEW n \in Nat, NEW m, n + 1 = m
  PROVE  1..m = (1..n) \cup {m} /\ m \notin 1..n
OBVIOUS

LEMMA BackupSound == ASSUME Ind, Sound, Backup PROVE Sound'
<1>1. /\ taken' = taken /\ feed' = feed /\ recipe' = recipe
      /\ declared' = declared /\ locked' = locked /\ before' = before /\ broken' = broken /\ astray' = astray
      /\ pc = "backup" /\ pc' = "swap" /\ job.begun = job.at - 1
      /\ disk' = [disk EXCEPT ![Here] = Nothing] /\ bak' = [bak EXCEPT ![Here] = disk[Here]]
  BY DEF Backup, Place, world, ghosts, Sound, Counting
<1>2. /\ job.at \in 1..Len(job.dest) /\ Len(job.dest) \in Nat
      /\ Here \in Paths /\ Here = job.dest[job.at]
      /\ \A i \in 1..Len(job.dest) : job.dest[i] \in Paths /\ (i # job.at => job.dest[i] # Here)
      /\ broken = "nothing" /\ Installation /\ recipe.type # "script"
  BY <1>1, HereLemma
<1>3. /\ job'.dest = job.dest /\ job'.kind = job.kind /\ job'.at = job.at /\ job'.result = job.result
      /\ job'.begun = job.begun + 1 /\ job'.had = job.had \cup {job.begun + 1}
  BY DEF Backup, Ind, JobFields
<1>4. disk[Here] = before[Here] /\ disk[Here] # Nothing
  <2>1. Here \notin InHand
    BY <1>1, <1>2 DEF InHand
  <2> QED BY <1>1, <1>2, <2>1 DEF Sound, Unchanged, Undoable, InFile
<1>5. Doing' /\ ReceiptOK' /\ Books' /\ ApplySettles' /\ (Installation /\ ~Removes)'
  BY <1>1, <1>2, <1>3 DEF Sound, Doing, InFile, Early, Removing, Installation, Removes, ReceiptOK, Books,
     Ledger, OwnedPaths, ApplySettles
<1>6. SetAside'
  BY <1>1, <1>2, <1>3, <1>5 DEF Sound, SetAside, OwnedPaths, Installation
<1>7. /\ job'.begun = job.at /\ job.at \in job'.had
      /\ \A i \in 1..job'.begun : i = job.at \/ (i \in 1..job.begun /\ (i \in job'.had <=> i \in job.had))
      /\ job'.had \subseteq 1..job'.begun
  <2>1. job.at \in Nat /\ job.begun + 1 = job.at /\ job.had \subseteq 1..job.begun
    BY <1>1, <1>2 DEF Sound, Typed, TypeOK
  <2> HIDE DEF Sound
  <2>2. job'.begun = job.at /\ job'.had = job.had \cup {job.at}
    BY <1>3, <2>1
  <2>3. job.begun \in Nat
    BY <1>1, HereLemma
  <2>4. 1..job.at = (1..job.begun) \cup {job.at} /\ job.at \notin 1..job.begun
    BY <2>1, <2>3, OneMore
  <2>5. job.at \in job'.had /\ job'.had \subseteq 1..job.at
    BY <2>1, <2>2, <2>4
  <2>6. ASSUME NEW i \in 1..job.at, i # job.at
        PROVE  i \in 1..job.begun /\ (i \in job'.had <=> i \in job.had)
    BY <2>2, <2>4, <2>6
  <2>7. \A i \in 1..job.at : i = job.at \/ (i \in 1..job.begun /\ (i \in job'.had <=> i \in job.had))
    BY <2>6
  <2>8. 1..job'.begun = 1..job.at
    BY <2>2
  <2> QED BY <2>2, <2>5, <2>7, <2>8, Zenon
<1>8. InHand' = InHand \cup {Here} /\ Here' = Here
  BY <1>1, <1>2, <1>3, <1>7 DEF InHand, Here
<1>9. /\ \A p \in Paths \ {Here} : disk'[p] = disk[p] /\ bak'[p] = bak[p]
      /\ disk'[Here] = Nothing /\ bak'[Here] = before[Here]
  BY <1>1, <1>2, <1>4 DEF Sound, Typed, TypeOK
<1>10. Typed'
  <2>1. \A f \in {disk', bak', taken', before'} : DOMAIN f = Paths /\ f = [p \in Paths |-> f[p]]
    BY <1>1 DEF Sound, Typed, TypeOK
  <2>2. job'.begun \in 0..Len(job'.dest) /\ job'.at \in DOMAIN job'.dest
    BY <1>2, <1>3, <1>7 DEF Sound, Typed
  <2> QED BY <1>1, <1>3, <1>7, <2>1, <2>2 DEF Sound, Typed, TypeOK
<1>11. Counting' /\ Reports'
  <2>1. Counting'
    BY <1>1, <1>2, <1>3, <1>5, <1>7 DEF Sound, Counting, Early, Installation
  <2>2. \A i \in 1..(job.at - 1) : job.dest[i] \in Paths \ {Here}
    BY <1>2
  <2> QED BY <1>1, <1>2, <1>3, <1>9, <2>1, <2>2 DEF Sound, Reports
<1>12. Undoable'
  BY SMTT(30), <1>1, <1>2, <1>3, <1>4, <1>7, <1>8, <1>9 DEF Sound, Undoable, InFile
<1>13. Unchanged'
  BY <1>1, <1>2, <1>3, <1>5, <1>8, <1>9 DEF Sound, Unchanged, InFile, Early
<1> QED BY <1>5, <1>6, <1>10, <1>11, <1>12, <1>13 DEF Sound

\* What a step of an installation leaves alone, whatever it does to the files.
LEMMA InstallFrame ==
  ASSUME Sound, Installation, pc \notin {"idle", "succeed"},
         pc' \notin {"idle", "succeed", "take", "delete"},
         taken' = taken, locked' = locked, before' = before, declared' = declared, recipe' = recipe,
         job'.kind = job.kind, job'.result \in {job.result, "error", "skipped"},
         pc # "fail", astray \subseteq astray'
  PROVE  SetAside' /\ ReceiptOK' /\ Books' /\ ApplySettles' /\ Installation' /\ ~Removes' /\ ~Removes
<1>1. Installation' /\ ~Removes' /\ ~Removes
  BY DEF Installation, Removes
<1>2. SetAside'
  <2>1. taken' = taken /\ \A p \in Paths : taken[p] = Nothing
    BY DEF Sound, SetAside, Doing, Removing, Installation
  <2> QED BY <1>1, <2>1 DEF SetAside
<1>3. ReceiptOK' /\ Books'
  BY DEF Sound, ReceiptOK, Books, Ledger, OwnedPaths
<1> QED BY <1>1, <1>2, <1>3 DEF ApplySettles

LEMMA SwapSound == ASSUME Ind, Sound, Swap PROVE Sound'
<1>1. /\ bak' = bak /\ taken' = taken /\ feed' = feed /\ recipe' = recipe
      /\ declared' = declared /\ locked' = locked /\ before' = before /\ broken' = broken /\ astray' = astray
      /\ pc = "swap" /\ pc' = (IF job.at < Len(job.dest) THEN "clear" ELSE "detect") /\ job.begun = job.at
      /\ disk' = [disk EXCEPT ![Here] = Bin(job.ver, job.says)]
  BY DEF Swap, Place, world, Sound, Counting
<1>2. /\ job.at \in 1..Len(job.dest) /\ Len(job.dest) \in Nat
      /\ Here \in Paths /\ Here = job.dest[job.at]
      /\ \A i \in 1..Len(job.dest) : job.dest[i] \in Paths /\ (i # job.at => job.dest[i] # Here)
      /\ broken = "nothing" /\ Installation /\ recipe.type # "script"
  BY <1>1, HereLemma
<1>3. /\ job'.dest = job.dest /\ job'.kind = job.kind /\ job'.at = job.at + 1
      /\ job'.begun = job.begun /\ job'.had = job.had /\ job'.result = job.result
  BY DEF Swap, Ind, JobFields
<1>4. SetAside' /\ ReceiptOK' /\ Books' /\ ApplySettles' /\ Installation' /\ ~Removes' /\ ~Removes
  BY <1>1, <1>2, <1>3, InstallFrame
<1>5. Doing'
  BY <1>1, <1>2, <1>3, <1>4 DEF Sound, Doing, InFile, Early, Removing
<1>6. InHand' = InHand /\ Here \in InHand
  BY <1>1, <1>2, <1>3 DEF InHand
<1>7. /\ \A p \in Paths \ {Here} : disk'[p] = disk[p]
      /\ disk'[Here].by = "genv"
  BY <1>1, <1>2 DEF Sound, Typed, TypeOK, Bin
<1>8. Typed'
  <2>1. DOMAIN disk' = Paths /\ disk' = [p \in Paths |-> disk'[p]]
    BY <1>1 DEF Sound, Typed, TypeOK
  <2>2. job'.at \in Nat \ {0} /\ (pc' = "clear" => job'.at \in DOMAIN job'.dest)
    BY <1>1, <1>2, <1>3 DEF Sound, Typed
  <2> QED BY <1>1, <1>3, <2>1, <2>2 DEF Sound, Typed, TypeOK
<1>9. Counting'
  BY <1>1, <1>2, <1>3, <1>4 DEF Sound, Counting, Early, Installation
<1>10. Reports'
  <2>1. ASSUME NEW i \in 1..job.at PROVE disk'[job.dest[i]].by = "genv"
    <3>1. CASE i = job.at
      BY <1>2, <1>7, <3>1
    <3>2. CASE i # job.at
      <4>1. job.dest[i] \in Paths \ {Here} /\ i \in 1..(job.at - 1)
        BY <1>2, <3>2
      <4> QED BY <1>1, <1>2, <1>7, <4>1 DEF Sound, Reports
    <3> QED BY <3>1, <3>2
  <2> QED BY <1>1, <1>2, <1>3, <2>1 DEF Reports, Sound, Typed
<1>11. Undoable'
  BY <1>1, <1>2, <1>3 DEF Sound, Undoable, InFile
<1>12. Unchanged'
  BY <1>1, <1>2, <1>3, <1>4, <1>6, <1>7 DEF Sound, Unchanged, InFile, Early
<1> QED BY <1>4, <1>5, <1>8, <1>9, <1>10, <1>11, <1>12 DEF Sound

\* The transaction that is given up is the last one begun.
LEMMA DroppedLemma ==
  ASSUME Ind, Typed, job.begun > 0, NEW j, j = Dropped(job)
  PROVE  /\ j.kind = job.kind /\ j.dest = job.dest /\ j.at = job.at /\ j.result = job.result /\ DOMAIN j = JobFields
         /\ j.begun = job.begun - 1 /\ j.had = job.had \ {job.begun} /\ j.had \subseteq 1..j.begun
         /\ job.begun \in 1..Len(job.dest) /\ Len(job.dest) \in Nat
         /\ job.dest[job.begun] \in Paths
         /\ \A i \in 1..j.begun : /\ i \in 1..job.begun /\ (i \in j.had <=> i \in job.had)
                                  /\ job.dest[i] \in Paths /\ job.dest[i] # job.dest[job.begun]
         /\ \A i \in 1..job.begun : i \in 1..j.begun \/ i = job.begun
<1>1. /\ j.kind = job.kind /\ j.dest = job.dest /\ j.at = job.at /\ j.result = job.result /\ DOMAIN j = JobFields
      /\ j.begun = job.begun - 1 /\ j.had = job.had \ {job.begun}
  BY DEF Dropped, Ind, JobFields
<1>2. /\ job.dest \in Seq(Paths) /\ IsInjective(job.dest) /\ job.begun \in 0..Len(job.dest)
      /\ job.had \subseteq 1..job.begun
  BY DEF Typed, TypeOK
<1>3. job.begun \in 1..Len(job.dest) /\ Len(job.dest) \in Nat /\ job.begun \in Nat
  BY <1>2
<1>4. j.begun \in Nat /\ j.begun + 1 = job.begun
  BY <1>1, <1>3
<1>5. 1..job.begun = (1..j.begun) \cup {job.begun} /\ job.begun \notin 1..j.begun
  BY <1>4, OneMore
<1>6. j.had \subseteq 1..j.begun /\ \A i \in 1..j.begun : i \in j.had <=> i \in job.had
  BY <1>1, <1>2, <1>5
<1>7. \A i \in 1..job.begun : i \in DOMAIN job.dest /\ job.dest[i] \in Paths
  BY <1>2, <1>3
<1>8. \A i \in 1..job.begun : i # job.begun => job.dest[i] # job.dest[job.begun]
  BY <1>2, <1>3, <1>7 DEF IsInjective
<1>9. \A i \in 1..j.begun : i \in 1..job.begun /\ i # job.begun
  BY <1>5
<1> QED BY <1>1, <1>3, <1>5, <1>6, <1>7, <1>8, <1>9

LEMMA SwapFailsSound == ASSUME Ind, Sound, SwapFails PROVE Sound'
<1>1. /\ taken' = taken /\ feed' = feed /\ recipe' = recipe
      /\ declared' = declared /\ locked' = locked /\ before' = before /\ broken' = broken /\ astray' = astray
      /\ pc = "swap" /\ pc' = "undo" /\ job.begun = job.at
  BY DEF SwapFails, Place, world, ghosts, Sound, Counting
<1>2. /\ job.at \in 1..Len(job.dest) /\ Len(job.dest) \in Nat
      /\ Here \in Paths /\ Here = job.dest[job.at]
      /\ \A i \in 1..Len(job.dest) : job.dest[i] \in Paths /\ (i # job.at => job.dest[i] # Here)
      /\ broken = "nothing" /\ Installation /\ recipe.type # "script"
  BY <1>1, HereLemma
<1> DEFINE j == Dropped(job)
<1>3. /\ j.kind = job.kind /\ j.dest = job.dest /\ j.at = job.at /\ DOMAIN j = JobFields
      /\ j.begun = job.begun - 1 /\ j.had = job.had \ {job.begun} /\ j.had \subseteq 1..j.begun
      /\ \A i \in 1..j.begun : /\ i \in 1..job.begun /\ (i \in j.had <=> i \in job.had)
                               /\ job.dest[i] \in Paths /\ job.dest[i] # Here
      /\ \A i \in 1..job.begun : i \in 1..j.begun \/ i = job.begun
  <2>1. job.begun > 0 /\ Typed
    BY <1>1, <1>2 DEF Sound
  <2> QED BY <1>1, <1>2, <2>1, DroppedLemma
<1>4. job' = [j EXCEPT !.result = "error"]
  BY DEF SwapFails
<1> HIDE DEF j
<1>5. /\ job'.dest = job.dest /\ job'.kind = job.kind /\ job'.at = job.at
      /\ job'.begun = j.begun /\ job'.had = j.had /\ job'.result = "error"
  BY <1>3, <1>4 DEF JobFields
<1>6. SetAside' /\ ReceiptOK' /\ Books' /\ ApplySettles' /\ Installation' /\ ~Removes' /\ ~Removes
  BY <1>1, <1>2, <1>5, InstallFrame
<1>7. Doing'
  BY <1>1, <1>2, <1>5, <1>6 DEF Sound, Doing, InFile, Early, Removing
<1>8. /\ DOMAIN disk' = Paths /\ DOMAIN bak' = Paths
      /\ disk' = [p \in Paths |-> disk'[p]] /\ bak' = [p \in Paths |-> bak'[p]]
      /\ \A p \in Paths \ {Here} : disk'[p] = disk[p] /\ bak'[p] = bak[p]
      /\ disk'[Here] = IF job.begun \in job.had THEN bak[Here] ELSE disk[Here]
  BY <1>1, <1>2 DEF SwapFails, Place, Sound, Typed, TypeOK
<1>9. disk'[Here] = before[Here]
  <2>1. /\ job.begun \in job.had => bak[Here] = before[Here]
        /\ job.begun \notin job.had => before[Here] = Nothing
        /\ disk[Here] = Nothing
    BY <1>1, <1>2 DEF Sound, Undoable, InFile
  <2> QED BY <1>8, <2>1
<1>10. Typed'
  BY <1>1, <1>2, <1>3, <1>5, <1>8 DEF Sound, Typed, TypeOK
<1>11. Counting' /\ Reports'
  BY <1>1, <1>2, <1>5, <1>6 DEF Sound, Counting, Reports, Early, Installation
<1>12. Undoable'
  BY <1>1, <1>2, <1>3, <1>5, <1>8 DEF Sound, Undoable, InFile
<1>13. InHand \subseteq InHand' \cup {Here}
  BY <1>1, <1>2, <1>3, <1>5 DEF InHand
<1>14. Unchanged'
  BY <1>1, <1>2, <1>5, <1>6, <1>8, <1>9, <1>13 DEF Sound, Unchanged, InFile, Early
<1> QED BY <1>6, <1>7, <1>10, <1>11, <1>12, <1>14 DEF Sound

\* Of what scripts do to the disk there is no record: only the bookkeeping of the
\* command is at stake.
LEMMA RunScriptSound == ASSUME Ind, Sound, RunScript PROVE Sound'
<1>1. /\ bak' = bak /\ taken' = taken /\ feed' = feed /\ recipe' = recipe /\ job' = job
      /\ declared' = declared /\ locked' = locked /\ before' = before /\ broken' = broken
      /\ pc = "script" /\ pc' = "detect" /\ astray' = astray \cup {recipe.detect}
      /\ disk' = [disk EXCEPT ![recipe.detect] = Bin(job.ver, job.says)]
  BY DEF RunScript, Place, world
<1>2. Installation /\ recipe.type = "script" /\ recipe.detect \in Paths /\ broken = "nothing"
  BY <1>1, ExternalAssumption DEF Sound, Doing, Typed, TypeOK
<1>3. SetAside' /\ ReceiptOK' /\ Books' /\ ApplySettles' /\ Installation' /\ ~Removes' /\ ~Removes
  BY <1>1, <1>2, InstallFrame
<1>4. Typed'
  <2>1. DOMAIN disk' = Paths /\ disk' = [p \in Paths |-> disk'[p]]
    BY <1>1 DEF Sound, Typed, TypeOK
  <2> QED BY <1>1, <1>2, <2>1 DEF Sound, Typed, TypeOK
<1>5. Doing' /\ Counting' /\ Reports'
  BY <1>1, <1>2, <1>3 DEF Sound, Doing, Counting, Reports, InFile, Early, Removing
<1>6. job.begun = 0 /\ InHand' = {} /\ InHand = {}
  BY <1>1, <1>2 DEF Sound, Counting, InHand
<1>7. Undoable'
  BY <1>1, <1>6 DEF Undoable
<1>8. Unchanged'
  <2>1. \A p \in Paths \ {recipe.detect} : disk'[p] = disk[p]
    BY <1>1 DEF Sound, Typed, TypeOK
  <2> QED BY <1>1, <1>2, <1>6, <2>1 DEF Sound, Unchanged, InFile, Early
<1> QED BY <1>3, <1>4, <1>5, <1>7, <1>8 DEF Sound

LEMMA ScriptFailsSound == ASSUME Ind, Sound, ScriptFails PROVE Sound'
<1>1. /\ bak' = bak /\ taken' = taken /\ feed' = feed /\ recipe' = recipe
      /\ declared' = declared /\ locked' = locked /\ before' = before /\ broken' = broken
      /\ pc = "script" /\ pc' = "fail" /\ astray' = astray \cup {recipe.detect}
  BY DEF ScriptFails, Fails, world
<1>2. Installation /\ recipe.type = "script" /\ recipe.detect \in Paths /\ broken = "nothing"
  BY <1>1, ExternalAssumption DEF Sound, Doing, Typed, TypeOK
<1>3. /\ job'.dest = job.dest /\ job'.kind = job.kind /\ job'.at = job.at
      /\ job'.begun = job.begun /\ job'.had = job.had /\ job'.result = "error"
  BY DEF ScriptFails, Fails, Ind, JobFields
<1>4. SetAside' /\ ReceiptOK' /\ Books' /\ ApplySettles' /\ Installation' /\ ~Removes' /\ ~Removes
  BY <1>1, <1>2, <1>3, InstallFrame
<1>5. /\ DOMAIN disk' = Paths /\ disk' = [p \in Paths |-> disk'[p]]
      /\ \A p \in Paths \ {recipe.detect} : disk'[p] = disk[p]
  BY DEF ScriptFails, Uninstalled, Sound, Typed, TypeOK
<1>6. Typed'
  BY <1>1, <1>2, <1>3, <1>5 DEF Sound, Typed, TypeOK
<1>7. job.begun = 0 /\ InHand' = {} /\ InHand = {}
  BY <1>1, <1>2, <1>3 DEF Sound, Counting, InHand
<1>8. Doing' /\ Counting' /\ Reports' /\ Undoable'
  BY <1>1, <1>2, <1>3, <1>4, <1>7 DEF Sound, Doing, Counting, Reports, Undoable, InFile, Early, Removing
<1>9. Unchanged'
  BY <1>1, <1>2, <1>4, <1>5, <1>7 DEF Sound, Unchanged, InFile, Early
<1> QED BY <1>4, <1>6, <1>8, <1>9 DEF Sound

LEMMA DetectSound == ASSUME Ind, Sound, Detect PROVE Sound'
<1>1. /\ disk' = disk /\ bak' = bak /\ taken' = taken /\ feed' = feed /\ recipe' = recipe
      /\ declared' = declared /\ locked' = locked /\ before' = before /\ broken' = broken /\ astray' = astray
      /\ pc = "detect" /\ pc' \in {"record", "finish", "undo"}
  BY DEF Detect, files, world, ghosts
<1>2. Installation /\ broken = "nothing"
  BY <1>1 DEF Sound, Doing
<1>3. /\ job'.dest = job.dest /\ job'.kind = job.kind /\ job'.ver = job.ver
      /\ job'.begun = job.begun /\ job'.had = job.had /\ (job'.at = 1 \/ job'.at = job.at)
      /\ job'.result \in {job.result, "error"}
      /\ pc' = "finish" => job'.at = 1
  BY DEF Detect, Ind, JobFields
<1>4. /\ pc' \in {"record", "finish"} => Detected # 0 /\ Detected = job.ver
      /\ pc' = "record" => recipe.type = "script"
      /\ pc' = "finish" => recipe.type # "script"
  BY DEF Detect
<1>5. SetAside' /\ ReceiptOK' /\ Books' /\ ApplySettles' /\ Installation' /\ ~Removes' /\ ~Removes
  BY <1>1, <1>2, <1>3, InstallFrame
<1>6. Typed'
  <2>1. pc' = "finish" => 1 \in DOMAIN job.dest
    <3>1. pc' = "finish" => job.dest # <<>> /\ job.dest \in Seq(Paths)
      BY <1>1, <1>4 DEF Sound, Counting, Typed
    <3> QED BY <3>1
  <2> QED BY <1>1, <1>3, <2>1 DEF Sound, Typed, TypeOK
<1>7. Doing' /\ Counting'
  BY <1>1, <1>2, <1>3, <1>4, <1>5 DEF Sound, Doing, Counting, InFile, Early, Removing, Installation
<1>8. Reports'
  BY <1>1, <1>3, <1>4 DEF Sound, Reports, Detected
<1>9. InHand' = InHand
  BY <1>3 DEF InHand
<1>10. Undoable' /\ Unchanged'
  BY <1>1, <1>2, <1>3, <1>4, <1>5, <1>9 DEF Sound, Undoable, Unchanged, InFile, Early
<1> QED BY <1>5, <1>6, <1>7, <1>8, <1>10 DEF Sound

\* The transactions are given up one by one, the last one first.
LEMMA UndoSound == ASSUME Ind, Sound, Undo PROVE Sound'
<1>1. /\ bak' = bak /\ taken' = taken /\ feed' = feed /\ recipe' = recipe /\ job' = job
      /\ declared' = declared /\ locked' = locked /\ before' = before /\ broken' = broken /\ astray' = astray
      /\ pc = "undo" /\ recipe.type # "script" /\ InHand' = InHand /\ pc' \in {"fail", "putback"}
  BY DEF Undo, world, ghosts, InHand
<1>2. Installation
  BY <1>1 DEF Sound, Doing
<1>3. SetAside' /\ ReceiptOK' /\ Books' /\ ApplySettles' /\ Installation' /\ ~Removes' /\ ~Removes
  BY <1>1, <1>2, InstallFrame
<1>4. Doing' /\ Reports'
  BY <1>1, <1>2, <1>3 DEF Sound, Doing, Reports, InFile, Early, Removing
<1>5. CASE job.begun = 0 /\ pc' = "fail" /\ disk' = disk
  <2>1. InHand = {}
    BY <1>5 DEF InHand
  <2>2. Typed' /\ Counting' /\ Undoable'
    BY <1>1, <1>2, <1>3, <1>5 DEF Sound, Typed, TypeOK, Counting, Undoable, Early, InFile
  <2>3. broken = "nothing" => disk = before
    <3>1. broken = "nothing" => \A p \in Paths : disk[p] = before[p]
      BY <1>1, <2>1 DEF Sound, Unchanged
    <3> QED BY <3>1 DEF Sound, Typed
  <2>4. Unchanged'
    BY <1>1, <1>3, <1>5, <2>1, <2>3 DEF Sound, Unchanged, InFile, Early
  <2> QED BY <1>3, <1>4, <2>2, <2>4 DEF Sound
<1>6. CASE job.begun # 0 /\ pc' = "putback" /\ disk' = [disk EXCEPT ![job.dest[job.begun]] = Nothing]
  <2>1. job.begun > 0 /\ job.begun \in 1..job.begun /\ job.begun \in 1..Len(job.dest) /\ job.dest[job.begun] \in Paths
    BY <1>6 DEF Sound, Typed, TypeOK
  <2>2. /\ DOMAIN disk' = Paths /\ disk' = [p \in Paths |-> disk'[p]]
        /\ \A p \in Paths \ {job.dest[job.begun]} : disk'[p] = disk[p]
        /\ disk'[job.dest[job.begun]] = Nothing
    BY <1>6, <2>1 DEF Sound, Typed, TypeOK
  <2>3. Typed' /\ Counting'
    BY <1>1, <1>2, <1>3, <1>6, <2>1, <2>2 DEF Sound, Typed, TypeOK, Counting, Early
  <2>4. Undoable'
    BY <1>1, <1>6, <2>2 DEF Sound, Undoable, InFile
  <2>5. job.dest[job.begun] \in InHand
    BY <2>1 DEF InHand
  <2>6. Unchanged'
    BY <1>1, <1>3, <1>6, <2>2, <2>5 DEF Sound, Unchanged, InFile, Early
  <2> QED BY <1>3, <1>4, <2>3, <2>4, <2>6 DEF Sound
<1> QED BY <1>5, <1>6 DEF Undo, Place

LEMMA PutBackSound == ASSUME Ind, Sound, PutBack PROVE Sound'
<1> DEFINE p0 == job.dest[job.begun]
<1>1. /\ taken' = taken /\ feed' = feed /\ recipe' = recipe
      /\ declared' = declared /\ locked' = locked /\ before' = before /\ broken' = broken /\ astray' = astray
      /\ pc = "putback" /\ pc' = "undo" /\ job.begun > 0
  BY DEF PutBack, Place, world, ghosts, Sound, Counting
<1>2. Installation /\ recipe.type # "script"
  BY <1>1 DEF Sound, Doing, InFile
<1>3. /\ job'.kind = job.kind /\ job'.dest = job.dest /\ job'.at = job.at /\ job'.result = job.result
      /\ job'.begun = job.begun - 1 /\ job'.had = job.had \ {job.begun} /\ job'.had \subseteq 1..job'.begun
      /\ job.begun \in 1..Len(job.dest) /\ p0 \in Paths
      /\ \A i \in 1..job'.begun : /\ i \in 1..job.begun /\ (i \in job'.had <=> i \in job.had)
                                 /\ job.dest[i] \in Paths /\ job.dest[i] # p0
      /\ \A i \in 1..job.begun : i \in 1..job'.begun \/ i = job.begun
  <2>1. job' = Dropped(job)
    BY DEF PutBack
  <2> QED BY <1>1, <2>1, DroppedLemma DEF Sound
<1>4. SetAside' /\ ReceiptOK' /\ Books' /\ ApplySettles' /\ Installation' /\ ~Removes' /\ ~Removes
  BY <1>1, <1>2, <1>3, InstallFrame
<1>5. Doing' /\ Reports'
  BY <1>1, <1>2, <1>3, <1>4 DEF Sound, Doing, Reports, InFile, Early, Removing
<1>6. /\ DOMAIN disk' = Paths /\ DOMAIN bak' = Paths
      /\ disk' = [p \in Paths |-> disk'[p]] /\ bak' = [p \in Paths |-> bak'[p]]
      /\ \A p \in Paths \ {p0} : disk'[p] = disk[p] /\ bak'[p] = bak[p]
      /\ disk'[p0] = IF job.begun \in job.had /\ bak[p0] # Nothing THEN bak[p0] ELSE disk[p0]
  BY <1>3 DEF PutBack, Place, Sound, Typed, TypeOK
<1>7. /\ p0 \in astray \/ disk'[p0] = before[p0] \/ disk'[p0] = Nothing
      /\ broken = "nothing" => disk'[p0] = before[p0]
  <2>1. /\ job.begun \in job.had => \/ bak[p0] = before[p0] /\ before[p0] # Nothing
                                    \/ bak[p0] = Nothing /\ broken # "nothing"
        /\ job.begun \notin job.had => before[p0] = Nothing
        /\ disk[p0] = Nothing \/ (broken # "nothing" /\ p0 \in astray)
    <3>1. job.begun \in 1..job.begun
      BY <1>3
    <3> QED BY <1>1, <3>1 DEF Sound, Undoable, InFile
  <2> QED BY <1>6, <2>1
<1>8. Typed' /\ Counting'
  BY <1>1, <1>2, <1>3, <1>4, <1>6 DEF Sound, Typed, TypeOK, Counting, Early
<1>9. Undoable'
  BY <1>1, <1>2, <1>3, <1>6 DEF Sound, Undoable, InFile
<1>10. InHand \subseteq InHand' \cup {p0}
  BY <1>3 DEF InHand
<1>11. Unchanged'
  BY <1>1, <1>4, <1>6, <1>7, <1>10 DEF Sound, Unchanged, InFile, Early
<1> QED BY <1>4, <1>5, <1>8, <1>9, <1>11 DEF Sound

LEMMA UndoScriptSound == ASSUME Ind, Sound, UndoScript PROVE Sound'
<1>1. /\ bak' = bak /\ taken' = taken /\ feed' = feed /\ recipe' = recipe /\ job' = job
      /\ declared' = declared /\ locked' = locked /\ before' = before /\ broken' = broken /\ astray' = astray
      /\ pc = "undo" /\ pc' = "fail" /\ recipe.type = "script"
  BY DEF UndoScript, world, ghosts
<1>2. Installation /\ job.begun = 0 /\ InHand = {} /\ InHand' = {}
  BY <1>1 DEF Sound, Doing, Counting, InHand
<1>3. SetAside' /\ ReceiptOK' /\ Books' /\ ApplySettles' /\ Installation' /\ ~Removes' /\ ~Removes
  BY <1>1, <1>2, InstallFrame
<1>4. /\ DOMAIN disk' = Paths /\ disk' = [p \in Paths |-> disk'[p]]
      /\ \A p \in Paths : disk'[p] = disk[p] \/ disk'[p] = Nothing
  BY DEF UndoScript, Uninstalled, Sound, Typed, TypeOK
<1>5. Typed'
  BY <1>1, <1>4 DEF Sound, Typed, TypeOK
<1>6. Doing' /\ Counting' /\ Reports' /\ Undoable'
  BY <1>1, <1>2, <1>3 DEF Sound, Doing, Counting, Reports, Undoable, InFile, Early, Removing
<1>7. Unchanged'
  BY <1>1, <1>2, <1>3, <1>4 DEF Sound, Unchanged, InFile, Early
<1> QED BY <1>3, <1>5, <1>6, <1>7 DEF Sound

\* What cannot be undone is given up as astray.
LEMMA UndoIgnoredSound == ASSUME Ind, Sound, UndoIgnored PROVE Sound'
<1> DEFINE p0 == job.dest[job.begun]
<1>1. /\ disk' = disk /\ bak' = bak /\ taken' = taken /\ feed' = feed /\ recipe' = recipe
      /\ declared' = declared /\ locked' = locked /\ before' = before
      /\ broken' = "undo" /\ astray' = astray \cup {p0}
      /\ pc \in {"undo", "putback"} /\ recipe.type # "script" /\ job.begun # 0
  BY DEF UndoIgnored, files, world
<1>2. Installation
  BY <1>1 DEF Sound, Doing, InFile
<1>3. job.begun > 0 /\ job.begun \in 1..Len(job.dest) /\ p0 \in Paths
  BY <1>1 DEF Sound, Typed, TypeOK
<1>4. CASE pc = "undo" /\ pc' = "putback" /\ job' = job
  <2>1. SetAside' /\ ReceiptOK' /\ Books' /\ ApplySettles' /\ Installation' /\ ~Removes' /\ ~Removes
    BY <1>1, <1>2, <1>4, InstallFrame
  <2>2. Typed' /\ Counting'
    BY <1>1, <1>2, <1>3, <1>4, <2>1 DEF Sound, Typed, TypeOK, Counting, Early
  <2>3. Doing' /\ Reports'
    BY <1>1, <1>2, <1>4, <2>1 DEF Sound, Doing, Reports, InFile, Early, Removing
  <2>4. Undoable'
    BY <1>1, <1>4 DEF Sound, Undoable, InFile
  <2>5. InHand' = InHand
    BY <1>4 DEF InHand
  <2>6. Unchanged'
    BY <1>1, <1>4, <2>5 DEF Sound, Unchanged
  <2> QED BY <2>1, <2>2, <2>3, <2>4, <2>6 DEF Sound
<1>5. CASE pc = "putback" /\ pc' = "undo" /\ job' = Dropped(job)
  <2>1. /\ job'.kind = job.kind /\ job'.dest = job.dest /\ job'.at = job.at /\ job'.result = job.result
        /\ job'.begun = job.begun - 1 /\ job'.had \subseteq 1..job'.begun
        /\ \A i \in 1..job'.begun : i \in 1..job.begun /\ (i \in job'.had <=> i \in job.had)
        /\ \A i \in 1..job.begun : i \in 1..job'.begun \/ i = job.begun
    BY <1>3, <1>5, DroppedLemma DEF Sound
  <2>2. SetAside' /\ ReceiptOK' /\ Books' /\ ApplySettles' /\ Installation' /\ ~Removes' /\ ~Removes
    BY <1>1, <1>2, <1>5, <2>1, InstallFrame
  <2>3. Typed' /\ Counting'
    BY <1>1, <1>2, <1>3, <1>5, <2>1, <2>2 DEF Sound, Typed, TypeOK, Counting, Early
  <2>4. Doing' /\ Reports'
    BY <1>1, <1>2, <1>5, <2>1, <2>2 DEF Sound, Doing, Reports, InFile, Early, Removing
  <2>5. Undoable'
    BY <1>1, <1>5, <2>1 DEF Sound, Undoable, InFile
  <2>6. InHand \subseteq InHand' \cup {p0}
    BY <2>1 DEF InHand
  <2>7. Unchanged'
    BY <1>1, <1>5, <2>2, <2>6 DEF Sound, Unchanged
  <2> QED BY <2>2, <2>3, <2>4, <2>5, <2>7 DEF Sound
<1> QED BY <1>4, <1>5 DEF UndoIgnored

\* The backups go, one file after the other; nothing is put in place any more.
LEMMA FinishSound == ASSUME Ind, Sound, Finish PROVE Sound'
<1>1. /\ disk' = disk /\ taken' = taken /\ feed' = feed /\ recipe' = recipe
      /\ declared' = declared /\ locked' = locked /\ before' = before /\ broken' = broken /\ astray' = astray
      /\ pc = "finish" /\ pc' \in {"finish", "record"}
  BY DEF Finish, world, ghosts
<1>2. /\ job'.kind = job.kind /\ job'.dest = job.dest /\ job'.result = job.result /\ job'.ver = job.ver
      /\ job'.begun = job.begun /\ job'.had = job.had
      /\ job'.at = job.at \/ (job'.at = job.at + 1 /\ job.at < Len(job.dest))
  BY DEF Finish, Ind, JobFields
<1>3. Installation /\ recipe.type # "script" /\ broken = "nothing" /\ job.begun = Len(job.dest) /\ job.dest # <<>>
  BY <1>1 DEF Sound, Doing, Counting, InFile, Typed, TypeOK
<1>4. SetAside' /\ ReceiptOK' /\ Books' /\ ApplySettles' /\ Installation' /\ ~Removes' /\ ~Removes
  BY <1>1, <1>2, <1>3, InstallFrame
<1>5. InHand' = InHand
  BY <1>2 DEF InHand
<1>6. /\ DOMAIN bak' = Paths /\ bak' = [p \in Paths |-> bak'[p]]
      /\ \A p \in Paths : bak'[p] = bak[p] \/ bak'[p] = Nothing
  BY DEF Finish, Sound, Typed, TypeOK
<1>7. Typed'
  <2>1. job'.at \in DOMAIN job'.dest /\ job'.at \in Nat \ {0}
    BY <1>1, <1>2 DEF Sound, Typed, TypeOK
  <2> QED BY <1>1, <1>2, <1>6, <2>1 DEF Sound, Typed, TypeOK
<1>8. Doing' /\ Counting' /\ Reports'
  BY <1>1, <1>2, <1>3, <1>4 DEF Sound, Doing, Counting, Reports, InFile, Early, Removing, Detected, Installation
<1>9. Undoable'
  <2>1. ASSUME NEW i \in 1..job.begun PROVE job.dest[i] \in Paths
    BY <1>3, <2>1 DEF Sound, Typed
  <2> QED BY <1>1, <1>2, <1>6, <2>1 DEF Sound, Undoable, InFile
<1>10. Unchanged'
  BY <1>1, <1>3, <1>4, <1>5 DEF Sound, Unchanged, InFile
<1> QED BY <1>4, <1>7, <1>8, <1>9, <1>10 DEF Sound

LEMMA FinishFailsSound == ASSUME Ind, Sound, FinishFails PROVE Sound'
<1>1. /\ disk' = disk /\ bak' = bak /\ taken' = taken /\ feed' = feed /\ recipe' = recipe
      /\ declared' = declared /\ locked' = locked /\ before' = before /\ broken' = "finish" /\ astray' = astray
      /\ pc = "finish" /\ pc' = "undo"
  BY DEF FinishFails, files, world
<1>2. /\ job'.kind = job.kind /\ job'.dest = job.dest /\ job'.result = "error" /\ job'.at = job.at
      /\ job'.begun = job.begun /\ job'.had = job.had
  BY DEF FinishFails, Ind, JobFields
<1>3. Installation /\ recipe.type # "script"
  BY <1>1 DEF Sound, Doing, InFile
<1>4. SetAside' /\ ReceiptOK' /\ Books' /\ ApplySettles' /\ Installation' /\ ~Removes' /\ ~Removes
  BY <1>1, <1>2, <1>3, InstallFrame
<1>5. InHand' = InHand
  BY <1>2 DEF InHand
<1>6. Typed' /\ Doing' /\ Counting' /\ Reports'
  BY <1>1, <1>2, <1>3, <1>4 DEF Sound, Typed, TypeOK, Doing, Counting, Reports, InFile, Early, Removing
<1>7. Undoable' /\ Unchanged'
  BY <1>1, <1>2, <1>5 DEF Sound, Undoable, Unchanged, InFile
<1> QED BY <1>4, <1>6, <1>7 DEF Sound

\* A removal's steps: what the rest of the invariant needs of them.
LEMMA RemovalFrame ==
  ASSUME Sound, pc \in {"uninstall", "take", "delete"} \/ (pc \in Removing), Removes,
         pc' \in {"take", "delete", "record", "fail"},
         DOMAIN disk' = Paths, DOMAIN taken' = Paths, bak' = bak, before' = before,
         disk' = [p \in Paths |-> disk'[p]], taken' = [p \in Paths |-> taken'[p]],
         \A p \in Paths : disk'[p] \in {disk[p], before[p], Nothing},
         feed' = feed, recipe' = recipe, declared' = declared, locked' = locked, astray' = astray,
         job'.kind = job.kind, job'.dest = job.dest, job'.begun = job.begun, job'.had = job.had,
         job'.at \in Nat \ {0}, job'.result \in {job.result, "error"},
         pc' \in {"take", "delete"} => locked.owned /\ job'.at \in DOMAIN job.dest,
         broken' # "nothing" => pc' = "fail",
         pc' = "fail" /\ broken' = "nothing" => disk' = before
  PROVE  /\ Typed' /\ Doing' /\ Counting' /\ Reports' /\ Undoable' /\ Unchanged'
         /\ ReceiptOK' /\ Books' /\ ApplySettles' /\ Removes'
<1>1. Removes' /\ job.begun = 0 /\ InHand = {} /\ InHand' = {} /\ ~Installation' /\ locked # Unlocked
      /\ job.kind \in {"apply", "remove"}
  BY DEF Sound, Doing, Counting, Removing, InHand, Removes, Installation
<1>2. Typed'
  BY DEF Sound, Typed, TypeOK
<1>3. Doing' /\ Counting'
  BY <1>1 DEF Sound, Doing, Counting, InFile, Early, Removing
<1>4. Reports' /\ Undoable'
  BY <1>1 DEF Reports, Undoable, InFile
<1>5. Unchanged'
  <2>1. \A p \in Paths \ astray : disk'[p] = before[p] \/ disk'[p] = Nothing
    BY <1>1 DEF Sound, Unchanged, Removing
  <2> QED BY <1>1, <2>1 DEF Unchanged, InFile, Early
<1>6. ReceiptOK' /\ Books' /\ ApplySettles'
  BY DEF Sound, ReceiptOK, Books, Ledger, OwnedPaths, ApplySettles, Removing
<1> QED BY <1>1, <1>2, <1>3, <1>4, <1>5, <1>6

LEMMA UninstallSound == ASSUME Ind, Sound, Uninstall PROVE Sound'
<1>1. /\ bak' = bak /\ taken' = taken /\ feed' = feed /\ recipe' = recipe /\ job' = job
      /\ declared' = declared /\ locked' = locked /\ before' = before /\ broken' = broken /\ astray' = astray
      /\ pc = "uninstall" /\ pc' = "record" /\ disk' = [disk EXCEPT ![recipe.detect] = Nothing]
  BY DEF Uninstall, Place, world, ghosts
<1>2. Removes /\ ~locked.owned /\ locked # Unlocked /\ broken = "nothing"
  BY <1>1 DEF Sound, Doing, Removing
<1>3. /\ DOMAIN disk' = Paths /\ disk' = [p \in Paths |-> disk'[p]]
      /\ \A p \in Paths : disk'[p] \in {disk[p], before[p], Nothing}
      /\ DOMAIN taken' = Paths /\ taken' = [p \in Paths |-> taken'[p]]
  BY <1>1 DEF Sound, Typed, TypeOK
<1>4. /\ Typed' /\ Doing' /\ Counting' /\ Reports' /\ Undoable' /\ Unchanged'
      /\ ReceiptOK' /\ Books' /\ ApplySettles' /\ Removes'
  <2>1. job'.at \in Nat \ {0}
    BY <1>1 DEF Sound, Typed
  <2> QED BY <1>1, <1>2, <1>3, <2>1, RemovalFrame
<1>5. OwnedPaths(locked) = {}
  BY <1>2 DEF Sound, ReceiptOK, OwnedPaths
<1>6. SetAside'
  BY <1>1, <1>2, <1>5 DEF Sound, SetAside, OwnedPaths
<1> QED BY <1>4, <1>6 DEF Sound

\* The same of the file that a removal is at.
LEMMA TakenLemma ==
  ASSUME Sound, pc \in {"take", "delete"}
  PROVE  /\ job.at \in 1..Len(job.dest) /\ Len(job.dest) \in Nat /\ job.at \in Nat
         /\ Here \in Paths /\ Here = job.dest[job.at] /\ Here \in Range(job.dest)
         /\ \A i \in DOMAIN job.dest : /\ job.dest[i] \in Paths /\ job.dest[i] \in Range(job.dest)
                                       /\ i # job.at => job.dest[i] # Here
                                       /\ i \in 1..Len(job.dest)
         /\ \A p \in Range(job.dest) : p \in Paths /\ \E i \in DOMAIN job.dest : p = job.dest[i]
         /\ broken = "nothing" /\ Removes /\ locked # Unlocked /\ locked.owned
<1>1. job.at \in DOMAIN job.dest /\ job.dest \in Seq(Paths) /\ IsInjective(job.dest)
  BY DEF Sound, Typed, TypeOK
<1>2. broken = "nothing" /\ Removes /\ locked # Unlocked /\ locked.owned
  BY DEF Sound, Doing, Removing
<1> QED BY <1>1, <1>2 DEF Here, IsInjective, Range

LEMMA TakeSound == ASSUME Ind, Sound, Take PROVE Sound'
<1>1. /\ bak' = bak /\ feed' = feed /\ recipe' = recipe
      /\ declared' = declared /\ locked' = locked /\ before' = before /\ broken' = broken /\ astray' = astray
      /\ pc = "take" /\ taken' = [taken EXCEPT ![Here] = disk[Here]] /\ disk' = [disk EXCEPT ![Here] = Nothing]
      /\ pc' = IF job.at < Len(job.dest) THEN "take" ELSE "delete"
  BY DEF Take, Place, world, ghosts
<1>2. /\ job.at \in 1..Len(job.dest) /\ Len(job.dest) \in Nat /\ job.at \in Nat
      /\ Here \in Paths /\ Here = job.dest[job.at] /\ Here \in Range(job.dest)
      /\ \A i \in DOMAIN job.dest : /\ job.dest[i] \in Paths /\ job.dest[i] \in Range(job.dest)
                                    /\ i # job.at => job.dest[i] # Here
                                    /\ i \in 1..Len(job.dest)
      /\ broken = "nothing" /\ Removes /\ locked # Unlocked /\ locked.owned
  BY <1>1, TakenLemma
<1>3. /\ job'.kind = job.kind /\ job'.dest = job.dest /\ job'.begun = job.begun /\ job'.had = job.had
      /\ job'.result = job.result
      /\ job'.at = (IF job.at < Len(job.dest) THEN job.at + 1 ELSE 1)
  BY DEF Take, Ind, JobFields
<1>4. /\ DOMAIN disk' = Paths /\ disk' = [p \in Paths |-> disk'[p]]
      /\ DOMAIN taken' = Paths /\ taken' = [p \in Paths |-> taken'[p]]
      /\ \A p \in Paths \ {Here} : disk'[p] = disk[p] /\ taken'[p] = taken[p]
      /\ disk'[Here] = Nothing /\ taken'[Here] = disk[Here]
  BY <1>1, <1>2 DEF Sound, Typed, TypeOK
<1>5. job'.at \in DOMAIN job.dest /\ job'.at \in Nat \ {0}
  BY <1>2, <1>3 DEF Sound, Typed
<1>6. /\ Typed' /\ Doing' /\ Counting' /\ Reports' /\ Undoable' /\ Unchanged'
      /\ ReceiptOK' /\ Books' /\ ApplySettles' /\ Removes'
  <2>1. \A p \in Paths : disk'[p] \in {disk[p], before[p], Nothing}
    BY <1>4
  <2> QED BY <1>1, <1>2, <1>3, <1>4, <1>5, <2>1, RemovalFrame
<1>7. disk[Here] = before[Here] /\ before[Here].by # "user"
  BY <1>1, <1>2 DEF Sound, SetAside
<1>8. ASSUME NEW i \in DOMAIN job.dest
      PROVE  LET p == job.dest[i] IN
               IF pc' = "take" /\ i >= job'.at THEN disk'[p] = before[p] /\ taken'[p] = Nothing
               ELSE /\ disk'[p] = Nothing
                    /\ taken'[p] = IF pc' = "delete" /\ i < job'.at THEN Nothing ELSE before[p]
  <2>1. CASE i = job.at
    BY SMTT(30), <1>1, <1>2, <1>3, <1>4, <1>7, <2>1
  <2>2. CASE i # job.at
    <3>1. /\ disk'[job.dest[i]] = disk[job.dest[i]] /\ taken'[job.dest[i]] = taken[job.dest[i]]
          /\ i \in 1..Len(job.dest)
      BY <1>2, <1>4, <2>2
    <3>2. IF i >= job.at THEN disk[job.dest[i]] = before[job.dest[i]] /\ taken[job.dest[i]] = Nothing
          ELSE disk[job.dest[i]] = Nothing /\ taken[job.dest[i]] = before[job.dest[i]]
      BY <1>1 DEF Sound, SetAside
    <3> QED BY <1>1, <1>2, <1>3, <2>2, <3>1, <3>2
  <2> QED BY <2>1, <2>2
<1>9. SetAside'
  <2>1. pc' \in {"take", "delete"}
    BY <1>1
  <2>2. \A p \in Paths \ Range(job.dest) : disk'[p] = before[p] /\ taken'[p] = Nothing
    BY SMTT(30), <1>1, <1>2, <1>4 DEF Sound, SetAside
  <2>3. Range(job.dest) = DOMAIN locked.hashes /\ \A p \in Range(job.dest) : before[p].by # "user"
    BY <1>1 DEF Sound, SetAside
  <2>4. \A p \in Paths : before[p].by = "user" => disk'[p] = before[p]
    BY <2>2, <2>3
  <2> QED BY <1>1, <1>3, <1>8, <2>1, <2>2, <2>3, <2>4 DEF SetAside
<1> QED BY <1>6, <1>9 DEF Sound

LEMMA DeleteSound == ASSUME Ind, Sound, Delete PROVE Sound'
<1>1. /\ disk' = disk /\ bak' = bak /\ feed' = feed /\ recipe' = recipe
      /\ declared' = declared /\ locked' = locked /\ before' = before /\ broken' = broken /\ astray' = astray
      /\ pc = "delete" /\ taken' = [taken EXCEPT ![Here] = Nothing]
      /\ pc' = IF job.at < Len(job.dest) THEN "delete" ELSE "record"
  BY DEF Delete, world, ghosts
<1>2. /\ job.at \in 1..Len(job.dest) /\ Len(job.dest) \in Nat /\ job.at \in Nat
      /\ Here \in Paths /\ Here = job.dest[job.at] /\ Here \in Range(job.dest)
      /\ \A i \in DOMAIN job.dest : /\ job.dest[i] \in Paths /\ job.dest[i] \in Range(job.dest)
                                    /\ i # job.at => job.dest[i] # Here
                                    /\ i \in 1..Len(job.dest)
      /\ \A p \in Range(job.dest) : p \in Paths /\ \E i \in DOMAIN job.dest : p = job.dest[i]
      /\ broken = "nothing" /\ Removes /\ locked # Unlocked /\ locked.owned
  BY <1>1, TakenLemma
<1>3. /\ job'.kind = job.kind /\ job'.dest = job.dest /\ job'.begun = job.begun /\ job'.had = job.had
      /\ job'.result = job.result
      /\ job'.at = (IF job.at < Len(job.dest) THEN job.at + 1 ELSE job.at)
  BY DEF Delete, Ind, JobFields
<1>4. /\ DOMAIN disk' = Paths /\ disk' = [p \in Paths |-> disk'[p]]
      /\ DOMAIN taken' = Paths /\ taken' = [p \in Paths |-> taken'[p]]
      /\ \A p \in Paths \ {Here} : taken'[p] = taken[p]
      /\ taken'[Here] = Nothing
  BY <1>1, <1>2 DEF Sound, Typed, TypeOK
<1>5. job'.at \in DOMAIN job.dest /\ job'.at \in Nat \ {0}
  BY <1>2, <1>3 DEF Sound, Typed
<1>6. /\ Typed' /\ Doing' /\ Counting' /\ Reports' /\ Undoable' /\ Unchanged'
      /\ ReceiptOK' /\ Books' /\ ApplySettles' /\ Removes'
  BY <1>1, <1>2, <1>3, <1>4, <1>5, RemovalFrame
<1>7. ASSUME NEW i \in DOMAIN job.dest
      PROVE  /\ disk[job.dest[i]] = Nothing
             /\ taken'[job.dest[i]] = IF i <= job.at THEN Nothing ELSE before[job.dest[i]]
  <2>1. /\ disk[job.dest[i]] = Nothing
        /\ taken[job.dest[i]] = IF i < job.at THEN Nothing ELSE before[job.dest[i]]
    BY <1>1 DEF Sound, SetAside
  <2>2. CASE i = job.at
    BY <1>2, <1>4, <2>1, <2>2
  <2>3. CASE i # job.at
    BY <1>2, <1>4, <2>1, <2>3
  <2> QED BY <2>2, <2>3
<1>8. \A p \in Paths \ Range(job.dest) : disk[p] = before[p] /\ taken'[p] = Nothing
  BY <1>1, <1>2, <1>4 DEF Sound, SetAside
<1>9. CASE job.at < Len(job.dest)
  BY <1>1, <1>2, <1>3, <1>6, <1>7, <1>8, <1>9 DEF Sound, SetAside
<1>10. CASE ~(job.at < Len(job.dest))
  <2>1. \A p \in Range(job.dest) : disk[p] = Nothing /\ taken'[p] = Nothing
    BY <1>2, <1>7, <1>10
  <2>2. Range(job.dest) = OwnedPaths(locked)
    BY <1>1, <1>2 DEF Sound, SetAside, OwnedPaths
  <2>3. SetAside'
    BY <1>1, <1>2, <1>6, <1>8, <1>10, <2>1, <2>2 DEF Sound, SetAside, OwnedPaths
  <2> QED BY <1>6, <2>3 DEF Sound
<1> QED BY <1>9, <1>10

\* What has been moved aside goes back, as long as none of it is deleted.
LEMMA RemoveFailsSound == ASSUME Ind, Sound, RemoveFails PROVE Sound'
<1>1. /\ bak' = bak /\ feed' = feed /\ recipe' = recipe
      /\ declared' = declared /\ locked' = locked /\ before' = before /\ astray' = astray
      /\ pc \in {"take", "delete"} /\ pc' = "fail" /\ disk' = Back
      /\ taken' = [p \in Paths |-> IF p \in Range(job.dest) THEN Nothing ELSE taken[p]]
      /\ broken' = (IF pc = "delete" /\ job.at > 1 THEN "delete" ELSE "nothing")
  BY DEF RemoveFails, Fails, world
<1>2. /\ job.at \in 1..Len(job.dest) /\ Len(job.dest) \in Nat /\ job.at \in Nat
      /\ \A i \in DOMAIN job.dest : i \in 1..Len(job.dest)
      /\ \A p \in Range(job.dest) : p \in Paths /\ \E i \in DOMAIN job.dest : p = job.dest[i]
      /\ broken = "nothing" /\ Removes /\ locked # Unlocked /\ locked.owned
  BY <1>1, TakenLemma
<1>3. /\ job'.kind = job.kind /\ job'.dest = job.dest /\ job'.begun = job.begun /\ job'.had = job.had
      /\ job'.result = "error" /\ job'.at = job.at
  BY DEF RemoveFails, Fails, Ind, JobFields
<1>4. /\ DOMAIN disk' = Paths /\ disk' = [p \in Paths |-> disk'[p]]
      /\ DOMAIN taken' = Paths /\ taken' = [p \in Paths |-> taken'[p]]
  BY <1>1 DEF Back
<1>5. \A p \in Paths \ Range(job.dest) : disk[p] = before[p] /\ taken[p] = Nothing
  BY <1>1 DEF Sound, SetAside
<1>6. ASSUME NEW p \in Range(job.dest)
      PROVE  \/ disk[p] = before[p] /\ taken[p] = Nothing
             \/ disk[p] = Nothing /\ taken[p] = before[p]
             \/ disk[p] = Nothing /\ taken[p] = Nothing /\ pc = "delete" /\ job.at > 1
  <2>1. PICK i \in DOMAIN job.dest : p = job.dest[i]
    BY <1>2
  <2>2. IF pc = "take" /\ i >= job.at THEN disk[p] = before[p] /\ taken[p] = Nothing
        ELSE /\ disk[p] = Nothing
             /\ taken[p] = IF pc = "delete" /\ i < job.at THEN Nothing ELSE before[p]
    BY <1>1, <2>1 DEF Sound, SetAside
  <2> QED BY <1>1, <1>2, <2>1, <2>2
<1>7. \A p \in Paths : /\ disk'[p] \in {before[p], Nothing}
                       /\ broken' = "nothing" => disk'[p] = before[p]
  BY <1>1, <1>5, <1>6 DEF Back
<1>8. broken' = "nothing" => disk' = before
  BY <1>4, <1>7 DEF Sound, Typed
<1>9. /\ Typed' /\ Doing' /\ Counting' /\ Reports' /\ Undoable' /\ Unchanged'
      /\ ReceiptOK' /\ Books' /\ ApplySettles' /\ Removes'
  <2>1. \A p \in Paths : disk'[p] \in {disk[p], before[p], Nothing}
    BY <1>7
  <2>2. job'.at \in Nat \ {0}
    BY <1>2, <1>3
  <2> QED BY <1>1, <1>2, <1>3, <1>4, <1>8, <2>1, <2>2, RemovalFrame
<1>10. \A p \in Paths : taken'[p] = Nothing
  BY <1>1, <1>5
<1>11. \A p \in Paths : before[p].by = "user" => disk'[p] = before[p]
  <2>1. \A p \in Range(job.dest) : before[p].by # "user"
    BY <1>1 DEF Sound, SetAside
  <2> QED BY <1>1, <1>5, <2>1 DEF Back
<1>12. SetAside'
  BY <1>1, <1>10, <1>11 DEF SetAside
<1> QED BY <1>9, <1>12 DEF Sound

-----------------------------------------------------------------------------
\* The lock is written: what is on the disk is in the receipt.
LEMMA ReceiptLemma ==
  ASSUME Ind, Sound, pc = "record", Installation
  PROVE  /\ Receipt # Unlocked /\ Receipt.ver = job.ver /\ Receipt.digest = DigestInstalled(job.ver)
         /\ DOMAIN Receipt.hashes = IF recipe.type = "script" THEN {} ELSE Range(job.dest)
         /\ DOMAIN Receipt.hashes \subseteq Paths /\ IsFiniteSet(DOMAIN Receipt.hashes)
         /\ Receipt.owned <=> recipe.type # "script"
         /\ Receipt.owned => DOMAIN Receipt.hashes # {}
         /\ \A p \in DOMAIN Receipt.hashes : Receipt.hashes[p] = disk[p] /\ disk[p].by = "genv"
         /\ InHand \subseteq DOMAIN Receipt.hashes
<1> DEFINE owns == IF recipe.type = "script" THEN {} ELSE Range(job.dest)
<1>1. /\ Receipt.ver = job.ver /\ Receipt.digest = DigestInstalled(job.ver)
      /\ Receipt.hashes = [p \in owns |-> disk[p]]
      /\ Receipt.owned = (recipe.type # "script")
  BY DEF Receipt
<1>2. Receipt # Unlocked
  <2>1. job.ver # 0
    BY DEF Sound, Reports
  <2>2. Unlocked.ver = 0
    BY DEF Unlocked
  <2> QED BY <1>1, <2>1, <2>2
<1>3. job.dest \in Seq(Paths) /\ DOMAIN job.dest = 1..Len(job.dest) /\ Len(job.dest) \in Nat
  BY DEF Sound, Typed
<1>4. owns \subseteq Paths /\ IsFiniteSet(owns)
  <2>1. Range(job.dest) = ToSet(job.dest)
    BY DEF Range, ToSet
  <2>2. ToSet(job.dest) \subseteq Paths
    BY <1>3 DEF ToSet
  <2>3. IsFiniteSet(ToSet(job.dest))
    BY <1>3, ToSetFinite
  <2> QED BY <2>1, <2>2, <2>3, FS_EmptySet
<1>5. recipe.type # "script" => owns # {} /\ \A p \in owns : disk[p].by = "genv"
  <2> HAVE recipe.type # "script"
  <2>1. job.dest # <<>> /\ \A i \in DOMAIN job.dest : disk[job.dest[i]].by = "genv"
    BY DEF Sound, Counting, Reports
  <2>2. 1 \in DOMAIN job.dest
    BY <1>3, <2>1
  <2> QED BY <2>1, <2>2 DEF Range
<1>6. InHand \subseteq owns
  BY <1>3 DEF Sound, Counting, InHand, Range
<1> QED BY <1>1, <1>2, <1>4, <1>5, <1>6

LEMMA RecordSound == ASSUME Ind, Sound, Record PROVE Sound'
<1>1. /\ disk' = disk /\ bak' = bak /\ taken' = taken /\ feed' = feed /\ recipe' = recipe /\ job' = job
      /\ before' = before /\ broken' = broken
      /\ declared' = (declared /\ job.kind # "remove") /\ locked' = NewLock
      /\ astray' = (astray \cup IF Removes THEN {} ELSE OwnedPaths(locked)) \ OwnedPaths(locked')
      /\ pc = "record" /\ pc' = "succeed" /\ InHand' = InHand
  BY DEF Record, files, InHand
<1>2. broken = "nothing" /\ job.result # "unrecorded" /\ \A p \in Paths : taken[p] = Nothing
  BY <1>1 DEF Sound, Doing, Books, SetAside
<1>3. Removes' <=> Removes
  BY <1>1 DEF Removes
<1>4. OwnedPaths(locked) \subseteq Paths
  BY DEF Sound, ReceiptOK, OwnedPaths
<1>5. Typed'
  <2>1. astray' \subseteq Paths
    BY <1>1, <1>4 DEF Sound, Typed, TypeOK
  <2>2. declared' \in BOOLEAN
    BY <1>1
  <2> QED BY <1>1, <2>1, <2>2 DEF Sound, Typed, TypeOK
<1>6. Doing' /\ Counting' /\ Reports' /\ Undoable' /\ Unchanged'
  BY <1>1, <1>2, <1>3 DEF Sound, Doing, Counting, Reports, Undoable, Unchanged, InFile, Early, Removing, Installation
<1>7. \A p \in Paths \ (InHand \cup astray) : /\ disk[p] = before[p] \/ disk[p] = Nothing
                                              /\ disk[p].by = "genv" => disk[p] = before[p]
  BY <1>1 DEF Sound, Unchanged, Nothing
<1>8. \A p \in Paths \ astray : before[p].by = "genv" => p \in OwnedPaths(locked)
  BY <1>1 DEF Sound, Books, Ledger
<1>9. CASE job.kind = "adopt"
  <2>1. locked = Unlocked /\ InHand = {} /\ ~Removes
    BY <1>1, <1>9 DEF Sound, Doing, Counting, InHand, Removes
  <2>2. locked' = Adopted /\ locked'.owned = FALSE /\ locked'.hashes = <<>>
    <3>1. locked' = Adopted
      BY <1>1, <1>9, <2>1 DEF NewLock
    <3>2. Adopted.owned = FALSE /\ Adopted.hashes = <<>>
      BY DEF Adopted
    <3> QED BY <3>1, <3>2
  <2>3. OwnedPaths(locked) = {} /\ OwnedPaths(locked') = {} /\ DOMAIN locked'.hashes = {}
    BY <2>1, <2>2 DEF OwnedPaths
  <2>4. ReceiptOK'
    BY <1>1, <2>2, <2>3, FS_EmptySet DEF ReceiptOK
  <2>5. Books'
    BY <1>1, <1>2, <1>7, <1>8, <2>1, <2>3 DEF Books, Ledger
  <2>6. SetAside' /\ ApplySettles'
    BY <1>1, <1>2, <1>3, <1>9, <2>1 DEF SetAside, ApplySettles
  <2> QED BY <1>5, <1>6, <2>4, <2>5, <2>6 DEF Sound
<1>10. CASE Removes
  <2>1. locked' = Unlocked /\ InHand = {} /\ OwnedPaths(locked') = {} /\ astray' = astray
    BY <1>1, <1>10 DEF Sound, Counting, NewLock, Removes, InHand, OwnedPaths
  <2>2. \A p \in OwnedPaths(locked) : disk[p] = Nothing
    BY <1>1, <1>10 DEF Sound, SetAside
  <2>3. ReceiptOK'
    BY <2>1 DEF ReceiptOK
  <2>4. Books'
    BY <1>1, <1>2, <1>7, <1>8, <2>1, <2>2 DEF Books, Ledger, Nothing
  <2>5. SetAside'
    BY <1>1, <1>2, <2>1 DEF SetAside
  <2>6. ApplySettles'
    BY <1>1, <1>10 DEF ApplySettles, Removes
  <2> QED BY <1>5, <1>6, <2>3, <2>4, <2>5, <2>6 DEF Sound
<1>11. CASE Installation
  <2>1. locked' = Receipt /\ ~Removes
    BY <1>1, <1>11 DEF NewLock, Installation
  <2>2. /\ Receipt # Unlocked /\ Receipt.ver = job.ver /\ Receipt.digest = DigestInstalled(job.ver)
        /\ DOMAIN Receipt.hashes = IF recipe.type = "script" THEN {} ELSE Range(job.dest)
        /\ DOMAIN Receipt.hashes \subseteq Paths /\ IsFiniteSet(DOMAIN Receipt.hashes)
        /\ Receipt.owned <=> recipe.type # "script"
        /\ Receipt.owned => DOMAIN Receipt.hashes # {}
        /\ \A p \in DOMAIN Receipt.hashes : Receipt.hashes[p] = disk[p] /\ disk[p].by = "genv"
        /\ InHand \subseteq DOMAIN Receipt.hashes
    BY <1>1, <1>11, ReceiptLemma
  <2>3. OwnedPaths(locked') = DOMAIN Receipt.hashes /\ astray' = (astray \cup OwnedPaths(locked)) \ OwnedPaths(locked')
    BY <1>1, <2>1, <2>2 DEF OwnedPaths
  <2>4. ReceiptOK'
    BY <1>1, <2>1, <2>2 DEF ReceiptOK
  <2>5. Books'
    BY <1>1, <1>2, <1>7, <1>8, <2>1, <2>2, <2>3 DEF Books, Ledger
  <2>6. SetAside'
    BY <1>1, <1>2, <1>3, <2>1 DEF SetAside
  <2>7. ApplySettles'
    <3>1. Detected # 0 /\ Detected = job.ver
      BY <1>1, <1>11 DEF Sound, Reports
    <3>2. Detected' = Detected /\ Digest' = Digest /\ (Templated' <=> Templated)
      BY <1>1 DEF Detected, Digest, Templated
    <3>3. ~Templated => locked'.digest = Digest'
      BY <2>1, <2>2, <3>2 DEF Digest, DigestInstalled
    <3>4. Modified' = {}
      BY <1>1, <2>1, <2>2 DEF Modified
    <3> QED BY <1>1, <2>1, <2>2, <3>1, <3>2, <3>3, <3>4 DEF ApplySettles, Drifted
  <2> QED BY <1>5, <1>6, <2>4, <2>5, <2>6, <2>7 DEF Sound
<1> QED BY <1>1, <1>9, <1>10, <1>11 DEF Sound, Doing, Installation, Removes

\* The lock could not be written: the record of every path is lost.
LEMMA RecordFailsSound == ASSUME Ind, Sound, RecordFails PROVE Sound'
<1>1. /\ disk' = disk /\ bak' = bak /\ taken' = taken /\ feed' = feed /\ recipe' = recipe
      /\ before' = before /\ broken' = broken /\ locked' = locked
      /\ declared' \in {declared, declared /\ job.kind # "remove"} /\ astray' = Paths
      /\ pc = "record" /\ pc' = "fail"
  BY DEF RecordFails, Fails, files
<1>2. /\ job'.kind = job.kind /\ job'.dest = job.dest /\ job'.result = "unrecorded" /\ job'.at = job.at
      /\ job'.begun = job.begun /\ job'.had = job.had
  BY DEF RecordFails, Fails, Ind, JobFields
<1>3. (declared' = declared \/ job.kind = "remove") /\ declared' \in BOOLEAN
  BY <1>1 DEF Sound, Typed, TypeOK
<1>4. (Removes' <=> Removes) /\ InHand' = InHand
  BY <1>2, <1>3 DEF Removes, InHand
<1>5. Typed'
  BY <1>1, <1>2, <1>3 DEF Sound, Typed, TypeOK
<1>6. Doing' /\ Counting' /\ Reports' /\ Undoable'
  BY <1>1, <1>2, <1>4 DEF Sound, Doing, Counting, Reports, Undoable, InFile, Early, Removing, Installation
<1>7. Unchanged' /\ SetAside'
  BY <1>1, <1>2, <1>4 DEF Sound, Unchanged, SetAside, InFile, Early
<1>8. ReceiptOK' /\ Books' /\ ApplySettles'
  BY <1>1, <1>2 DEF Sound, ReceiptOK, Books, Ledger, OwnedPaths, ApplySettles
<1> QED BY <1>5, <1>6, <1>7, <1>8 DEF Sound

\* Between commands.
LEMMA EndSound == ASSUME Ind, Sound, End PROVE Sound'
<1>1. /\ disk' = disk /\ bak' = bak /\ taken' = taken /\ feed' = feed /\ recipe' = recipe /\ job' = Idle
      /\ before' = disk /\ broken' = "nothing" /\ locked' = locked /\ declared' = declared /\ astray' = astray
      /\ pc \in {"succeed", "fail"} /\ pc' = "idle"
  BY DEF End, Forget, files, world
<1>2. job'.kind = "none" /\ job'.dest = <<>> /\ job'.begun = 0 /\ job'.had = {} /\ job'.at = 1 /\ job'.result = "none"
  BY <1>1 DEF Idle
<1>3. Typed'
  BY <1>1, <1>2 DEF Sound, Typed, TypeOK, IsInjective
<1>4. Doing' /\ Counting' /\ Reports' /\ Undoable' /\ Unchanged'
  BY <1>1, <1>2 DEF Doing, Counting, Reports, Undoable, Unchanged, InFile, Early, Removing, Installation, Removes
<1>5. SetAside' /\ ReceiptOK' /\ ApplySettles'
  BY <1>1, <1>2 DEF Sound, SetAside, ReceiptOK, ApplySettles, Removes
<1>6. Ledger(disk)
  <2>1. CASE pc = "succeed"
    BY <2>1 DEF Sound, Books
  <2>2. CASE pc = "fail" /\ job.result = "unrecorded"
    BY <2>2 DEF Sound, Books, Ledger
  <2>3. CASE pc = "fail" /\ job.result # "unrecorded"
    <3>1. InHand = {}
      BY <2>3 DEF Sound, Counting, InHand
    <3> QED BY <2>3, <3>1 DEF Sound, Unchanged, Books, Ledger, Nothing
  <2> QED BY <1>1, <2>1, <2>2, <2>3
<1>7. Books'
  BY <1>1, <1>2, <1>6 DEF Books, Ledger, OwnedPaths
<1> QED BY <1>3, <1>4, <1>5, <1>7 DEF Sound

LEMMA KillSound == ASSUME Ind, Sound, Kill PROVE Sound'
<1>1. /\ disk' = disk /\ bak' = bak /\ feed' = feed /\ recipe' = recipe /\ job' = Idle
      /\ before' = disk /\ broken' = "nothing" /\ locked' = locked /\ declared' = declared
      /\ pc' = "idle" /\ astray' = Paths /\ taken' = [p \in Paths |-> Nothing]
  BY DEF Kill, Forget, world
<1>2. job'.kind = "none" /\ job'.dest = <<>> /\ job'.begun = 0 /\ job'.had = {} /\ job'.at = 1 /\ job'.result = "none"
  BY <1>1 DEF Idle
<1>3. Typed'
  BY <1>1, <1>2 DEF Sound, Typed, TypeOK, IsInjective
<1>4. Doing' /\ Counting' /\ Reports' /\ Undoable' /\ Unchanged'
  BY <1>1, <1>2 DEF Doing, Counting, Reports, Undoable, Unchanged, InFile, Early, Removing, Installation, Removes
<1>5. SetAside' /\ ReceiptOK' /\ ApplySettles' /\ Books'
  BY <1>1, <1>2 DEF Sound, SetAside, ReceiptOK, ApplySettles, Removes, Books, Ledger
<1> QED BY <1>3, <1>4, <1>5 DEF Sound

\* The user, the spec and the provider move while no command is under way.
LEMMA EditSound ==
  ASSUME Ind, Sound, EditSpec \/ Publish \/ (\E p \in Paths, c \in {Nothing} \cup {User(w) : w \in UserSays} : EditFile(p, c))
  PROVE  Sound'
<1>1. /\ pc = "idle" /\ pc' = "idle" /\ job = Idle /\ job' = Idle /\ disk = before /\ broken = "nothing"
      /\ bak' = bak /\ taken' = taken /\ locked' = locked /\ broken' = broken /\ astray' = astray
  BY DEF EditSpec, Publish, EditFile, Edits, files, ghosts, Sound, Doing
<1>2. job'.kind = "none" /\ job'.dest = <<>> /\ job'.begun = 0 /\ job'.had = {} /\ job'.at = 1 /\ job'.result = "none"
  BY <1>1 DEF Idle
<1>3. /\ feed' \in Feeds /\ recipe' \in Recipes /\ declared' \in BOOLEAN
  BY DEF EditSpec, Publish, EditFile, Edits, files, world, Sound, Typed, TypeOK
<1>4. /\ before' = disk' /\ DOMAIN disk' = Paths /\ disk' = [p \in Paths |-> disk'[p]]
      /\ \A p \in Paths : disk'[p] = disk[p] \/ disk'[p].by # "genv"
  <2>1. CASE EditSpec \/ Publish
    BY <1>1, <2>1 DEF EditSpec, Publish, files, ghosts, Sound, Typed, TypeOK
  <2>2. ASSUME NEW p \in Paths, NEW c \in {Nothing} \cup {User(w) : w \in UserSays}, EditFile(p, c)
        PROVE  /\ before' = disk' /\ DOMAIN disk' = Paths /\ disk' = [q \in Paths |-> disk'[q]]
               /\ \A q \in Paths : disk'[q] = disk[q] \/ disk'[q].by # "genv"
    <3>1. disk' = [disk EXCEPT ![p] = c] /\ before' = disk'
      BY <2>2 DEF EditFile, Place
    <3>2. c.by # "genv"
      BY DEF Nothing, User
    <3> QED BY <3>1, <3>2 DEF Sound, Typed, TypeOK
  <2> QED BY <2>1, <2>2
<1>5. Typed'
  BY <1>1, <1>2, <1>3, <1>4 DEF Sound, Typed, TypeOK, IsInjective
<1>6. Doing' /\ Counting' /\ Reports' /\ Undoable' /\ Unchanged'
  BY <1>1, <1>2, <1>4 DEF Doing, Counting, Reports, Undoable, Unchanged, InFile, Early, Removing, Installation, Removes
<1>7. SetAside' /\ ReceiptOK' /\ ApplySettles'
  BY <1>1, <1>2 DEF Sound, SetAside, ReceiptOK, ApplySettles, Removes
<1>8. Books'
  BY <1>1, <1>2, <1>4 DEF Sound, Books, Ledger, OwnedPaths
<1> QED BY <1>5, <1>6, <1>7, <1>8 DEF Sound

LEMMA NothingSound == ASSUME Ind, Sound, UNCHANGED vars PROVE Sound'
<1>1. /\ disk' = disk /\ bak' = bak /\ taken' = taken /\ feed' = feed /\ recipe' = recipe /\ declared' = declared
      /\ locked' = locked /\ pc' = pc /\ job' = job /\ before' = before /\ broken' = broken /\ astray' = astray
  BY DEF vars
<1>2. Typed' /\ Doing' /\ Counting' /\ Reports'
  BY <1>1 DEF Sound, Typed, TypeOK, Doing, Counting, Reports, Installation, Removes, Detected
<1>3. InHand' = InHand /\ Here' = Here /\ (Removes' <=> Removes)
  BY <1>1 DEF InHand, Here, Removes
<1>4. Undoable' /\ Unchanged' /\ SetAside'
  BY <1>1, <1>3 DEF Sound, Undoable, Unchanged, SetAside, OwnedPaths
<1>5. ReceiptOK' /\ Books'
  BY <1>1 DEF Sound, ReceiptOK, Books, Ledger, OwnedPaths
<1>6. ApplySettles'
  BY <1>1 DEF Sound, ApplySettles, Templated, Drifted, Modified, Detected, Digest
<1> QED BY <1>2, <1>4, <1>5, <1>6 DEF Sound

LEMMA InitSound == Init => Sound
<1> SUFFICES ASSUME Init PROVE Sound
  OBVIOUS
<1>1. /\ disk \in InitDisks /\ bak = [p \in Paths |-> Nothing] /\ taken = bak /\ feed \in Feeds /\ recipe \in Recipes
      /\ declared = TRUE /\ locked = Unlocked /\ pc = "idle" /\ job = Idle
      /\ before = disk /\ broken = "nothing" /\ astray = {}
  BY DEF Init
<1>2. job.kind = "none" /\ job.dest = <<>> /\ job.begun = 0 /\ job.had = {} /\ job.at = 1 /\ job.result = "none"
  BY <1>1 DEF Idle
<1>3. disk = [p \in Paths |-> disk[p]] /\ DOMAIN disk = Paths /\ \A p \in Paths : disk[p].by # "genv"
  BY <1>1, ExternalAssumption
<1>4. Typed
  BY <1>1, <1>2, <1>3 DEF Typed, TypeOK, IsInjective
<1>5. Doing /\ Counting /\ Reports /\ Undoable /\ Unchanged
  BY <1>1, <1>2 DEF Doing, Counting, Reports, Undoable, Unchanged, InFile, Early, Removing, Installation, Removes
<1>6. SetAside /\ ReceiptOK /\ ApplySettles /\ Books
  BY <1>1, <1>2, <1>3 DEF SetAside, ReceiptOK, ApplySettles, Removes, Books, Ledger
<1> QED BY <1>4, <1>5, <1>6 DEF Sound

LEMMA StepSound == ASSUME DestinationsDiffer, Ind, Sound, [Next]_vars PROVE Sound'
<1>1. CASE Step
  BY <1>1, CommandSound, ResolveReleaseSound, JudgeSound, DownloadSound, ClearSound, BackupSound, SwapSound,
     SwapFailsSound, RunScriptSound, ScriptFailsSound, DetectSound, UndoSound, PutBackSound, UndoScriptSound,
     UndoIgnoredSound, FinishSound, FinishFailsSound, InspectSound, UninstallSound, TakeSound, DeleteSound,
     RemoveFailsSound, RecordSound, RecordFailsSound, EndSound DEF Step
<1>2. CASE EarlyFault \/ Kill
  BY <1>2, EarlyFaultSound, KillSound
<1>3. CASE EditSpec \/ Publish \/ (\E p \in Paths, c \in {Nothing} \cup {User(w) : w \in UserSays} : EditFile(p, c))
  BY <1>3, EditSound
<1>4. CASE UNCHANGED vars
  BY <1>4, NothingSound
<1> QED BY <1>1, <1>2, <1>3, <1>4 DEF Next

LEMMA Invariance == ASSUME DestinationsDiffer PROVE Spec => [](Ind /\ Sound)
<1>1. Init => Ind /\ Sound
  BY Initially, InitSound
<1>2. Ind /\ Sound /\ [Next]_vars => (Ind /\ Sound)'
  BY StepKeeps, StepSound
<1> QED BY <1>1, <1>2, PTL DEF Spec

-----------------------------------------------------------------------------
\* For any number of files, faults, commands and edits: an installation that fails,
\* at whichever file and in whichever step, leaves every destination as it found it;
\* while its outcome is open, what a destination held is there or in its backup; and
\* removing an owned installation takes none of the user's files, and puts everything
\* back when it stops (installDirectWithMode, engine.go:398-473; installArchive and its
\* rollback, archive.go:66-107; Remove, remove.go:12-65).
THEOREM FailuresAreUndone == ASSUME DestinationsDiffer PROVE Spec => []FailureIsUndone
<1>1. ASSUME Sound PROVE FailureIsUndone
  <2>1. RollsBack
    BY <1>1 DEF Sound, Unchanged, RollsBack, Installs
  <2>2. OldIsKept
    <3>1. SUFFICES ASSUME pc \in {"clear", "backup", "swap", "detect", "undo", "putback"}, Installs,
                          broken = "nothing", NEW p \in Range(job.dest), before[p] # Nothing
                   PROVE  before[p] \in {disk[p], bak[p]}
      BY DEF OldIsKept
    <3>2. p \in Paths
      BY <1>1 DEF Sound, Typed, Range
    <3>3. CASE p \in InHand
      <4>1. PICK i \in 1..job.begun : p = job.dest[i]
        BY <3>3 DEF InHand
      <4> QED BY <1>1, <3>1, <4>1 DEF Sound, Undoable, InFile
    <3>4. CASE p \notin InHand
      BY <1>1, <3>1, <3>2, <3>4 DEF Sound, Unchanged, InFile, Installs
    <3> QED BY <3>3, <3>4
  <2>3. RemovesOnlyItsOwn
    BY <1>1 DEF Sound, SetAside, Unchanged, RemovesOnlyItsOwn
  <2> QED BY <2>1, <2>2, <2>3 DEF FailureIsUndone
<1> QED BY <1>1, Invariance, PTL

\* For the same: between commands, what genv put on the disk is in its receipt as it
\* is there, unless the record was lost, and an apply that succeeds has left nothing
\* to do for the next (Install, engine.go:151-174; InspectLocal, status.go; packageDrifted).
THEOREM ReceiptsAreTrue == ASSUME DestinationsDiffer PROVE Spec => []ReceiptIsTrue
<1>1. ASSUME Sound PROVE ReceiptIsTrue
  <2>1. TypeOK /\ ApplySettles
    BY <1>1 DEF Sound, Typed
  <2>2. Accounted
    BY <1>1 DEF Sound, Doing, Books, Ledger, Accounted
  <2> QED BY <2>1, <2>2 DEF ReceiptIsTrue
<1> QED BY <1>1, Invariance, PTL

=============================================================================
