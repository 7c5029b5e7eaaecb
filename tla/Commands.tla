------------------------------ MODULE Commands ------------------------------
(***************************************************************************)
(* The commands that change what genv tracks - add, adopt, remove, disown, *)
(* scan, apply, upgrade - run by several processes over one spec file, one *)
(* lock file and one machine (main.go).  Each step is one access to a file,*)
(* to the mutation mutex or to a package manager, in the order the command *)
(* makes it.  The mutex is the one Mutex promises; a process that ends, or *)
(* dies, gives it up.                                                      *)
(*                                                                         *)
(* The spec is portable (schema version 8 or later): one table of packages *)
(* per target, and a lock that is stamped with the target it serves.       *)
(***************************************************************************)
EXTENDS Reconcile, TLC

CONSTANTS
    Procs,       \* processes
    Targets,     \* targets a command may be run for
    Packages,    \* package declarations a user may write
    Available,   \* managers detected on this host
    Kinds,       \* commands the users run
    Faults,      \* what may happen besides success, see May
    MaxCommands, \* BOUND: commands ever begun
    MaxFaults    \* BOUND: faults ever met

ASSUME CommandsAssumption ==
    /\ None \notin Procs /\ None \notin Targets /\ None \notin Ids
    /\ IsFiniteSet(Ids) /\ Versions # {}
    /\ Packages \subseteq Package /\ Available \subseteq Managers
    /\ MaxCommands \in Nat /\ MaxFaults \in Nat

VARIABLES
    spec,       \* genv.json: the packages declared for each target
    lock,       \* genv.lock.json: the target stamp and the tracked packages
    machine,    \* what the managers have installed
    mutex,      \* who holds LockMutation
    proc,       \* the running commands and their variables
    mine,       \* history: the copies genv installed, and for which target
    commands, faults    \* counters of the bounds

vars == <<spec, lock, machine, mutex, proc, mine, commands, faults>>

Applies == {"apply", "forced"}      \* forced: with --force-new-lock
Locked(p) == LockedIds(proc[p].lf.packages)
Here(p) == spec[proc[p].target]

EmptyLock == [target |-> None, packages |-> <<>>]

Idle == [ pc |-> "idle", cmd |-> "none", target |-> None, id |-> None, pkg |-> None,
          tracked |-> FALSE,        \* adopt: declared; disown: declared; remove: locked
          staged |-> None,          \* the spec as the command will write it
          lf |-> EmptyLock,         \* the lock as the command read it
          entries |-> <<>>,         \* the lock entries the command makes
          plan |-> None, todo |-> <<>>, uninstalled |-> {}, failed |-> FALSE,
          exit |-> "none" ]

Init ==
    /\ spec = [t \in Targets |-> [id \in {} |-> None]]
    /\ lock \in {EmptyLock} \cup     \* or left by a spec that declared one more manager
           {[target |-> t, packages |-> <<[id |-> id, manager |-> m, version |-> None]>>] :
               t \in Targets, id \in Ids, m \in Managers \ Registered}
    /\ machine \in {[m \in Managers |-> have] : have \in [Ids -> {None, CHOOSE v \in Versions : TRUE}]}
    /\ mutex = None
    /\ proc = [p \in Procs |-> Idle]
    /\ mine = {}
    /\ commands = 0 /\ faults = 0

(***************************************************************************)
(* Common to the commands.                                                 *)
(***************************************************************************)
At(p, cmds, pc) == proc[p].pc = pc /\ proc[p].cmd \in cmds

May(fault) == fault \in Faults /\ faults < MaxFaults /\ faults' = faults + 1

Fine == UNCHANGED faults

Become(p, c) == proc' = [proc EXCEPT ![p] = c]

Goto(p, pc) == Become(p, [proc[p] EXCEPT !.pc = pc])

Exit(p, code) == Become(p, [proc[p] EXCEPT !.pc = "done", !.exit = code])

Files == <<spec, lock>>
World == <<machine, mine>>
Rest == <<mutex, commands>>

\* The spec with more packages declared for target t, or with one fewer.
Declare(t, packages) ==
    [spec EXCEPT ![t] = [id \in DOMAIN packages \cup DOMAIN @ |->
                            IF id \in DOMAIN packages THEN packages[id] ELSE @[id]]]
Just(id, pkg) == [i \in {id} |-> pkg]
Undeclare(t, id) == [spec EXCEPT ![t] = [i \in DOMAIN @ \ {id} |-> @[i]]]

\* A command that installs or removes copy (m, id).
Put(t, m, id, v) ==
    /\ machine' = [machine EXCEPT ![m][id] = v]
    /\ mine' = mine \cup {<<m, id, t>>}
Take(m, id) ==
    /\ machine' = [machine EXCEPT ![m][id] = None]
    /\ mine' = {c \in mine : <<c[1], c[2]>> # <<m, id>>}

Begin(p) ==
    /\ proc[p].pc = "idle" /\ commands < MaxCommands /\ commands' = commands + 1
    /\ \E cmd \in Kinds, t \in Targets :
         \E id \in IF cmd \in {"add", "adopt", "remove", "disown"} THEN Ids ELSE {None},
            pkg \in IF cmd \in {"add", "adopt"} THEN Packages ELSE {None} :
            Become(p, [Idle EXCEPT !.pc = IF cmd \in Applies \cup {"upgrade"} THEN "lock" ELSE "stage",
                                   !.cmd = cmd, !.target = t, !.id = id, !.pkg = pkg])
    /\ Fine /\ UNCHANGED <<Files, World, mutex>>

\* Mutant: the deferred unlock is forgotten.
ReturnHolding(p) ==
    /\ proc[p].pc = "done"
    /\ Become(p, Idle)
    /\ Fine /\ UNCHANGED <<Files, World, mutex, commands>>

\* The deferred unlock, if the command holds the mutex, and the end of the process.
Return(p) ==
    /\ proc[p].pc = "done"
    /\ mutex' = IF mutex = p THEN None ELSE mutex
    /\ Become(p, Idle)
    /\ Fine /\ UNCHANGED <<Files, World, commands>>

\* Mutant: somebody else's mutex is no obstacle.
LockMutationAnyway(p) ==
    /\ proc[p].pc = "lock"
    /\ mutex' = p
    /\ Goto(p, "read")
    /\ Fine /\ UNCHANGED <<Files, World, commands>>

LockMutation(p) ==
    /\ proc[p].pc = "lock" /\ mutex = None
    /\ mutex' = p
    /\ Goto(p, "read")
    /\ Fine /\ UNCHANGED <<Files, World, commands>>

\* Mutant: remove writes the spec without uninstalling first.
AfterReadSpecFirst(p, c, locked) ==
    CASE c.cmd \in {"add", "adopt"} -> [c EXCEPT !.pc = "write"]
      [] c.cmd \in {"apply", "forced", "upgrade"} -> [c EXCEPT !.pc = "plan"]
      [] OTHER -> [c EXCEPT !.pc = "spec", !.tracked = c.id \in locked]

\* What a command does once it has read the lock under the mutex.
AfterRead(p, c, locked) ==
    CASE c.cmd \in {"add", "adopt"} -> [c EXCEPT !.pc = "write"]
      [] c.cmd = "remove" -> [c EXCEPT !.tracked = c.id \in locked,
                                       !.pc = IF c.id \in locked THEN "uninstall" ELSE "spec"]
      [] c.cmd = "disown" -> IF c.tracked THEN [c EXCEPT !.pc = "spec"]
                             ELSE IF c.id \in locked THEN [c EXCEPT !.pc = "write"]
                             ELSE [c EXCEPT !.pc = "done", !.exit = "logic"]
      [] c.cmd = "scan" -> IF c.entries # <<>> THEN [c EXCEPT !.pc = "spec"]
                           ELSE [c EXCEPT !.pc = "done", !.exit = "ok"]
      [] OTHER -> [c EXCEPT !.pc = "plan"]

ReadLock(p) ==
    /\ proc[p].pc = "read"
    /\ \/ Fine /\ Become(p, AfterRead(p, [proc[p] EXCEPT !.lf = lock], LockedIds(lock.packages)))
       \/ May("lockfile") /\ Exit(p, "io")
    /\ UNCHANGED <<Files, World, Rest>>

\* genvfile.Write of the staged spec.
WriteSpec(p) ==
    /\ proc[p].pc = "spec"
    /\ \/ /\ Fine
          /\ spec' = proc[p].staged
          /\ IF proc[p].cmd \in {"add", "adopt"} THEN Goto(p, "lock")
             ELSE IF proc[p].cmd = "remove" /\ ~proc[p].tracked THEN Exit(p, "ok")
             ELSE Goto(p, "write")
       \/ May("specfile") /\ Exit(p, "io") /\ UNCHANGED spec
    /\ UNCHANGED <<lock, World, Rest>>

(***************************************************************************)
(* genv add: stage, install, write the spec, and only then lock and append.*)
(***************************************************************************)
AddStage(p) ==
    /\ At(p, {"add"}, "stage")
    /\ LET c == proc[p]
           m == Resolve(c.pkg, Available)
           refused == c.id \in DOMAIN Here(p) \/ m = None
       IN  \/ May("hook") /\ Exit(p, "logic")
           \/ refused /\ Fine /\ Exit(p, "logic")
           \/ /\ ~refused /\ Fine
              /\ Become(p, [c EXCEPT !.pc = "install", !.staged = Declare(c.target, Just(c.id, c.pkg)),
                                !.entries = <<[id |-> c.id, manager |-> m, version |-> None]>>])
    /\ UNCHANGED <<Files, World, Rest>>

AddInstall(p) ==
    /\ At(p, {"add"}, "install")
    /\ \/ /\ Fine
          /\ \E v \in Versions : Put(proc[p].target, proc[p].entries[1].manager, proc[p].id, v)
          /\ Goto(p, "spec")
       \/ May("install") /\ Exit(p, "logic") /\ UNCHANGED World
    /\ UNCHANGED <<Files, Rest>>

(***************************************************************************)
(* genv adopt: declared or not, installed, and not tracked by the lock as  *)
(* it is read before the mutex is taken.                                   *)
(***************************************************************************)
AdoptStage(p) ==
    /\ At(p, {"adopt"}, "stage")
    /\ LET c == proc[p]
           declared == c.id \in DOMAIN Here(p)
           known == IF declared THEN Here(p)[c.id] ELSE c.pkg
           m == Resolve([known EXCEPT !.prefer = IF c.pkg.prefer # None THEN c.pkg.prefer ELSE @,
                                      !.offers = IF c.pkg.offers # {} THEN c.pkg.offers ELSE @], Available)
       IN  IF m = None THEN Exit(p, "logic")
           ELSE Become(p, [c EXCEPT !.pc = "query", !.tracked = declared,
                               !.entries = <<[id |-> c.id, manager |-> m, version |-> None]>>])
    /\ Fine /\ UNCHANGED <<Files, World, Rest>>

AdoptQuery(p) ==
    /\ At(p, {"adopt"}, "query")
    /\ LET e == proc[p].entries[1]
           version == machine[e.manager][e.id]
           found(v) == Become(p, [proc[p] EXCEPT !.pc = "check", !.entries[1].version = v])
       IN  \/ version = None /\ Fine /\ Exit(p, "logic")
           \/ version # None /\ May("list") /\ Exit(p, "logic")
           \/ version # None /\ Fine /\ found(version)
           \/ version # None /\ May("version") /\ found(None)
    /\ UNCHANGED <<Files, World, Rest>>

AdoptCheck(p) ==
    /\ At(p, {"adopt"}, "check")
    /\ IF proc[p].id \in LockedIds(lock.packages) THEN Exit(p, "logic")
       ELSE Goto(p, IF proc[p].tracked THEN "lock" ELSE "prepare")
    /\ Fine /\ UNCHANGED <<Files, World, Rest>>

AdoptPrepare(p) ==
    /\ At(p, {"adopt"}, "prepare")
    /\ LET c == proc[p]
       IN  IF c.id \in DOMAIN Here(p) THEN Exit(p, "logic")
           ELSE Become(p, [c EXCEPT !.pc = "spec", !.staged = Declare(c.target, Just(c.id, c.pkg))])
    /\ Fine /\ UNCHANGED <<Files, World, Rest>>

(***************************************************************************)
(* genv remove: stage, lock, uninstall, and only then write spec and lock. *)
(***************************************************************************)
RemoveStage(p) ==
    /\ At(p, {"remove"}, "stage")
    /\ LET c == proc[p]
       IN  \/ May("hook") /\ Exit(p, "logic")
           \/ c.id \notin DOMAIN Here(p) /\ Fine /\ Exit(p, "logic")
           \/ /\ c.id \in DOMAIN Here(p) /\ Fine
              /\ Become(p, [c EXCEPT !.pc = "lock", !.staged = Undeclare(c.target, c.id)])
    /\ UNCHANGED <<Files, World, Rest>>

RemoveUninstall(p) ==
    /\ At(p, {"remove"}, "uninstall")
    /\ LET e == LastEntry(proc[p].lf.packages, proc[p].id)
       IN  \/ e.manager \in Registered /\ Fine /\ Take(e.manager, e.id) /\ Goto(p, "spec")
           \/ e.manager \notin Registered /\ Fine /\ Exit(p, "logic") /\ UNCHANGED World
           \/ /\ machine[e.manager][e.id] # None
              /\ May("uninstall") /\ Exit(p, "logic") /\ UNCHANGED World
    /\ UNCHANGED <<Files, Rest>>

(***************************************************************************)
(* genv disown and genv scan.                                              *)
(***************************************************************************)
DisownStage(p) ==
    /\ At(p, {"disown"}, "stage")
    /\ Become(p, [proc[p] EXCEPT !.pc = "lock", !.tracked = proc[p].id \in DOMAIN Here(p),
                      !.staged = Undeclare(proc[p].target, proc[p].id)])
    /\ Fine /\ UNCHANGED <<Files, World, Rest>>

\* Every installed package the spec does not declare, with the first manager
\* that lists it.
Unclaimed(declared, answering) ==
    LET by(id) == FirstRegistered({m \in answering : machine[m][id] # None})
    IN  [id \in {i \in Ids \ declared : by(i) # None} |-> by(id)]

ScanStage(p) ==
    /\ At(p, {"scan"}, "stage")
    /\ \/ May("decline") /\ Exit(p, "ok")
       \/ \E answering \in SUBSET Available :
            LET c == proc[p]
                found == Unclaimed(DOMAIN Here(p), answering)
            IN  /\ IF answering = Available THEN Fine ELSE May("list")
                /\ Become(p, [c EXCEPT !.pc = "lock",
                       !.staged = Declare(c.target, [id \in DOMAIN found |->
                           [prefer |-> found[id], offers |-> {}, accepts |-> Versions]]),
                       !.entries = SetToSeq({[id |-> id, manager |-> found[id],
                           version |-> machine[found[id]][id]] : id \in DOMAIN found})])
    /\ UNCHANGED <<Files, World, Rest>>

(***************************************************************************)
(* genv apply: everything under the mutex.  The gate, the plan, removals,  *)
(* installs, the other resources, the lock.                                *)
(***************************************************************************)
\* lockgate.CheckStrict: not this target's lock, or nobody's.
Foreign(lf, t) ==
    \/ lf.packages # <<>> /\ lf.target = None
    \/ lf.target \notin {None, t}

\* Mutant: packages that resolve to no manager are installed as well.
InstallingAll(c) ==
    IF c.todo # <<>> THEN c
    ELSE [c EXCEPT !.pc = IF DOMAIN c.plan.install = {} THEN "write" ELSE "install",
                   !.todo = SetToSeq(DOMAIN c.plan.install)]

\* The step after a removal, and the step after an install.
Installing(c) ==
    LET ids == {id \in DOMAIN c.plan.install : c.plan.install[id] # None}
    IN  IF c.todo # <<>> THEN c
        ELSE [c EXCEPT !.pc = IF ids = {} THEN "write" ELSE "install", !.todo = SetToSeq(ids)]
Settling(c) == IF c.todo # <<>> THEN c ELSE [c EXCEPT !.pc = "write"]

ApplyPlan(p) ==
    /\ At(p, Applies, "plan")
    /\ LET c == proc[p]
           foreign == Foreign(c.lf, c.target)
           base == IF foreign THEN EmptyLock ELSE c.lf
           wanted == ManagersToList(Here(p), base.packages, Available)
       IN  \/ /\ foreign /\ c.cmd = "apply"
              /\ Fine /\ Exit(p, "logic") /\ UNCHANGED lock
           \/ /\ foreign /\ c.cmd = "forced" /\ May("lockfile")   \* RotateBackup fails
              /\ Exit(p, "io") /\ UNCHANGED lock
           \/ /\ foreign => c.cmd = "forced"
              /\ lock' = IF foreign THEN EmptyLock ELSE lock      \* RotateBackup renames it away
              /\ \E answering \in SUBSET Available :
                   LET live == LiveSet(machine, wanted \cap Available, answering)
                       plan == ReconcileWith(Here(p), base.packages, Available, live)
                   IN  /\ IF answering = Available THEN Fine ELSE May("list")
                       /\ Become(p, Installing([c EXCEPT !.pc = "remove", !.lf = base, !.plan = plan,
                                                    !.staged = spec, !.todo = plan.remove]))
           \/ /\ foreign => c.cmd = "forced"                      \* a pre-apply hook, or the user's no
              /\ lock' = IF foreign THEN EmptyLock ELSE lock
              /\ \/ May("hook") /\ Exit(p, "logic")
                 \/ May("decline") /\ Exit(p, "ok")
    /\ UNCHANGED <<spec, World, Rest>>

ApplyRemove(p) ==
    /\ At(p, Applies, "remove")
    /\ LET c == [proc[p] EXCEPT !.todo = Tail(@)]
           e == Head(proc[p].todo)
       IN  \/ /\ Fine /\ Take(e.manager, e.id)
              /\ Become(p, Installing([c EXCEPT !.uninstalled = @ \cup {e.id}]))
           \/ /\ machine[e.manager][e.id] # None /\ May("uninstall")
              /\ Become(p, Installing([c EXCEPT !.failed = TRUE]))
              /\ UNCHANGED World
    /\ UNCHANGED <<Files, Rest>>

ApplyInstall(p) ==
    /\ At(p, Applies, "install")
    /\ LET c == [proc[p] EXCEPT !.todo = Tail(@)]
           id == Head(proc[p].todo)
           m == c.plan.install[id]
           done(v) == Settling([c EXCEPT !.entries = Append(@, [id |-> id, manager |-> m, version |-> v])])
       IN  \/ \E v \in Versions :
                 /\ Put(c.target, m, id, v)
                 /\ \/ Fine /\ Become(p, done(v))
                    \/ May("version") /\ Become(p, done(None))
           \/ /\ May("install") /\ Become(p, Settling([c EXCEPT !.failed = TRUE]))
              /\ UNCHANGED World
    /\ UNCHANGED <<Files, Rest>>

\* genv upgrade and the worker: the gate, and new versions for tracked packages.
Upgrade(p) ==
    /\ At(p, {"upgrade"}, "plan")
    /\ LET c == proc[p]
       IN  \/ Foreign(c.lf, c.target) /\ Exit(p, "logic") /\ UNCHANGED machine
           \/ ~Foreign(c.lf, c.target) /\ Goto(p, "write") /\ UNCHANGED machine
           \/ /\ ~Foreign(c.lf, c.target)
              /\ \E i \in DOMAIN c.lf.packages, v \in Versions :
                   LET e == c.lf.packages[i]
                   IN  /\ e = LastEntry(c.lf.packages, e.id) /\ machine[e.manager][e.id] # None
                       /\ machine' = [machine EXCEPT ![e.manager][e.id] = v]
                       /\ Become(p, [c EXCEPT !.pc = "write", !.lf.packages[i].version = v])
    /\ Fine /\ UNCHANGED <<Files, mine, Rest>>

(***************************************************************************)
(* The lock each command writes back, and the write.                       *)
(***************************************************************************)
\* Mutant: an apply leaves the stamp as it was.
StampedNever(c, lf, success) == lf

Stamped(c, lf, success) == IF success THEN [lf EXCEPT !.target = c.target] ELSE lf

NewLock(c, success, answering) ==
    CASE c.cmd \in {"add", "adopt", "scan"} ->
            Stamped(c, [c.lf EXCEPT !.packages = @ \o c.entries], TRUE)
      [] c.cmd \in {"remove", "disown"} -> [c.lf EXCEPT !.packages = Without(@, c.id)]
      [] c.cmd \in Applies ->
            Stamped(c, [c.lf EXCEPT !.packages = FillMissingInstalledVersions(
                LockAfterApply(@, c.plan, c.entries, c.uninstalled), machine, answering)], success)
      [] OTHER -> c.lf

NoWork(c) == c.cmd \in Applies /\ c.plan.remove = <<>> /\ DOMAIN c.plan.install = {}

WriteLock(p) ==
    /\ proc[p].pc = "write"
    /\ LET c == proc[p]
       IN  \/ Fine /\ lock' = NewLock(c, ~c.failed, Available) /\ Exit(p, IF c.failed THEN "logic" ELSE "ok")
           \/ May("list") /\ lock' = NewLock(c, ~c.failed, {}) /\ Exit(p, IF c.failed THEN "logic" ELSE "ok")
           \/ /\ c.cmd \in {"add", "remove"} /\ May("hook")           \* the post hook runs after the write
              /\ lock' = NewLock(c, TRUE, Available) /\ Exit(p, "logic")
           \/ /\ c.cmd \in Applies /\ May("other")     \* a service, a file, a fragment, a hook
              /\ lock' \in {NewLock(c, FALSE, Available)} \cup (IF NoWork(c) THEN {lock} ELSE {})
              /\ Exit(p, "logic")
           \/ May("lockfile") /\ Exit(p, "io") /\ UNCHANGED lock
    /\ UNCHANGED <<spec, machine, Rest>>
    /\ mine' = IF proc[p].cmd = "disown" /\ lock' # lock THEN {k \in mine : k[2] # proc[p].id} ELSE mine

(***************************************************************************)
(* Deaths, and what people do behind genv's back.                          *)
(***************************************************************************)
Crash(p) ==
    /\ proc[p].pc \notin {"idle", "done"} /\ May("crash")
    /\ mutex' = IF mutex = p THEN None ELSE mutex
    /\ Become(p, Idle)
    /\ UNCHANGED <<Files, World, commands>>

EditSpec ==
    /\ May("edit")
    /\ \E t \in Targets, id \in Ids :
          spec' \in {Undeclare(t, id)} \cup {Declare(t, Just(id, pkg)) : pkg \in Packages}
    /\ UNCHANGED <<lock, World, Rest, proc>>

ByHand ==
    /\ May("hand")
    /\ \E m \in Managers, id \in Ids : Take(m, id)
    /\ UNCHANGED <<Files, Rest, proc>>

Step(p) ==
    \/ Begin(p) \/ LockMutation(p) \/ ReadLock(p) \/ WriteSpec(p) \/ WriteLock(p) \/ Return(p)
    \/ AddStage(p) \/ AddInstall(p)
    \/ AdoptStage(p) \/ AdoptQuery(p) \/ AdoptCheck(p) \/ AdoptPrepare(p)
    \/ RemoveStage(p) \/ RemoveUninstall(p)
    \/ DisownStage(p) \/ ScanStage(p)
    \/ ApplyPlan(p) \/ ApplyRemove(p) \/ ApplyInstall(p) \/ Upgrade(p)
    \/ Crash(p)

Next == (\E p \in Procs : Step(p)) \/ EditSpec \/ ByHand

Spec == Init /\ [][Next]_vars

\* A command under way takes its next step; nobody has to begin one.
Proceed(p) == Step(p) /\ proc[p].pc # "idle" /\ proc'[p] # Idle
Fairness == \A p \in Procs : WF_vars(Proceed(p)) /\ WF_vars(Return(p))
LiveSpec == Spec /\ Fairness

(***************************************************************************)
(* Properties.                                                             *)
(***************************************************************************)
TypeOK ==
    /\ DOMAIN spec = Targets
    /\ \A t \in Targets : /\ DOMAIN spec[t] \subseteq Ids
                          /\ \A id \in DOMAIN spec[t] : spec[t][id] \in Package
    /\ lock.target \in Targets \cup {None} /\ lock.packages \in Seq(Entry)
    /\ machine \in Machine
    /\ mutex \in Procs \cup {None}
    /\ mine \subseteq Managers \X Ids \X Targets
    /\ \A p \in Procs : /\ proc[p].entries \in Seq(Entry) /\ proc[p].lf.packages \in Seq(Entry)
                        /\ proc[p].exit \in {"none", "ok", "logic", "io"}
    /\ commands \in 0..MaxCommands /\ faults \in 0..MaxFaults

\* The commands whose read-modify-write of the lock is under way, from the
\* moment they have the mutex.
Inside(p) ==
    \/ proc[p].pc \in {"read", "plan", "remove", "uninstall", "write"}
    \/ At(p, Applies, "install")
    \/ At(p, {"remove", "disown", "scan"}, "spec")

\* No lost update: from its read to its write a command holds the mutex, and the
\* lock on disk stays the one it has in memory (an upgrade has already put the
\* new versions in when it comes to write), so the write never undoes what
\* another command has written in between (main.go:531-534, main.go:1277-1281).
SnapshotIsCurrent ==
    \A p \in Procs :
        Inside(p) => /\ mutex = p
                     /\ proc[p].pc = "read" \/ At(p, {"upgrade"}, "write") \/ proc[p].lf = lock

\* A package leaves the lock only by the command meant for it: a remove or a
\* disown of that id, an apply that has uninstalled it (or found it gone), or a
\* forced apply that moves a foreign lock aside.  In particular no writer
\* loses an entry that another command appended after it had read the lock
\* (main.go:531-534, "cannot have its lock snapshot overwritten by this append"),
\* and no partial failure drops the entry of what is still to be done.
ForgetsOnlyOnPurpose ==
    [][\A id \in LockedIds(lock.packages) \ LockedIds(lock'.packages) :
          \E p \in Procs :
             /\ mutex = p /\ proc'[p] # proc[p]
             /\ \/ proc[p].cmd \in {"remove", "disown"} /\ proc[p].id = id
                \/ proc[p].cmd \in Applies /\ id \in proc[p].uninstalled
                \/ At(p, {"forced"}, "plan")]_vars

\* genv uninstalls only what the lock on disk tracks under that very manager at
\* that very moment: a disown, or another uninstall, that has come through in
\* the meantime is never undone by a plan made before it.
UninstallsOnlyLocked ==
    [][\A m \in Managers, id \in Ids :
          machine[m][id] # None /\ machine'[m][id] = None /\ proc' # proc
             => \E i \in DOMAIN lock.packages :
                   lock.packages[i].manager = m /\ lock.packages[i].id = id]_vars

\* What genv itself installed never ends up installed and untracked: it is in
\* the lock, or still declared, or in the hands of the add or the apply that is
\* just recording it.
Accounted(m, id) ==
    \/ \E i \in DOMAIN lock.packages : lock.packages[i].id = id /\ lock.packages[i].manager = m
    \/ \E t \in Targets : id \in DOMAIN spec[t]
    \/ \E p \in Procs : proc[p].pc # "done" /\ \E i \in DOMAIN proc[p].entries :
          proc[p].entries[i].id = id /\ proc[p].entries[i].manager = m
NoOrphan == \A c \in mine : machine[c[1]][c[2]] # None => Accounted(c[1], c[2])

\* A remove writes the spec only once the copy it had to uninstall is gone, so
\* a failed uninstall leaves spec and lock agreeing (main.go:556-558); an add of
\* the same package that is under way may have put it back.
RemoveUninstallsFirst ==
    [][\A p \in Procs : At(p, {"remove"}, "spec") /\ spec' # spec =>
          \A i \in DOMAIN lock.packages :
             lock.packages[i].id = proc[p].id /\ lock.packages[i] = LastEntry(lock.packages, proc[p].id)
                => \/ machine[lock.packages[i].manager][proc[p].id] = None
                   \/ \E q \in Procs : proc[q].cmd = "add" /\ proc[q].id = proc[p].id]_vars

\* When an apply has reported success, the lock it leaves names exactly the
\* packages of the spec it read, but for those no manager can provide and those
\* whose manager this genv has no adapter for.
AppliedMatchesSpec ==
    \A p \in Procs :
        At(p, Applies, "done") /\ proc[p].exit = "ok" /\ proc[p].plan # None =>
            LET desired == proc[p].staged[proc[p].target]
                provided == {id \in DOMAIN desired : Resolve(desired[id], Available) # None}
            IN  /\ \A i \in DOMAIN lock.packages :
                      lock.packages[i].manager \in Registered => lock.packages[i].id \in DOMAIN desired
                /\ provided \subseteq LockedIds(lock.packages)
                /\ lock.target = proc[p].target

\* An apply runs an installer for a package the lock does not know only when it
\* is not there yet: one that was interrupted before it wrote the lock adopts,
\* the next time, what it had installed (CHANGELOG.md:905).
AdoptsWhatIsThere ==
    [][\A p \in Procs : At(p, Applies, "install") =>
          LET id == Head(proc[p].todo)
          IN  (machine'[proc[p].plan.install[id]][id] # None /\ id \notin Locked(p))
                 => machine[proc[p].plan.install[id]][id] = None]_vars

\* While a command is under way, some command can take its next step: nobody has
\* returned with the mutex in hand, waits for it twice, or died and taken it along.
\* (No command repeats a step, so every command ends: CommandsEnd.)
SomebodyCanGoOn ==
    (\E p \in Procs : proc[p].pc # "idle") => \E p \in Procs : ENABLED (Proceed(p) \/ Return(p))

\* Every command ends, as long as the processes that live keep running.
CommandsEnd == \A p \in Procs : proc[p].pc # "idle" ~> proc[p].pc = "idle"

\* VIOLATED.  main.go:595, "Resolves and installs the package first, then
\* records it in genv.json and the lock": when an add has succeeded, the package
\* is in both, unless somebody is removing it.
AddedIsRecorded ==
    \A p \in Procs :
        At(p, {"add"}, "done") /\ proc[p].exit = "ok" =>
            \/ proc[p].id \in DOMAIN spec[proc[p].target] \cap LockedIds(lock.packages)
            \/ \E q \in Procs \ {p} : proc[q].cmd \in {"remove", "disown"} /\ proc[q].id = proc[p].id

\* VIOLATED.  SCHEMA.md:88, "A foreign lock is refused": without the force flag,
\* genv never uninstalls for one target what it installed for another.
OtherTargetsAreSafe ==
    [][\A p \in Procs : At(p, {"apply"}, "remove") =>
          LET e == Head(proc[p].todo)
              homes == {c[3] : c \in {k \in mine : k[1] = e.manager /\ k[2] = e.id}}
          IN  machine[e.manager][e.id] # None /\ machine'[e.manager][e.id] = None
                 => homes = {} \/ proc[p].target \in homes]_vars

-----------------------------------------------------------------------------
(* What the runs check together, as conjunctions of the above.             *)

\* A successful apply has made the lock what the spec says, in every well-formed state.
ApplyIsTrue == TypeOK /\ AppliedMatchesSpec

\* Nothing is uninstalled, and nothing leaves the lock or the spec, but by a
\* command that was asked to, with a lock that is current, in the order that a
\* failure can be retried from.
TakesOnlyWhatItMay == ForgetsOnlyOnPurpose /\ UninstallsOnlyLocked /\ RemoveUninstallsFirst

\* An apply that follows an interrupted one takes up what it left: it adopts
\* what is installed and drops nothing it has not uninstalled.
ApplyResumes == AdoptsWhatIsThere /\ ForgetsOnlyOnPurpose

=============================================================================
