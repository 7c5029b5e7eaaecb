---------------------------- MODULE ServiceProofs ----------------------------
(***************************************************************************)
(* What holds of the services of genv, for every choice of names, packages *)
(* and dependencies, every number of runs, failures and edits: first of    *)
(* apply and `genv service` with their supervisor (module Services), then  *)
(* of the restart phase of an upgrade (module UpgradeRun).                 *)
(*                                                                         *)
(* A command works on one service at a time, and on one unit of it         *)
(* (Touched).  The proofs about Services follow that: for every step, what *)
(* it does to the run and to that unit (the lemmas ...Effect), then, per   *)
(* conjunct of the invariant, what this means for the service whose turn   *)
(* it is (...Fine, ...Ends, ...Calm, ...) and why everybody else keeps     *)
(* what they have (OtherFine, OthersStay, UnitTurn).                       *)
(*                                                                         *)
(* The promises about an upgrade are about single steps (a stop, a start,  *)
(* a record that goes away), and each is true because of what earlier      *)
(* steps of the same run established and later ones left alone.  Its       *)
(* invariant says it loop by loop: what holds of the services the loop has *)
(* visited, and what is still to be expected of those in its queue.        *)
(***************************************************************************)
EXTENDS UpgradeRun, Services, ListTheorems, FiniteSetTheorems, TLAPS

(***************************************************************************)
(* Apply and the service commands. The values of the state, and the        *)
(* inductive invariant, conjunct by conjunct.                              *)
(***************************************************************************)
\* The values that the state is made of.
Owns == {OwnId(l) : l \in UnitLabels}
Ids == Owns \cup {GenId(n) : n \in Names} \cup {NoId}
Tasks == [action : Texts, trigger : Texts, at : Texts, day : Texts]
Notes == [brew : Formulas \cup {""}, plist : Sources \cup {""}, label : Ids, unit : DOMAIN Base \cup {""},
          base : Ids, task : Tasks, start : Words, stop : Words, restart : Words, status : Words]
Definitions == [command : Seq(Words), body : Texts, date : Nat]
Steps == {"idle", "pick", "written", "out", "enabled", "script", "unloaded"}
Runs == [verb : {"none", "apply", "start", "restart"}, name : Names \cup {""}, pc : Steps, queue : Seq(Names),
         changed : BOOLEAN, was : BOOLEAN, failed : SUBSET Names, again : BOOLEAN]

\* An entry of the lock is one that SpecToLock makes.
NoteOk(n, l) ==
  /\ l.label \in Owns \cup {NoId} /\ (l.plist = "" => l.label = NoId)
  /\ l.base \in Owns \cup {GenId(n), NoId} /\ (l.unit = "" <=> l.base = NoId)
  /\ l.task.action = "" => l.task = NoTask

\* Every part of the state is of its type, the spec is one that validates, and the
\* counters are within their bounds.
Typed ==
  /\ platform \in Platforms
  /\ spec \in [Names -> Forms] /\ Valid(spec)
  /\ template \in [Sources -> Renderings] /\ today \in Nat
  /\ lock \in [Names -> Notes] /\ \A n \in Names : NoteOk(n, lock[n])
  /\ file \in [UnitIds -> Definitions] /\ loaded \in [UnitIds -> Definitions]
  /\ running \in [UnitIds -> Definitions] /\ script \in [Names -> Texts]
  /\ run \in Runs
  /\ installed \in [UnitIds -> Names \cup {""}]
  /\ cut \subseteq UnitIds /\ loose \subseteq UnitIds
  /\ quiet \in BOOLEAN /\ clean \in BOOLEAN
  /\ runs \in 0..MaxRuns /\ failures \in 0..MaxFailures /\ edits \in 0..MaxEdits

\* The ways to start a service that write a unit file of it.
WritingWays == {"launchd", "systemd", "generated systemd", "generated launchd"}

\* Where a command is with the service whose turn it is.
Placed ==
  /\ Idle <=> run = NoRun
  /\ run.pc \notin {"idle", "pick"} => run.queue # <<>>
  /\ ~Idle => run.verb # "none"
  /\ run.verb \in {"start", "restart"} =>
       /\ run.name \in Declared /\ ~run.again
       /\ run.queue = <<run.name>> \/ (run.queue = <<>> /\ run.pc = "pick")
       /\ run.pc = "pick" /\ run.queue # <<>> => run.failed = {}
  /\ run.verb = "apply" =>
       /\ \A i, j \in DOMAIN run.queue : run.queue[i] = run.queue[j] => i = j
       /\ \A n \in ToSet(run.queue) : spec[n] # Undeclared \/ lock[n] # Unlocked

\* The unit file is the one that is wanted (launchd, systemd), or the task's (schtasks).
AtWritten ==
  run.pc = "written" =>
    /\ ~Removing /\ run.verb \in {"apply", "start"}
    /\ \/ Way \in WritingWays /\ Renderable /\ file[Now] = Wanted
       \/ run.verb = "apply" /\ Way = "task" /\ script[Subject] = D.task.action /\ file[Now] = TaskXml(D.task)

\* The unit is out of launchd and is about to be loaded from its file.
AtOut ==
  run.pc = "out" =>
    /\ ~Removing /\ Way \in {"launchd", "generated launchd"}
    /\ Renderable /\ file[Now] # Absent
    /\ run.verb \in {"apply", "start"} => file[Now] = Wanted

\* The unit was started, and systemd knows its file, unless it is known to be behind.
AtEnabled ==
  run.pc = "enabled" =>
    /\ ~Removing /\ run.verb \in {"apply", "start"} /\ Way \in {"systemd", "generated systemd"}
    /\ Renderable /\ file[Now] = Wanted /\ loaded[Now] # Absent
    /\ loaded[Now] = file[Now] \/ Now \in cut

\* The script of the task has been written and its definition is next.
AtScript ==
  run.pc = "script" =>
    /\ run.verb = "apply" /\ ~Removing /\ Way = "task" /\ script[Subject] = D.task.action
    /\ installed[Now] # ""
    /\ ~run.changed => file[Now] = TaskXml(D.task)

\* The unit of a service that left the spec is down, if the supervisor could be asked.
AtUnloaded ==
  run.pc = "unloaded" =>
    /\ run.verb = "apply" /\ Removing /\ Way \in {"launchd", "systemd", "task"}
    /\ Gone \in loose \/ (running[Gone] = Absent /\ (Systemd \/ loaded[Gone] = Absent))

Positions == Placed /\ AtWritten /\ AtOut /\ AtEnabled /\ AtScript /\ AtUnloaded

\* What a start or restart will answer, once its service has had its turn.
Answered ==
  run.verb \in {"start", "restart"} /\ run.queue = <<>> /\ run.failed = {} =>
    LET u == UnitOf(run.name, spec[run.name])
    IN Backend(spec[run.name]) \in {"launchd", "systemd"} =>
         IF run.verb = "start" THEN Current(run.name) \/ u \in cut
         ELSE running[u] \in StartOf(loaded[u]) /\ (Launchd => loaded[u] = file[u])

\* A unit of brew or of a plain command has no file and is not loaded.
OnlyRun(u) == u[1] \in {"brew", "raw"} => file[u] = Absent /\ loaded[u] = Absent
\* A file is there because genv put it there.
FileIsInstalled(u) == file[u] # Absent => installed[u] # ""
\* A scheduled task is registered; whether it runs is up to its trigger.
TaskNeverRuns(u) == Schtasks /\ u[1] \in {"genv", "own"} => running[u] = Absent
\* A unit that is behind its file is known as such, or is about to be loaded again.
Pending(u) ==
  /\ run.queue # <<>> /\ u = Now
  /\ run.pc = "out" \/ (run.pc = "written" /\ run.changed)
\* launchd and the scheduler have what is in the file.
NotBehind(u) == (Launchd \/ Schtasks) /\ Behind(u) => u \in cut \/ Pending(u)
\* What is in memory is there, and is not what the file says.
Old(v, u) == file[u] # Absent /\ v \notin {Absent, file[u]}
Restarting(u) == run.queue # <<>> /\ u = Now /\ run.pc = "enabled" /\ run.changed /\ run.was
\* systemd has what is in the file, and so has the process of a unit file that a template
\* made: the restart of a changed unit is the next step.
NotOld(u) ==
  Systemd =>
    /\ file[u].command = <<>> /\ Old(running[u], u) => u \in cut \/ Pending(u) \/ Restarting(u)
    /\ Old(loaded[u], u) => u \in cut \/ Pending(u)
UnitFine(u) == OnlyRun(u) /\ FileIsInstalled(u) /\ TaskNeverRuns(u) /\ NotBehind(u) /\ NotOld(u)
Supervision == \A u \in UnitIds : UnitFine(u)

\* The unit of a plain command is what the lock notes of it.
PlainNote(l) == l.brew = "" /\ l.plist = "" /\ l.unit = "" /\ l.task.action = "" /\ l # Unlocked
\* What the lock notes of a plain command, as far as the supervisor's unit has it.
NotedText(l) == IF Systemd THEN <<l.start, l.stop, l.restart>> ELSE <<l.start>>
HasText(f, l) ==
  /\ f # Absent /\ Len(f.command) = Len(NotedText(l))
  /\ \A i \in DOMAIN f.command : Joined(f.command[i]) = Joined(NotedText(l)[i])
\* The unit has been written again and the lock has not: only while a command is under way.
Overtaken(n) ==
  IF n \in Declared
  THEN /\ ~Same(spec[n], lock[n]) /\ file[GenId(n)] = Written(spec[n])
       /\ \/ run.verb = "apply"
          \/ run.verb = "start" /\ n = run.name /\ (run.pc = "pick" => run.queue = <<>>)
  ELSE run.verb = "apply"
NoteTrue(n) ==
  (Systemd \/ Launchd) /\ PlainNote(lock[n]) =>
    HasText(file[GenId(n)], lock[n]) \/ GenId(n) \in cut \/ Overtaken(n)
NotesAreTrue == \A n \in Names : NoteTrue(n)

\* Another declared service has the same unit.
Twin(n) ==
  LET u == UnitOf(n, spec[n])
  IN u[1] = "own" /\ \E m \in Declared \ {n} : UnitOf(m, spec[m]) = u
\* The unit is also one that a service left behind when it left the spec.
Swept(n) ==
  LET u == UnitOf(n, spec[n])
  IN u[1] = "own" /\ \E m \in Names \ Declared :
       /\ RemovalId(m, lock[m]) = u
       /\ m \in run.failed \/ (run.pc = "unloaded" /\ m = Subject)
\* Something else than its own declaration decides over the unit.
Excused(n) == UnitOf(n, spec[n]) \in cut \/ Twin(n)
Scripted(n) == Backend(spec[n]) = "task" => script[n] = spec[n].task.action
Fine(n) == Scripted(n) /\ (Current(n) \/ Excused(n))
FineOrSwept(n) == Scripted(n) /\ (Current(n) \/ Excused(n) \/ Swept(n))
\* A service that an apply is done with.
Visited ==
  run.verb = "apply" =>
    \A n \in Declared : n \notin ToSet(run.queue) /\ n \notin run.failed => FineOrSwept(n)

\* Between a complete apply and the end of the next one.
InOrder ==
  /\ lock = [n \in Names |-> SpecToLock(n, spec[n])]
  /\ \A n \in Declared : Fine(n)
\* Nothing has happened since an apply that did everything.
SettledIn == clean /\ quiet => Idle /\ InOrder
\* An apply that began there has nothing to do, but for the excused.
AgainIn ==
  run.again =>
    /\ run.verb = "apply" /\ InOrder
    /\ run.pc \in {"written", "enabled", "script"} => Supervised(D)
    /\ run.pc \in {"written", "enabled", "script"} /\ run.changed => Excused(Subject)
    /\ run.pc = "out" => Supervised(D) /\ (Excused(Subject) \/ loaded[Now] # Absent)

\* What genv put into a supervisor is a declared service's, or still in the lock.
Claimed(u) == \E n \in Declared : UnitOf(n, spec[n]) = u
Held(u) == \E n \in Names \ Declared : /\ installed[u] = n /\ lock[n] # Unlocked
                                       /\ u = RecordedUnit(n, lock[n])
\* Nothing is installed by a plain command under a supervisor.
RawInstalled == Systemd \/ Launchd => \A n \in Names : installed[RawId(n)] = ""
\* What is installed and still there is some service's, unless it was let go knowingly.
AccountedFor(u) == installed[u] # "" /\ Present(u) => u \in loose \/ Claimed(u) \/ Held(u)
Accounted == \A u \in UnitIds : AccountedFor(u)
\* A service that left the spec has been taken down.
Down(n) ==
  lock[n] # Unlocked =>
    \A u \in UnitIds : installed[u] = n /\ u = RecordedUnit(n, lock[n]) /\ Present(u) =>
      u \in loose \/ Claimed(u)
TakenDown ==
  run.verb = "apply" =>
    \A n \in Names \ Declared : n \notin ToSet(run.queue) /\ n \notin run.failed => Down(n)
Orphans == RawInstalled /\ Accounted /\ TakenDown

(***************************************************************************)
(* The inductive invariant. Typed and Positions are about the command      *)
(* under way; Supervision and NotesAreTrue about the files, the supervisor *)
(* and the lock at any time; Visited, SettledIn and AgainIn about what an  *)
(* apply has done; Orphans about what it has to find again.                *)
(***************************************************************************)
SInv == /\ Typed /\ Positions /\ Answered /\ Supervision /\ NotesAreTrue /\ Visited
        /\ SettledIn /\ AgainIn /\ Orphans

\* The unit and the backend of a service, as the spec stands.
U(n) == UnitOf(n, spec[n])
B(n) == Backend(spec[n])

(***************************************************************************)
(* The names of units, and the ways of the backends.                       *)
(***************************************************************************)
LEMMA IdFacts ==
  /\ \A n : GenId(n)[1] = "genv" /\ RawId(n)[1] = "raw" /\ OwnId(n)[1] = "own" /\ BrewId(n)[1] = "brew"
  /\ \A n \in Names : GenId(n) \in UnitIds /\ RawId(n) \in UnitIds
  /\ \A f \in Formulas : BrewId(f) \in UnitIds
  /\ \A l \in UnitLabels : OwnId(l) \in Owns
  /\ \A u \in Owns : u \in UnitIds /\ u[1] = "own"
  /\ \A m, n : (GenId(m) = GenId(n) => m = n) /\ (RawId(m) = RawId(n) => m = n)
  /\ \A u \in UnitIds : u[1] \in {"genv", "own", "brew", "raw"} /\ u # NoId
<1>1. \A n : GenId(n)[1] = "genv" /\ RawId(n)[1] = "raw" /\ OwnId(n)[1] = "own" /\ BrewId(n)[1] = "brew"
  BY DEF GenId, RawId, OwnId, BrewId
<1>2. NoId[1] = ""
  BY DEF NoId
<1>3. \A m, n : (GenId(m) = GenId(n) => m = n) /\ (RawId(m) = RawId(n) => m = n)
  BY DEF GenId, RawId
<1>4. /\ \A n \in Names : GenId(n) \in UnitIds /\ RawId(n) \in UnitIds
      /\ \A f \in Formulas : BrewId(f) \in UnitIds
      /\ \A l \in UnitLabels : OwnId(l) \in Owns
  BY DEF UnitIds, Owns
<1>5. \A u \in Owns : u \in UnitIds /\ u[1] = "own"
  BY <1>1 DEF UnitIds, Owns
<1>6. \A u \in UnitIds : u[1] \in {"genv", "own", "brew", "raw"}
  BY <1>1 DEF UnitIds
<1>7. \A u \in UnitIds : u # NoId
  BY <1>2, <1>6
<1> QED BY <1>1, <1>3, <1>4, <1>5, <1>6, <1>7

\* What the inputs and the lock are, apart from the rest of the state.
InputsOK ==
  /\ spec \in [Names -> Forms] /\ Valid(spec)
  /\ template \in [Sources -> Renderings] /\ today \in Nat
  /\ lock \in [Names -> Notes] /\ \A n \in Names : NoteOk(n, lock[n])

LEMMA TypedInputs == Typed => InputsOK
  BY DEF Typed, InputsOK

\* Which backend a service has, and of what kind its unit is.
UnitWords(n) ==
  /\ B(n) \in {"brew", "launchd", "systemd", "task", "elsewhere", "generated systemd", "generated launchd", "raw"}
  /\ B(n) = "brew" => U(n) = BrewId(spec[n].brew) /\ U(n) \in UnitIds /\ U(n)[1] = "brew" /\ spec[n].brew # ""
  /\ B(n) = "launchd" => /\ Launchd /\ ~Systemd /\ ~Schtasks
                         /\ spec[n].brew = "" /\ spec[n].plist # ""
                         /\ IF HasLabel(spec[n].plist) THEN U(n) \in Owns ELSE U(n) = NoId
  /\ B(n) = "systemd" => /\ Systemd /\ ~Launchd /\ ~Schtasks
                         /\ spec[n].brew = "" /\ spec[n].unit # ""
                         /\ U(n) \in Owns \cup {GenId(n)}
  /\ B(n) = "task" => Schtasks /\ ~Launchd /\ ~Systemd /\ Tasked(spec[n]) /\ spec[n].brew = "" /\ U(n) = GenId(n)
  /\ B(n) = "elsewhere" => Supervised(spec[n]) /\ spec[n].brew = "" /\ U(n) = NoId
  /\ B(n) = "generated systemd" => /\ Systemd /\ ~Launchd /\ ~Schtasks
                                   /\ ~Supervised(spec[n]) /\ spec[n].brew = "" /\ U(n) = GenId(n)
  /\ B(n) = "generated launchd" => /\ Launchd /\ ~Systemd /\ ~Schtasks
                                   /\ ~Supervised(spec[n]) /\ spec[n].brew = "" /\ U(n) = GenId(n)
  /\ B(n) = "raw" => ~Launchd /\ ~Systemd /\ ~Supervised(spec[n]) /\ spec[n].brew = "" /\ U(n) = RawId(n)
UnitVocab == \A n \in Names : UnitWords(n)

LEMMA Platform == ~(Launchd /\ Systemd) /\ ~(Launchd /\ Schtasks) /\ ~(Systemd /\ Schtasks) /\ (BrewServices <=> Launchd)
  BY DEF Launchd, Systemd, Schtasks, BrewServices

LEMMA UnitLemma == InputsOK => UnitVocab
<1> SUFFICES ASSUME InputsOK, NEW n \in Names PROVE UnitWords(n)
  BY DEF UnitVocab
<1>1. spec[n] \in Forms
  BY DEF InputsOK
<1>2. /\ spec[n].brew # "" => spec[n].brew \in Formulas
      /\ spec[n].plist # "" => spec[n].plist \in Sources
      /\ spec[n].unit # "" => spec[n].unit \in DOMAIN Base
  BY <1>1 DEF Forms
<1>3. \A s \in Sources : HasLabel(s) => OwnId(template[s].label) \in Owns
  BY IdFacts DEF InputsOK, HasLabel, Renderings
<1>4. \A s \in DOMAIN Base : Base[s] # "" => OwnId(Base[s]) \in Owns
  BY IdFacts, RenderingsAssumption
<1>5. spec[n].unit # "" => SystemdId(n, spec[n]) \in Owns \cup {GenId(n)}
  BY <1>2, <1>4 DEF SystemdId
<1> DEFINE d == spec[n]
<1>6. B(n) \in {"brew", "launchd", "systemd", "task", "elsewhere", "generated systemd", "generated launchd", "raw"}
  BY DEF B, Backend
<1>7. B(n) = "brew" => U(n) = BrewId(d.brew) /\ d.brew # ""
  BY DEF B, U, UnitOf, Backend
<1>8. B(n) = "launchd" => /\ Launchd /\ d.brew = "" /\ d.plist # ""
                          /\ U(n) = IF HasLabel(d.plist) THEN OwnId(template[d.plist].label) ELSE NoId
  BY DEF B, U, UnitOf, Backend
<1>9. B(n) = "systemd" => Systemd /\ d.brew = "" /\ d.unit # "" /\ U(n) = SystemdId(n, d)
  BY DEF B, U, UnitOf, Backend
<1>10. B(n) = "task" => Schtasks /\ Tasked(d) /\ d.brew = "" /\ U(n) = GenId(n)
  BY DEF B, U, UnitOf, Backend
<1>11. B(n) = "elsewhere" => Supervised(d) /\ d.brew = "" /\ U(n) = NoId
  BY DEF B, U, UnitOf, Backend
<1>12. B(n) = "generated systemd" => Systemd /\ ~Supervised(d) /\ d.brew = "" /\ U(n) = GenId(n)
  BY DEF B, U, UnitOf, Backend
<1>13. B(n) = "generated launchd" => Launchd /\ ~Supervised(d) /\ d.brew = "" /\ U(n) = GenId(n)
  BY DEF B, U, UnitOf, Backend
<1>14. B(n) = "raw" => ~Launchd /\ ~Systemd /\ ~Supervised(d) /\ d.brew = "" /\ U(n) = RawId(n)
  BY DEF B, U, UnitOf, Backend
<1> HIDE DEF d
<1>15. B(n) = "brew" => U(n) \in UnitIds /\ U(n)[1] = "brew"
  BY <1>2, <1>7, IdFacts DEF d
<1>16. B(n) = "launchd" => IF HasLabel(d.plist) THEN U(n) \in Owns ELSE U(n) = NoId
  BY <1>2, <1>3, <1>8 DEF d
<1>17. B(n) = "systemd" => U(n) \in Owns \cup {GenId(n)}
  BY <1>5, <1>9 DEF d
<1> QED BY <1>6, <1>7, <1>8, <1>9, <1>10, <1>11, <1>12, <1>13, <1>14, <1>15, <1>16, <1>17, Platform DEF UnitWords, d

\* How a service is started: the backend, and what a plain command needs.
Ways == {"brew", "launchd", "systemd", "task", "elsewhere", "generated systemd", "generated launchd"}
CommandWays == {"raw", "restart", "stop and start"}

WayWords(n) ==
  /\ B(n) \in Ways \cup {"raw"}
  /\ StartWay(spec[n]) \in {"brew", "launchd", "systemd", "raw", "refused"}
  /\ StartWay(spec[n]) \in Ways => StartWay(spec[n]) = B(n)
  /\ StartWay(spec[n]) = "raw" => ~Supervised(spec[n]) /\ spec[n].brew = ""
  /\ RestartWay(spec[n]) \in {"brew", "launchd", "systemd", "restart", "stop and start", "refused"}
  /\ RestartWay(spec[n]) \in Ways => RestartWay(spec[n]) = B(n)
  /\ RestartWay(spec[n]) \in CommandWays => ~Supervised(spec[n]) /\ spec[n].brew = ""
  /\ spec[n].brew # "" \/ ~Supervised(spec[n]) => B(n) \in {"brew", "generated systemd", "generated launchd", "raw"}
  /\ ~(Supervised(spec[n]) /\ spec[n].brew # "")
WayVocab == \A n \in Declared : WayWords(n)

LEMMA WayLemma == InputsOK => WayVocab
<1> SUFFICES ASSUME InputsOK, NEW n \in Declared PROVE WayWords(n)
  BY DEF WayVocab
<1> DEFINE d == spec[n]
<1>1. n \in Names /\ d \in Forms /\ DeclarationOk(d)
  BY DEF InputsOK, Valid, Declared
<1>2. d.start # <<>> => ~Supervised(d)
  BY <1>1 DEF DeclarationOk
<1>3. ~(Supervised(d) /\ d.brew # "")
  BY <1>1 DEF DeclarationOk
<1>4. /\ StartWay(d) \in {"brew", "launchd", "systemd", "raw", "refused"}
      /\ StartWay(d) = "brew" => d.brew # ""
      /\ StartWay(d) = "launchd" => d.brew = "" /\ d.plist # "" /\ Launchd
      /\ StartWay(d) = "systemd" => d.brew = "" /\ d.plist = "" /\ d.unit # "" /\ Systemd
      /\ StartWay(d) = "raw" => d.brew = "" /\ d.start # <<>>
  BY DEF StartWay
<1>5. /\ RestartWay(d) \in {"brew", "launchd", "systemd", "restart", "stop and start", "refused", "raw"}
      /\ RestartWay(d) = "brew" => d.brew # ""
      /\ RestartWay(d) \in {"launchd", "systemd"} => RestartWay(d) = StartWay(d)
      /\ RestartWay(d) \in CommandWays \ {"raw"} => d.brew = "" /\ ~Supervised(d)
  BY <1>4 DEF RestartWay, CommandWays, Supervised
<1>6. RestartWay(d) # "raw"
  BY DEF RestartWay, StartWay, Templated
<1>7. d.brew # "" => B(n) = "brew"
  BY DEF B, Backend
<1>8. d.brew = "" /\ d.plist # "" /\ Launchd => B(n) = "launchd"
  BY DEF B, Backend, Supervised, Templated, Tasked, Launchd, Systemd, Schtasks
<1>9. d.brew = "" /\ d.unit # "" /\ Systemd => B(n) = "systemd"
  BY DEF B, Backend, Supervised, Templated, Tasked, Launchd, Systemd, Schtasks
<1>10. ~Supervised(d) => B(n) \in {"brew", "generated systemd", "generated launchd", "raw"}
  BY DEF B, Backend, Supervised, Templated, Tasked
<1>11. B(n) \in Ways \cup {"raw"}
  BY DEF B, Backend, Ways
<1> HIDE DEF d
<1> QED BY <1>2, <1>3, <1>4, <1>5, <1>6, <1>7, <1>8, <1>9, <1>10, <1>11 DEF WayWords, d, Ways, CommandWays

\* Which unit the removal of a service that left the spec is about.
RemovalWords(n) ==
  LET l == lock[n] way == RemovalWay(l) id == RemovalId(n, l)
  IN /\ way \in {"brew", "launchd", "systemd", "task", "raw", "elsewhere"}
     /\ way = "brew" => id \in UnitIds /\ id[1] = "brew"
     /\ way = "launchd" => Launchd /\ ~Systemd /\ ~Schtasks /\ id \in Owns \cup {GenId(n)}
     /\ way = "systemd" => Systemd /\ ~Launchd /\ ~Schtasks /\ id \in Owns \cup {GenId(n)}
     /\ way = "task" => Schtasks /\ ~Launchd /\ ~Systemd /\ id = GenId(n)
     /\ way = "raw" => ~Launchd /\ ~Systemd /\ id = RawId(n)
     /\ way = "elsewhere" => id = NoId
     /\ RecordedUnit(n, l) \in UnitIds => RecordedUnit(n, l) = id /\ way # "elsewhere"
     /\ PlainNote(l) /\ (Systemd \/ Launchd) => id = GenId(n)
RemovalVocab == \A n \in Names : RemovalWords(n)

LEMMA RemovalLemma == InputsOK => RemovalVocab
<1> SUFFICES ASSUME InputsOK, NEW n \in Names PROVE RemovalWords(n)
  BY DEF RemovalVocab
<1> DEFINE l == lock[n] way == RemovalWay(l) id == RemovalId(n, l)
<1>1. l \in Notes /\ NoteOk(n, l)
  BY DEF InputsOK
<1>2. /\ l.label \in Owns \cup {NoId} /\ (l.plist = "" => l.label = NoId)
      /\ l.base \in Owns \cup {GenId(n), NoId} /\ (l.unit = "" <=> l.base = NoId)
      /\ l.task.action = "" => l.task = NoTask
  BY <1>1 DEF NoteOk
<1>3. l.brew # "" => l.brew \in Formulas
  BY <1>1 DEF Notes
<1>4. /\ way \in {"brew", "launchd", "systemd", "task", "raw", "elsewhere"}
      /\ way = "brew" <=> l.brew # ""
      /\ way = "launchd" => Launchd
      /\ way = "systemd" => Systemd
      /\ way = "task" => Schtasks
      /\ way = "raw" => ~Launchd /\ ~Systemd
  BY DEF RemovalWay, Launchd, Systemd, Schtasks
<1>5. /\ way = "brew" => id = BrewId(l.brew)
      /\ way = "raw" => id = RawId(n)
      /\ way = "elsewhere" => id = NoId
      /\ way \in {"launchd", "systemd", "task"} =>
           id = IF l.label # NoId /\ way = "launchd" THEN l.label
                ELSE IF l.base # NoId /\ way = "systemd" THEN l.base ELSE GenId(n)
  <2>1. \A w : w = way => (w = "brew" => id = BrewId(l.brew)) /\ (w = "raw" => id = RawId(n)) /\ (w = "elsewhere" => id = NoId)
                           /\ (w \in {"launchd", "systemd", "task"} => id = IF l.label # NoId /\ w = "launchd" THEN l.label
                ELSE IF l.base # NoId /\ w = "systemd" THEN l.base ELSE GenId(n))
    BY DEF RemovalId
  <2> HIDE DEF way, id, l
  <2> QED BY <2>1
<1>6. /\ RecordedUnit(n, l) = IF way = "elsewhere" THEN NoId
                              ELSE IF l.brew # "" THEN BrewId(l.brew)
                              ELSE IF Launchd /\ l.plist # "" THEN l.label
                              ELSE IF Systemd /\ l.unit # "" THEN l.base
                              ELSE IF way = "raw" THEN RawId(n) ELSE GenId(n)
  BY DEF RecordedUnit
<1>7. Launchd /\ l.plist # "" /\ l.brew = "" => way = "launchd"
  BY DEF RemovalWay
<1>8. Systemd /\ l.unit # "" /\ l.brew = "" => way \in {"systemd", "elsewhere"}
  BY DEF RemovalWay, Launchd, Systemd
<1>9. PlainNote(l) /\ (Systemd \/ Launchd) => way \in {"systemd", "launchd"} /\ l.label = NoId /\ l.base = NoId
  BY <1>2 DEF RemovalWay, PlainNote
<1> HIDE DEF l, way, id
<1>10. ASSUME RecordedUnit(n, l) \in UnitIds PROVE RecordedUnit(n, l) = id /\ way # "elsewhere"
  <2>1. RecordedUnit(n, l) # NoId
    BY <1>10, IdFacts
  <2>2. way # "elsewhere"
    BY <1>6, <2>1
  <2>3. CASE l.brew # ""
    BY <1>4, <1>5, <1>6, <2>2, <2>3
  <2>4. CASE l.brew = "" /\ Launchd /\ l.plist # ""
    BY <1>5, <1>6, <1>7, <2>1, <2>2, <2>4
  <2>5. CASE l.brew = "" /\ Systemd /\ l.unit # ""
    <3>1. way = "systemd" /\ RecordedUnit(n, l) = l.base
      BY <1>6, <1>8, <2>2, <2>5, Platform
    <3> QED BY <1>5, <2>1, <2>2, <3>1
  <2>6. CASE l.brew = "" /\ ~(Launchd /\ l.plist # "") /\ ~(Systemd /\ l.unit # "")
    <3>1. way = "launchd" => l.label = NoId
      BY <1>2, <1>4, <2>6
    <3>2. way = "systemd" => l.base = NoId
      BY <1>2, <1>4, <2>6
    <3>3. way # "brew"
      BY <1>4, <2>6
    <3> QED BY <1>4, <1>5, <1>6, <2>2, <2>6, <3>1, <3>2, <3>3
  <2> QED BY <2>2, <2>3, <2>4, <2>5, <2>6
<1>11. way = "brew" => id \in UnitIds /\ id[1] = "brew"
  BY <1>3, <1>4, <1>5, IdFacts
<1>12. PlainNote(l) /\ (Systemd \/ Launchd) => id = GenId(n)
  BY <1>5, <1>9
<1>13. way \in {"launchd", "systemd"} => id \in Owns \cup {GenId(n)}
  BY <1>2, <1>5
<1>14. way = "task" => id = GenId(n)
  BY <1>5
<1> QED BY <1>4, <1>5, <1>10, <1>11, <1>12, <1>13, <1>14, Platform DEF RemovalWords, l, way, id

\* The service whose turn it is, and its kind.
SubjectWords ==
  run.queue # <<>> /\ ~Idle =>
    /\ run.verb \in {"apply", "start", "restart"} /\ Subject \in Names /\ Subject \in ToSet(run.queue)
    /\ Removing => /\ run.verb = "apply" /\ Subject \notin Declared /\ lock[Subject] # Unlocked
                   /\ Way = RemovalWay(lock[Subject]) /\ Gone = RemovalId(Subject, lock[Subject])
    /\ ~Removing =>
         /\ Subject \in Declared /\ Now = U(Subject) /\ D = spec[Subject]
         /\ Way \in Ways \cup CommandWays \cup {"refused"}
         /\ Way \in Ways => Way = B(Subject)
         /\ Way \in CommandWays => ~Supervised(D) /\ D.brew = ""
         /\ run.verb = "apply" => Way = B(Subject)
         /\ run.verb = "start" => Way \in {"brew", "launchd", "systemd", "raw", "refused"}
         /\ run.verb = "restart" => Way \in {"brew", "launchd", "systemd", "restart", "stop and start", "refused"}
    /\ run.verb # "apply" => ~Removing /\ Subject = run.name /\ Tail(run.queue) = <<>>

LEMMA SubjectLemma == Typed /\ Placed => SubjectWords
<1> SUFFICES ASSUME Typed, Placed, run.queue # <<>>, ~Idle
             PROVE SubjectWords
  BY DEF SubjectWords
<1>1. /\ run \in Runs /\ run.queue \in Seq(Names)
  BY DEF Typed, Runs
<1>2. Subject \in Names /\ Subject \in ToSet(run.queue)
  BY <1>1, ToSetTail DEF Subject
<1>3. run.verb \in {"apply", "start", "restart"}
  BY <1>1 DEF Placed, Runs
<1>4. run.verb # "apply" => run.queue = <<run.name>> /\ run.name \in Declared
  BY <1>3 DEF Placed
<1>5. run.verb # "apply" => ~Removing /\ Subject = run.name /\ Tail(run.queue) = <<>>
  <2>1. \A x : Head(<<x>>) = x /\ Tail(<<x>>) = <<>>
    OBVIOUS
  <2>2. \A q : q = <<run.name>> => Head(q) = run.name /\ Tail(q) = <<>>
    BY <2>1
  <2> QED BY <1>4, <2>2 DEF Removing, Subject
<1>6. ~Removing => Subject \in Declared
  BY <1>2, <1>4, <1>5 DEF Removing, Declared, D
<1>7. Removing => run.verb = "apply" /\ Subject \notin Declared /\ lock[Subject] # Unlocked
  BY <1>2 DEF Removing, Declared, D, Placed
<1>8. Removing => Way = RemovalWay(lock[Subject]) /\ Gone = RemovalId(Subject, lock[Subject])
  BY DEF Way, Gone, Removing
<1>9. Subject \in Declared => WayWords(Subject)
  BY TypedInputs, WayLemma DEF WayVocab
<1>10. ~Removing => Now = U(Subject) /\ D = spec[Subject]
  BY DEF Now, U, D
<1>11. B(Subject) = Backend(D)
  BY DEF B, D
<1>12. ~Removing =>
         /\ run.verb = "apply" => Way = B(Subject)
         /\ run.verb = "start" => Way = StartWay(spec[Subject])
         /\ run.verb = "restart" => Way = RestartWay(spec[Subject])
  BY <1>10, <1>11 DEF Way
<1>13. ~Removing =>
         /\ Way \in Ways \cup CommandWays \cup {"refused"}
         /\ Way \in Ways => Way = B(Subject)
         /\ Way \in CommandWays => ~Supervised(D) /\ D.brew = ""
         /\ run.verb = "start" => Way \in {"brew", "launchd", "systemd", "raw", "refused"}
         /\ run.verb = "restart" => Way \in {"brew", "launchd", "systemd", "restart", "stop and start", "refused"}
  <2> SUFFICES ASSUME ~Removing
               PROVE  /\ Way \in Ways \cup CommandWays \cup {"refused"}
                      /\ Way \in Ways => Way = B(Subject)
                      /\ Way \in CommandWays => ~Supervised(D) /\ D.brew = ""
                      /\ run.verb = "start" => Way \in {"brew", "launchd", "systemd", "raw", "refused"}
                      /\ run.verb = "restart" => Way \in {"brew", "launchd", "systemd", "restart", "stop and start", "refused"}
    OBVIOUS
  <2>1. WayWords(Subject) /\ UnitWords(Subject) /\ D = spec[Subject]
    BY <1>2, <1>6, <1>9, <1>10, TypedInputs, UnitLemma DEF UnitVocab
  <2>2. CASE run.verb = "apply"
    BY <1>12, <2>1, <2>2 DEF WayWords, UnitWords, Ways, CommandWays
  <2>3. CASE run.verb = "start"
    BY <1>12, <2>1, <2>3 DEF WayWords, Ways, CommandWays
  <2>4. CASE run.verb = "restart"
    BY <1>12, <2>1, <2>4 DEF WayWords, Ways, CommandWays
  <2> QED BY <1>3, <2>2, <2>3, <2>4
<1> QED BY <1>2, <1>3, <1>5, <1>6, <1>7, <1>8, <1>10, <1>12, <1>13 DEF SubjectWords

\* A step that changes neither the inputs nor the lock changes nothing that is
\* computed from them.
Kept == UNCHANGED <<inputs, lock>>

LEMMA KeptNames ==
    ASSUME Kept
    PROVE  /\ platform' = platform /\ spec' = spec /\ template' = template /\ today' = today /\ lock' = lock
           /\ Declared' = Declared
           /\ (Launchd' <=> Launchd) /\ (Systemd' <=> Systemd) /\ (Schtasks' <=> Schtasks)
           /\ \A n : Kind(n)' = Kind(n)
<1>1. platform' = platform /\ spec' = spec /\ template' = template /\ today' = today /\ lock' = lock
  BY DEF Kept, inputs
<1>2. Declared' = Declared
  BY <1>1 DEF Declared
<1>3. (Launchd' <=> Launchd) /\ (Systemd' <=> Systemd) /\ (Schtasks' <=> Schtasks)
  BY <1>1 DEF Launchd, Systemd, Schtasks
<1>4. \A n : Kind(n)' = Kind(n)
  BY <1>1 DEF Kind
<1> QED BY <1>1, <1>2, <1>3, <1>4

LEMMA KeptTexts ==
    ASSUME Kept
    PROVE  /\ \A d : Generated(d)' = Generated(d) /\ Written(d)' = Written(d)
           /\ \A s : FromTemplate(s)' = FromTemplate(s) /\ (HasLabel(s)' <=> HasLabel(s)) /\ (Renders(s)' <=> Renders(s))
           /\ \A t : TaskXml(t)' = TaskXml(t)
<1>1. \A d : Generated(d)' = Generated(d)
  BY KeptNames DEF Generated
<1>2. \A s : FromTemplate(s)' = FromTemplate(s)
  BY KeptNames DEF FromTemplate
<1>3. \A d : Written(d)' = Written(d)
  BY <1>1, <1>2, KeptNames DEF Written
<1>4. \A s : (HasLabel(s)' <=> HasLabel(s)) /\ (Renders(s)' <=> Renders(s))
  BY KeptNames DEF HasLabel, Renders
<1>5. \A t : TaskXml(t)' = TaskXml(t)
  BY KeptNames DEF TaskXml
<1> QED BY <1>1, <1>2, <1>3, <1>4, <1>5

LEMMA KeptUnits ==
    ASSUME Kept
    PROVE  /\ \A d : Backend(d)' = Backend(d)
           /\ \A n, d : UnitOf(n, d)' = UnitOf(n, d)
           /\ \A n : B(n)' = B(n) /\ U(n)' = U(n)
           /\ \A d : StartWay(d)' = StartWay(d) /\ RestartWay(d)' = RestartWay(d)
<1>1. \A d : Backend(d)' = Backend(d)
  BY KeptNames DEF Backend
<1>2. \A n, d : UnitOf(n, d)' = UnitOf(n, d)
  BY KeptNames, KeptTexts, <1>1 DEF UnitOf
<1>3. \A n : B(n)' = B(n)
  BY KeptNames, <1>1 DEF B
<1>4. \A n : U(n)' = U(n)
  BY KeptNames, <1>2 DEF U
<1>5. \A d : StartWay(d)' = StartWay(d) 
  BY KeptNames DEF StartWay
<1>6. \A d : RestartWay(d)' = RestartWay(d)
  BY KeptNames, <1>5 DEF RestartWay
<1> QED BY <1>1, <1>2, <1>3, <1>4, <1>5, <1>6

LEMMA KeptRemovals ==
    ASSUME Kept
    PROVE  /\ \A l : RemovalWay(l)' = RemovalWay(l)
           /\ \A n, l : RemovalId(n, l)' = RemovalId(n, l) /\ RecordedUnit(n, l)' = RecordedUnit(n, l)
<1>1. \A l : RemovalWay(l)' = RemovalWay(l)
  BY KeptNames DEF RemovalWay
<1>2. \A n, l : RemovalId(n, l)' = RemovalId(n, l) 
  BY <1>1 DEF RemovalId
<1>3. \A n, l : RecordedUnit(n, l)' = RecordedUnit(n, l)
  BY <1>1, KeptNames DEF RecordedUnit
<1> QED BY <1>1, <1>2, <1>3

(***************************************************************************)
(* What is written into a unit.                                            *)
(***************************************************************************)
ValueWords(n) ==
  LET d == spec[n]
  IN /\ Generated(d) \in Definitions /\ Generated(d).command # <<>> /\ Generated(d) # Absent
     /\ Command(d) \in Definitions
     /\ TaskXml(d.task) \in Definitions
     /\ n \in Declared /\ Tasked(d) => TaskXml(d.task) # Absent
     /\ \A s \in {d.plist, d.unit} \ {""} :
          FromTemplate(s) \in Definitions /\ FromTemplate(s) # Absent /\ FromTemplate(s).command = <<>>
ValueVocab == Absent \in Definitions /\ \A n \in Names : ValueWords(n)

LEMMA ValueLemma == InputsOK => ValueVocab
<1> SUFFICES ASSUME InputsOK PROVE ValueVocab
  OBVIOUS
<1>s. "absent" \in Texts /\ "" \in Texts /\ "logon" \in Texts /\ 0 \in Nat
  BY TextsAssumption
<1>0. \A c \in Seq(Words), b \in Texts, t \in Nat : [command |-> c, body |-> b, date |-> t] \in Definitions
  BY DEF Definitions
<1>1. Absent \in Definitions
  <2>1. <<>> \in Seq(Words)
    OBVIOUS
  <2> QED BY <1>s, <1>0, <2>1 DEF Absent
<1> SUFFICES ASSUME NEW n \in Names PROVE ValueWords(n)
  BY <1>1 DEF ValueVocab
<1> DEFINE d == spec[n]
<1>2. d \in Forms
  BY DEF InputsOK
<1>3. d.start \in Words /\ d.stop \in Words /\ d.restart \in Words /\ d.task \in Tasks
  BY <1>2 DEF Forms, Tasks
<1>4. \A w \in Words : <<w>> \in Seq(Words) /\ <<w>> # <<>>
  OBVIOUS
<1>5. \A a, b, c \in Words : <<a, b, c>> \in Seq(Words) /\ <<a, b, c>> # <<>>
  OBVIOUS
<1>6. Generated(d).command \in Seq(Words) /\ Generated(d).command # <<>>
  BY <1>3, <1>4, <1>5 DEF Generated
<1>7. Generated(d) \in Definitions /\ Generated(d) # Absent
  <2>1. Generated(d) = [command |-> Generated(d).command, body |-> "", date |-> 0]
    BY DEF Generated
  <2>2. Generated(d) \in Definitions
    <3> HIDE DEF Generated, d
    <3> QED BY <1>s, <1>0, <1>6, <2>1
  <2>3. Absent.command = <<>>
    BY DEF Absent
  <2> QED BY <1>6, <2>2, <2>3
<1>8. Command(d) \in Definitions
  BY <1>s, <1>0, <1>3, <1>4 DEF Command
<1>9. \A t \in Tasks : Effective(t) \in Tasks
  <2> TAKE t \in Tasks
  <2>1. CASE t.trigger = ""
    BY <1>s, <2>1 DEF Effective, Tasks
  <2>2. CASE t.trigger # ""
    BY <2>2 DEF Effective
  <2> QED BY <2>1, <2>2
<1>10. \A t \in Tasks : TaskXml(t) \in Definitions /\ TaskXml(t).body = Effective(t).trigger
  <2> TAKE t \in Tasks
  <2>1. Effective(t).trigger \in Texts
    BY <1>9 DEF Tasks
  <2>2. today \in Nat
    BY DEF InputsOK
  <2>3. <<>> \in Seq(Words)
    OBVIOUS
  <2> QED BY <2>1, <2>2, <2>3 DEF TaskXml, Definitions
<1>11. n \in Declared /\ Tasked(d) => TaskXml(d.task) # Absent
  <2> SUFFICES ASSUME n \in Declared, Tasked(d) PROVE TaskXml(d.task) # Absent
    OBVIOUS
  <2>1. DeclarationOk(d)
    BY DEF InputsOK, Valid, Declared
  <2>4. d.task # NoTask
    <3>1. NoTask.action = ""
      BY DEF NoTask
    <3> QED BY <3>1 DEF Tasked
  <2>2. TaskOk(d.task)
    BY <2>1, <2>4 DEF DeclarationOk
  <2>3. Effective(d.task).trigger # "absent"
    BY <2>2 DEF TaskOk
  <2> QED BY <1>3, <1>10, <2>3 DEF Absent
<1>12. \A s \in Sources : FromTemplate(s) \in Definitions /\ FromTemplate(s) # Absent /\ FromTemplate(s).command = <<>>
  <2> TAKE s \in Sources
  <2>1. template[s].body \in Texts /\ template[s].body # "absent"
    BY DEF InputsOK, Renderings
  <2>2. <<>> \in Seq(Words)
    OBVIOUS
  <2> QED BY <2>1, <2>2 DEF FromTemplate, Definitions, Absent
<1>13. \A s \in {d.plist, d.unit} \ {""} : s \in Sources
  BY <1>2, RenderingsAssumption DEF Forms
<1> QED BY <1>3, <1>6, <1>7, <1>8, <1>10, <1>11, <1>12, <1>13 DEF ValueWords

(***************************************************************************)
(* The unit whose turn it is.                                              *)
(***************************************************************************)
NowWords ==
  run.queue # <<>> /\ ~Idle /\ ~Removing =>
    /\ D \in Forms /\ D = spec[Subject] /\ ValueWords(Subject) /\ UnitWords(Subject) /\ WayWords(Subject)
    /\ Way \in WritingWays =>
         /\ Wanted \in Definitions /\ Wanted # Absent
         /\ Renderable => Now \in UnitIds /\ Now \in Owns \cup {GenId(Subject)}
    /\ Way = "launchd" => Wanted = FromTemplate(D.plist) /\ (Renderable <=> HasLabel(D.plist)) /\ (Renderable => Now \in Owns)
    /\ Way = "systemd" => Wanted = FromTemplate(D.unit) /\ Wanted.command = <<>>
    /\ Way \in {"generated systemd", "generated launchd"} =>
         Wanted = Generated(D) /\ Now = GenId(Subject) /\ Renderable
    /\ Way = "task" => Now = GenId(Subject) /\ Now \in UnitIds
    /\ Way = "brew" => Now = BrewId(D.brew) /\ Now \in UnitIds

LEMMA NowLemma == Typed /\ Placed => NowWords
<1> SUFFICES ASSUME Typed, Placed, run.queue # <<>>, ~Idle, ~Removing PROVE NowWords
  BY DEF NowWords
<1>1. /\ Subject \in Names /\ Subject \in Declared /\ Now = U(Subject) /\ D = spec[Subject]
      /\ Way \in Ways \cup CommandWays \cup {"refused"}
      /\ Way \in Ways => Way = B(Subject)
  BY SubjectLemma DEF SubjectWords
<1>2. InputsOK
  BY TypedInputs
<1>3. ValueWords(Subject) /\ UnitWords(Subject) /\ D \in Forms /\ WayWords(Subject)
  BY <1>1, <1>2, ValueLemma, UnitLemma, WayLemma DEF ValueVocab, UnitVocab, WayVocab, InputsOK
<1>4. /\ Way = "launchd" => Wanted = FromTemplate(D.plist) /\ (Renderable <=> HasLabel(D.plist))
      /\ Way = "systemd" => Wanted = FromTemplate(D.unit)
      /\ Way \notin {"launchd", "systemd"} => Wanted = Generated(D) /\ Renderable
  BY DEF Wanted, Renderable
<1>5. GenId(Subject) \in UnitIds /\ Owns \subseteq UnitIds
  BY <1>1, IdFacts
<1>6. Way = "launchd" => /\ D.plist # "" /\ (Renderable => Now \in Owns)
  BY <1>1, <1>3, <1>4 DEF UnitWords, Ways
<1>7. Way = "systemd" => D.unit # "" /\ Now \in Owns \cup {GenId(Subject)}
  BY <1>1, <1>3 DEF UnitWords, Ways
<1>8. Way \in {"generated systemd", "generated launchd", "task"} => Now = GenId(Subject)
  BY <1>1, <1>3 DEF UnitWords, Ways
<1>9. Way = "brew" => Now = BrewId(D.brew) /\ Now \in UnitIds
  BY <1>1, <1>3 DEF UnitWords, Ways
<1>10. Way = "launchd" => Wanted \in Definitions /\ Wanted # Absent
  BY <1>1, <1>3, <1>4, <1>6 DEF ValueWords
<1>11. Way = "systemd" => Wanted \in Definitions /\ Wanted # Absent /\ Wanted.command = <<>>
  BY <1>1, <1>3, <1>4, <1>7 DEF ValueWords
<1>12. Way \in {"generated systemd", "generated launchd"} => Wanted \in Definitions /\ Wanted # Absent
  BY <1>1, <1>3, <1>4 DEF ValueWords
<1> QED BY <1>1, <1>3, <1>4, <1>5, <1>6, <1>7, <1>8, <1>9, <1>10, <1>11, <1>12 DEF NowWords, WritingWays

(***************************************************************************)
(* The command goes on with its service, or to the next one.               *)
(***************************************************************************)
LEMMA GoesLemma ==
    ASSUME Typed, Placed, Kept, run.queue # <<>>, ~Idle,
           NEW st \in Steps \ {"idle", "pick"}, NEW c \in BOOLEAN, NEW w \in BOOLEAN, Goes(st, c, w)
    PROVE  /\ run' \in Runs /\ run'.pc = st /\ run'.changed = c /\ run'.was = w
           /\ run'.verb = run.verb /\ run'.name = run.name /\ run'.queue = run.queue
           /\ run'.failed = run.failed /\ run'.again = run.again
           /\ Placed' /\ ~Idle'
<1>1. /\ run' \in Runs /\ run'.pc = st /\ run'.changed = c /\ run'.was = w
      /\ run'.verb = run.verb /\ run'.name = run.name /\ run'.queue = run.queue
      /\ run'.failed = run.failed /\ run'.again = run.again
  BY DEF Goes, Typed, Runs
<1>2. ~Idle' /\ run' # NoRun
  <2>1. NoRun.pc = "idle"
    BY DEF NoRun
  <2>2. run'.pc # "idle"
    BY <1>1
  <2> QED BY <2>1, <2>2 DEF Idle
<1>3. /\ ~Idle => run.verb # "none"
      /\ run.verb \in {"start", "restart"} =>
         /\ run.name \in Declared /\ ~run.again
         /\ run.queue = <<run.name>> \/ (run.queue = <<>> /\ run.pc = "pick")
      /\ run.verb = "apply" =>
         /\ \A i, j \in DOMAIN run.queue : run.queue[i] = run.queue[j] => i = j
         /\ \A n \in ToSet(run.queue) : spec[n] # Undeclared \/ lock[n] # Unlocked
  BY DEF Placed
<1>4. Placed'
  BY <1>1, <1>2, <1>3, KeptNames DEF Placed
<1> QED BY <1>1, <1>2, <1>4

LEMMA GoesNames ==
    ASSUME Kept, run'.queue = run.queue, run'.verb = run.verb
    PROVE  /\ Subject' = Subject /\ D' = D /\ (Removing' <=> Removing) /\ Way' = Way
           /\ Now' = Now /\ Gone' = Gone /\ Wanted' = Wanted /\ (Renderable' <=> Renderable)
           /\ TaskXml(D.task)' = TaskXml(D.task)
<1>1. Subject' = Subject
  BY DEF Subject
<1>2. D' = D
  BY <1>1, KeptNames DEF D
<1>3. Removing' <=> Removing
  BY <1>2 DEF Removing
<1>4. Way' = Way
  <2>1. lock'[Subject'] = lock[Subject]
    BY <1>1, KeptNames
  <2>2. RemovalWay(lock[Subject])' = RemovalWay(lock[Subject])
    BY <1>1, KeptNames DEF RemovalWay
  <2>3. Backend(D)' = Backend(D) /\ StartWay(D)' = StartWay(D) 
    BY <1>2, KeptNames DEF Backend, StartWay
  <2>4. RestartWay(D)' = RestartWay(D)
    BY <1>2, <2>3 DEF RestartWay
  <2> QED BY <1>3, <2>2, <2>3, <2>4 DEF Way
<1>5. Now' = Now
  <2>1. Backend(D)' = Backend(D)
    BY <1>2, KeptNames DEF Backend
  <2>2. SystemdId(Subject, D)' = SystemdId(Subject, D)
    BY <1>1, <1>2 DEF SystemdId
  <2> QED BY <1>1, <1>2, <2>1, <2>2, KeptNames DEF Now, UnitOf, HasLabel, Renders
<1>6. Gone' = Gone
  <2>1. RemovalWay(lock[Subject])' = RemovalWay(lock[Subject])
    BY <1>1, KeptNames DEF RemovalWay
  <2> QED BY <1>1, <2>1, KeptNames DEF Gone, RemovalId
<1>7. Wanted' = Wanted
  BY <1>2, <1>4, KeptNames DEF Wanted, FromTemplate, Generated
<1>8. Renderable' <=> Renderable
  BY <1>2, <1>4, KeptNames DEF Renderable, HasLabel, Renders
<1>9. TaskXml(D.task)' = TaskXml(D.task)
  BY <1>2, KeptNames DEF TaskXml
<1> QED BY <1>1, <1>2, <1>3, <1>4, <1>5, <1>6, <1>7, <1>8, <1>9

LEMMA PassedLemma ==
    ASSUME Typed, Placed, Kept, run.queue # <<>>, ~Idle, NEW fails \in SUBSET Names, Passed(fails)
    PROVE  /\ run' \in Runs /\ run'.pc = "pick" /\ run'.verb = run.verb /\ run'.name = run.name
           /\ run'.queue = Tail(run.queue) /\ run'.failed = run.failed \cup fails /\ run'.again = run.again
           /\ Subject \in Names /\ ToSet(run.queue) = {Subject} \cup ToSet(run'.queue)
           /\ run.verb = "apply" => Subject \notin ToSet(run'.queue)
           /\ run.verb # "apply" => run'.queue = <<>>
           /\ Positions' /\ ~Idle'
<1>1. run \in Runs /\ run.queue \in Seq(Names)
  BY DEF Typed, Runs
<1>2. /\ Subject \in Names /\ Tail(run.queue) \in Seq(Names)
      /\ ToSet(run.queue) = {Subject} \cup ToSet(Tail(run.queue))
      /\ IsInjective(run.queue) => IsInjective(Tail(run.queue)) /\ Subject \notin ToSet(Tail(run.queue))
  BY <1>1, ToSetTail DEF Subject
<1>3. /\ run'.pc = "pick" /\ run'.verb = run.verb /\ run'.name = run.name
      /\ run'.queue = Tail(run.queue) /\ run'.failed = run.failed \cup fails /\ run'.again = run.again
      /\ run'.changed = FALSE /\ run'.was = FALSE
  BY <1>1 DEF Passed, Runs
<1>4. run' \in Runs
  <2> HIDE DEF Passed
  <2>1. run' = [run EXCEPT !.pc = "pick", !.queue = Tail(@), !.changed = FALSE, !.was = FALSE, !.failed = @ \cup fails]
    BY DEF Passed
  <2>2. run.failed \cup fails \in SUBSET Names
    BY <1>1 DEF Runs
  <2> QED BY <1>1, <1>2, <2>1, <2>2 DEF Runs, Steps
<1>5. ~Idle' /\ run' # NoRun
  <2>1. NoRun.pc = "idle"
    BY DEF NoRun
  <2>2. run'.pc # "idle"
    BY <1>3
  <2> QED BY <2>1, <2>2 DEF Idle
<1>6. run.verb = "apply" => IsInjective(run.queue)
  BY DEF Placed, IsInjective
<1>7. run.verb # "apply" => run'.queue = <<>>
  BY <1>3, SubjectLemma DEF SubjectWords
<1>8. run.verb \in {"start", "restart"} => run.name \in Declared /\ ~run.again
  BY DEF Placed
<1>9. run.verb # "none"
  BY DEF Placed
<1>10. Placed'
  <2>1. run'.verb = "apply" => \A i, j \in DOMAIN run'.queue : run'.queue[i] = run'.queue[j] => i = j
    BY <1>2, <1>3, <1>6 DEF IsInjective
  <2>2. run'.verb = "apply" => \A n \in ToSet(run'.queue) : spec'[n] # Undeclared \/ lock'[n] # Unlocked
    BY <1>2, <1>3, KeptNames DEF Placed
  <2>3. run'.verb \in {"start", "restart"} => run'.name \in Declared' /\ ~run'.again
    BY <1>3, <1>8, KeptNames
  <2>4. run'.verb \in {"start", "restart"} => run'.queue = <<>> /\ run'.pc = "pick"
    BY <1>3, <1>7
  <2> QED BY <1>3, <1>5, <1>9, <2>1, <2>2, <2>3, <2>4 DEF Placed
<1>11. Positions'
  BY <1>3, <1>10 DEF Positions, AtWritten, AtOut, AtEnabled, AtScript, AtUnloaded
<1> QED BY <1>2, <1>3, <1>4, <1>5, <1>6, <1>7, <1>11

(***************************************************************************)
(* A step of a command on the service whose turn it is, and the one unit   *)
(* such a step may change.                                                 *)
(***************************************************************************)
Touched == IF Removing THEN Gone ELSE IF Way \in CommandWays THEN RawId(Subject) ELSE Now
\* Another unit: at most systemd reads its file again.
Left(u) ==
  /\ file'[u] = file[u] /\ running'[u] = running[u] /\ installed'[u] = installed[u]
  /\ loaded'[u] = loaded[u] \/ (Systemd /\ loaded'[u] = file[u] /\ u[1] \in {"genv", "own"})
Sparing ==
  /\ Kept /\ UNCHANGED <<said, quiet, clean, runs, edits>>
  /\ \A u \in UnitIds \ {Touched} : Left(u) /\ (u \in cut => u \in cut')
  /\ \A n \in Names \ {Subject} : script'[n] = script[n]
  /\ loose \subseteq loose'
  /\ \A u \in UnitIds : installed'[u] \in {installed[u], Subject}
Turn == Typed' /\ Sparing

\* The types of a turn, part by part.
LEMMA TypeStep ==
    ASSUME Typed, Kept, UNCHANGED <<quiet, clean, runs, edits>>, run' \in Runs,
           file' \in [UnitIds -> Definitions], loaded' \in [UnitIds -> Definitions],
           running' \in [UnitIds -> Definitions], script' \in [Names -> Texts],
           installed' \in [UnitIds -> Names \cup {""}], cut' \subseteq UnitIds, loose' \subseteq UnitIds,
           failures' \in 0..MaxFailures
    PROVE  Typed'
<1>1. platform' = platform /\ spec' = spec /\ template' = template /\ today' = today /\ lock' = lock
  BY KeptNames
<1>2. Valid(spec)'
  BY <1>1 DEF Typed, Valid
<1>3. \A n \in Names : NoteOk(n, lock[n])'
  BY <1>1 DEF Typed, NoteOk
<1> QED BY <1>1, <1>2, <1>3 DEF Typed

LEMMA CostLemma ==
    ASSUME Typed, NEW n \in Nat, Costs(n) \/ Works
    PROVE  failures' \in 0..MaxFailures
<1>1. MaxFailures \in Nat
  BY MaximaAssumption
<1>2. failures \in 0..MaxFailures
  BY DEF Typed
<1>3. CASE Works
  BY <1>2, <1>3 DEF Works
<1>4. CASE Costs(n)
  BY <1>1, <1>2, <1>4 DEF Costs
<1> QED BY <1>3, <1>4

\* A function that is changed at one argument.
LEMMA SetAt ==
    ASSUME NEW S, NEW T, NEW f \in [S -> T], NEW u, NEW x, u \in S => x \in T, NEW g, g = [f EXCEPT ![u] = x]
    PROVE  g \in [S -> T] /\ \A v \in S : g[v] = IF v = u THEN x ELSE f[v]
  OBVIOUS

\* What may run after a start is a definition too.
LEMMA StartedType ==
    ASSUME Typed, NEW d \in Definitions
    PROVE  StartOf(d) \subseteq Definitions
<1>1. Absent \in Definitions
  BY TypedInputs, ValueLemma DEF ValueVocab
<1> QED BY <1>1 DEF StartOf

LEMMA FaultsType == ASSUME NEW a, NEW b, NEW c PROVE CallsFailed(<<a, b, c>>) \in Nat
<1>1. DOMAIN <<a, b, c>> = 1..3
  OBVIOUS
<1>2. IsFiniteSet(1..3)
  <2>1. 1 \in Int /\ 3 \in Int
    OBVIOUS
  <2> QED BY <2>1, FS_Interval, Zenon
<1>3. \A f : DOMAIN f = 1..3 => CallsFailed(f) \in Nat
  <2> TAKE f
  <2> HAVE DOMAIN f = 1..3
  <2>1. IsFiniteSet({i \in DOMAIN f : ~f[i]})
    BY <1>2, FS_Subset
  <2> QED BY <2>1, FS_CardinalityType DEF CallsFailed
<1> QED BY <1>1, <1>3

LEMMA PutLemma ==
    ASSUME Typed, NEW u, NEW f, NEW l, NEW r, Put(u, f, l, r), u \in UnitIds => {f, l, r} \subseteq Definitions
    PROVE  /\ file' \in [UnitIds -> Definitions] /\ loaded' \in [UnitIds -> Definitions]
           /\ running' \in [UnitIds -> Definitions]
           /\ \A v \in UnitIds : /\ file'[v] = IF v = u THEN f ELSE file[v]
                                 /\ loaded'[v] = IF v = u THEN l ELSE loaded[v]
                                 /\ running'[v] = IF v = u THEN r ELSE running[v]
<1>1. /\ file \in [UnitIds -> Definitions] /\ loaded \in [UnitIds -> Definitions]
      /\ running \in [UnitIds -> Definitions]
  BY DEF Typed
<1>2. file' \in [UnitIds -> Definitions] /\ \A v \in UnitIds : file'[v] = IF v = u THEN f ELSE file[v]
  BY <1>1 DEF Put
<1>3. loaded' \in [UnitIds -> Definitions] /\ \A v \in UnitIds : loaded'[v] = IF v = u THEN l ELSE loaded[v]
  BY <1>1 DEF Put
<1>4. running' \in [UnitIds -> Definitions] /\ \A v \in UnitIds : running'[v] = IF v = u THEN r ELSE running[v]
  BY <1>1 DEF Put
<1> QED BY <1>2, <1>3, <1>4

LEMMA InstallsLemma ==
    ASSUME Typed, Subject \in Names, NEW u, Installs(u)
    PROVE  /\ installed' \in [UnitIds -> Names \cup {""}]
           /\ \A v \in UnitIds : installed'[v] = IF v = u /\ u = Now THEN Subject ELSE installed[v]
<1>1. installed \in [UnitIds -> Names \cup {""}]
  BY DEF Typed
<1>2. CASE u = Now
  <2>1. installed' = [installed EXCEPT ![u] = Subject]
    BY <1>2 DEF Installs, Now
  <2> QED BY <1>1, <1>2, <2>1
<1>3. CASE u # Now
  <2>1. installed' = installed
    BY <1>3 DEF Installs, Now
  <2> QED BY <1>1, <1>3, <2>1
<1> QED BY <1>2, <1>3

\* What the position of a command says about the unit it is at.
AtUnit ==
  /\ run.pc \in {"written", "out", "enabled", "script"} =>
       ~Removing /\ ~Idle /\ run.queue # <<>> /\ Now \in UnitIds /\ Now \in Owns \cup {GenId(Subject)}
       /\ Touched = Now /\ Way \in WritingWays \cup {"task"}
  /\ run.pc = "unloaded" =>
       /\ Removing /\ ~Idle /\ run.queue # <<>> /\ Gone \in UnitIds /\ Gone \in Owns \cup {GenId(Subject)}
       /\ Touched = Gone /\ Way \in {"launchd", "systemd", "task"}
LEMMA AtUnitLemma == Typed /\ Positions => AtUnit
<1> SUFFICES ASSUME Typed, Positions PROVE AtUnit
  OBVIOUS
<1>1. Placed /\ SubjectWords /\ NowWords
  BY SubjectLemma, NowLemma DEF Positions
<1>2. ASSUME run.pc \in {"written", "out", "enabled", "script"}
      PROVE  ~Removing /\ ~Idle /\ run.queue # <<>> /\ Now \in UnitIds /\ Now \in Owns \cup {GenId(Subject)}
             /\ Touched = Now /\ Way \in WritingWays \cup {"task"}
  <2>1. ~Idle /\ run.queue # <<>>
    BY <1>1, <1>2 DEF Placed, Idle
  <2>2. ~Removing /\ \/ Way \in WritingWays /\ Renderable
                     \/ Way = "task"
    <3>1. CASE run.pc = "written"
      BY <3>1 DEF Positions, AtWritten
    <3>2. CASE run.pc = "out"
      BY <3>2 DEF Positions, AtOut, WritingWays
    <3>3. CASE run.pc = "enabled"
      BY <3>3 DEF Positions, AtEnabled, WritingWays
    <3>4. CASE run.pc = "script"
      BY <3>4 DEF Positions, AtScript
    <3> QED BY <1>2, <3>1, <3>2, <3>3, <3>4
  <2>3. Touched = Now
    BY <2>2 DEF Touched, WritingWays, CommandWays
  <2>4. Now \in UnitIds /\ Now \in Owns \cup {GenId(Subject)}
    BY <1>1, <2>1, <2>2 DEF NowWords
  <2> QED BY <2>1, <2>2, <2>3, <2>4
<1>3. ASSUME run.pc = "unloaded"
      PROVE  /\ Removing /\ ~Idle /\ run.queue # <<>> /\ Gone \in UnitIds /\ Gone \in Owns \cup {GenId(Subject)}
             /\ Touched = Gone /\ Way \in {"launchd", "systemd", "task"}
  <2>1. ~Idle /\ run.queue # <<>>
    BY <1>1, <1>3 DEF Placed, Idle
  <2>2. Removing /\ Way \in {"launchd", "systemd", "task"}
    BY <1>3 DEF Positions, AtUnloaded
  <2>3. Subject \in Names /\ Way = RemovalWay(lock[Subject]) /\ Gone = RemovalId(Subject, lock[Subject])
    BY <1>1, <2>1, <2>2 DEF SubjectWords
  <2>4. RemovalWords(Subject)
    BY <2>3, TypedInputs, RemovalLemma DEF RemovalVocab
  <2>5. Gone \in Owns \cup {GenId(Subject)}
    BY <2>2, <2>3, <2>4 DEF RemovalWords
  <2>6. Gone \in UnitIds
    BY <2>3, <2>5, IdFacts
  <2> QED BY <2>1, <2>2, <2>5, <2>6 DEF Touched
<1> QED BY <1>2, <1>3 DEF AtUnit

LEMMA FixedLemma == ASSUME Fixed PROVE Kept /\ UNCHANGED <<said, quiet, clean, runs, edits>>
  BY DEF Fixed, Kept, inputs

\* A turn that begins, and one that goes on.
LEMMA PickFacts ==
    ASSUME Typed, Positions, At("pick")
    PROVE  /\ ~Idle /\ run.queue # <<>> /\ Placed /\ SubjectWords /\ NowWords /\ Subject \in Names
           /\ run.pc = "pick"
<1>1. run.pc = "pick" /\ run.queue # <<>> /\ ~Idle
  BY DEF At, Idle
<1>2. Placed
  BY DEF Positions
<1>3. SubjectWords /\ NowWords
  BY <1>2, SubjectLemma, NowLemma
<1> QED BY <1>1, <1>2, <1>3 DEF SubjectWords

LEMMA BusyFacts ==
    ASSUME Typed, Positions, run.pc \in {"written", "out", "enabled", "script", "unloaded"}
    PROVE  /\ ~Idle /\ run.queue # <<>> /\ Placed /\ SubjectWords /\ NowWords /\ AtUnit /\ Subject \in Names
<1>1. Placed
  BY DEF Positions
<1>2. SubjectWords /\ NowWords /\ AtUnit
  BY <1>1, SubjectLemma, NowLemma, AtUnitLemma
<1>3. ~Idle /\ run.queue # <<>>
  BY <1>2 DEF AtUnit
<1> QED BY <1>1, <1>2, <1>3 DEF SubjectWords

\* The run of a step that ends the turn of its service, or goes on with it.
LEMMA TurnRuns ==
    ASSUME Typed, Placed, Kept, ~Idle, run.queue # <<>>, Done \/ Fails
    PROVE  run' \in Runs
<1>1. Subject \in Names
  BY SubjectLemma DEF SubjectWords
<1>2. CASE Done
  <2>1. Passed({})
    BY <1>2 DEF Done
  <2> QED BY <2>1, PassedLemma
<1>3. CASE Fails
  <2>1. Passed({Subject})
    BY <1>3 DEF Fails
  <2> QED BY <1>1, <2>1, PassedLemma
<1> QED BY <1>2, <1>3

(***************************************************************************)
(* Every step of a command is such a step.                                 *)
(***************************************************************************)
LEMMA StillTurn ==
    ASSUME Typed, Kept, UNCHANGED <<said, quiet, clean, runs, edits>>, run' \in Runs,
           UNCHANGED <<supervisor, installed, cut>>, loose \subseteq loose', loose' \subseteq UnitIds,
           failures' \in 0..MaxFailures
    PROVE  Turn
<1>1. UNCHANGED <<file, loaded, running, script>>
  BY DEF supervisor
<1>2. Typed'
  BY <1>1, TypeStep DEF Typed
<1>3. Sparing
  BY <1>1 DEF Sparing, Left
<1> QED BY <1>2, <1>3 DEF Turn

LEMMA SkipTurn == ASSUME Typed, Positions, Skip \/ Elsewhere PROVE Turn
<1>1. At("pick") /\ Done /\ Quietly /\ Works /\ UNCHANGED supervisor
  BY DEF Skip, Elsewhere, Due
<1>2. Kept /\ UNCHANGED <<said, quiet, clean, runs, edits>> /\ UNCHANGED <<installed, cut, loose>>
  BY <1>1, FixedLemma DEF Quietly
<1>3. run' \in Runs
  BY <1>1, <1>2, PickFacts, TurnRuns
<1>4. failures' \in 0..MaxFailures
  BY <1>1, CostLemma
<1>5. loose' \subseteq UnitIds
  BY <1>2 DEF Typed
<1> QED BY <1>1, <1>2, <1>3, <1>4, <1>5, StillTurn

LEMMA StartsTurn == ASSUME Typed, Positions, Starts PROVE Turn
<1>1. /\ At("pick") /\ ~Removing /\ Way \in {"brew", "raw"} /\ Fixed /\ UNCHANGED <<script, cut, loose>>
      /\ Done \/ Fails
  BY DEF Starts, Due
<1>2. Kept /\ UNCHANGED <<said, quiet, clean, runs, edits>>
  BY <1>1, FixedLemma
<1>3. ~Idle /\ run.queue # <<>> /\ Placed /\ SubjectWords /\ NowWords /\ Subject \in Names
  BY <1>1, PickFacts
<1>4. run' \in Runs
  BY <1>1, <1>2, <1>3, TurnRuns
<1>5. failures' \in 0..MaxFailures
  <2>1. Works \/ Costs(1)
    BY DEF Starts
  <2> QED BY <2>1, CostLemma
<1> DEFINE u == IF Way = "brew" THEN BrewId(D.brew) ELSE RawId(Subject)
<1>6. u = Touched /\ u \in UnitIds
  BY <1>1, <1>3, IdFacts DEF Touched, NowWords, CommandWays
<1>7. \/ \E r \in StartOf(Command(D)) : Put(u, file[u], loaded[u], r) /\ Installs(u)
      \/ UNCHANGED <<file, loaded, running, installed>>
  BY DEF Starts
<1> HIDE DEF u
<1>8. StartOf(Command(D)) \subseteq Definitions /\ {file[u], loaded[u]} \subseteq Definitions
  <2>1. Command(D) \in Definitions
    BY <1>1, <1>3 DEF NowWords, ValueWords
  <2>2. file[u] \in Definitions /\ loaded[u] \in Definitions
    BY <1>6 DEF Typed
  <2> QED BY <2>1, <2>2, StartedType
<1>9. /\ file' \in [UnitIds -> Definitions] /\ loaded' \in [UnitIds -> Definitions]
      /\ running' \in [UnitIds -> Definitions] /\ installed' \in [UnitIds -> Names \cup {""}]
      /\ \A v \in UnitIds : /\ file'[v] = file[v] /\ loaded'[v] = loaded[v]
                            /\ v # u => running'[v] = running[v] /\ installed'[v] = installed[v]
                            /\ installed'[v] \in {installed[v], Subject}
  <2>1. ASSUME NEW r \in StartOf(Command(D)), Put(u, file[u], loaded[u], r), Installs(u)
        PROVE  /\ file' \in [UnitIds -> Definitions] /\ loaded' \in [UnitIds -> Definitions]
               /\ running' \in [UnitIds -> Definitions] /\ installed' \in [UnitIds -> Names \cup {""}]
               /\ \A v \in UnitIds : /\ file'[v] = file[v] /\ loaded'[v] = loaded[v]
                                     /\ v # u => running'[v] = running[v] /\ installed'[v] = installed[v]
                                     /\ installed'[v] \in {installed[v], Subject}
    <3>1. /\ file' \in [UnitIds -> Definitions] /\ loaded' \in [UnitIds -> Definitions]
          /\ running' \in [UnitIds -> Definitions]
          /\ \A v \in UnitIds : /\ file'[v] = IF v = u THEN file[u] ELSE file[v]
                                /\ loaded'[v] = IF v = u THEN loaded[u] ELSE loaded[v]
                                /\ running'[v] = IF v = u THEN r ELSE running[v]
      BY <1>8, <2>1, PutLemma
    <3>2. /\ installed' \in [UnitIds -> Names \cup {""}]
          /\ \A v \in UnitIds : installed'[v] = IF v = u /\ u = Now THEN Subject ELSE installed[v]
      BY <1>3, <2>1, InstallsLemma
    <3> QED BY <3>1, <3>2
  <2>2. CASE UNCHANGED <<file, loaded, running, installed>>
    BY <2>2 DEF Typed
  <2> QED BY <1>7, <2>1, <2>2
<1>10. script' \in [Names -> Texts] /\ cut' \subseteq UnitIds /\ loose' \subseteq UnitIds
  BY <1>1 DEF Typed
<1>11. Typed'
  BY <1>2, <1>4, <1>5, <1>9, <1>10, TypeStep
<1>12. Sparing
  BY <1>1, <1>2, <1>6, <1>9 DEF Sparing, Left
<1> QED BY <1>11, <1>12 DEF Turn

LEMMA MakeTurn ==
    ASSUME Typed, Fixed, run' \in Runs, failures' \in 0..MaxFailures,
           file' \in [UnitIds -> Definitions], loaded' \in [UnitIds -> Definitions],
           running' \in [UnitIds -> Definitions], script' \in [Names -> Texts],
           installed' \in [UnitIds -> Names \cup {""}], cut' \subseteq UnitIds, loose' \subseteq UnitIds,
           \A u \in UnitIds \ {Touched} : Left(u) /\ (u \in cut => u \in cut'),
           \A n \in Names \ {Subject} : script'[n] = script[n],
           loose \subseteq loose',
           \A u \in UnitIds : installed'[u] \in {installed[u], Subject}
    PROVE  Turn
<1>1. Kept /\ UNCHANGED <<said, quiet, clean, runs, edits>>
  BY FixedLemma
<1>2. Typed'
  BY <1>1, TypeStep
<1>3. Sparing
  BY <1>1 DEF Sparing
<1> QED BY <1>2, <1>3 DEF Turn

LEMMA GoesRuns ==
    ASSUME Typed, Placed, Kept, ~Idle, run.queue # <<>>,
           NEW st \in Steps \ {"idle", "pick"}, NEW c \in BOOLEAN, NEW w \in BOOLEAN, Goes(st, c, w)
    PROVE  run' \in Runs
  BY GoesLemma

LEMMA TypedUnits ==
    ASSUME Typed
    PROVE  /\ file \in [UnitIds -> Definitions] /\ loaded \in [UnitIds -> Definitions]
           /\ running \in [UnitIds -> Definitions] /\ script \in [Names -> Texts]
           /\ installed \in [UnitIds -> Names \cup {""}] /\ cut \subseteq UnitIds /\ loose \subseteq UnitIds
           /\ run.changed \in BOOLEAN /\ run.was \in BOOLEAN /\ run.again \in BOOLEAN
           /\ run.pc \in Steps /\ run.failed \subseteq Names /\ run.queue \in Seq(Names)
  BY DEF Typed, Runs

LEMMA StepsFacts == {"written", "out", "enabled", "script", "unloaded"} \subseteq Steps \ {"idle", "pick"}
  BY DEF Steps

\* The steps that write, load and start the unit of a service.
LEMMA WriteUnitTurn == ASSUME Typed, Positions, WriteUnit PROVE Turn
<1>1. At("pick") /\ Due /\ ~Removing /\ Way \in WritingWays /\ run.verb \in {"apply", "start"}
  BY DEF WriteUnit, Writing, Due, WritingWays
<1>2. /\ Fixed /\ UNCHANGED <<loaded, running, script, cut, loose>>
      /\ \/ /\ Renderable /\ file' = [file EXCEPT ![Now] = Wanted]
            /\ Installs(Now) /\ Goes("written", Templated(D) => file[Now] # Wanted, FALSE) /\ Works
         \/ /\ IF Renderable THEN Costs(1) ELSE Works
            /\ Fails /\ UNCHANGED <<file, installed>>
  BY DEF WriteUnit, Now
<1>3. Kept
  BY <1>2, FixedLemma
<1>4. ~Idle /\ run.queue # <<>> /\ Placed /\ NowWords /\ Subject \in Names
  BY <1>1, PickFacts
<1>5. Touched = Now /\ Wanted \in Definitions /\ (Renderable => Now \in UnitIds)
  BY <1>1, <1>4 DEF Touched, CommandWays, WritingWays, NowWords
<1>6. failures' \in 0..MaxFailures
  <2>1. Works \/ Costs(1)
    BY <1>2
  <2> QED BY <2>1, CostLemma
<1>7. CASE /\ Renderable /\ file' = [file EXCEPT ![Now] = Wanted]
           /\ Installs(Now) /\ Goes("written", Templated(D) => file[Now] # Wanted, FALSE)
  <2>1. file' \in [UnitIds -> Definitions] /\ \A v \in UnitIds : v # Now => file'[v] = file[v]
    BY <1>5, <1>7, TypedUnits
  <2>2. /\ installed' \in [UnitIds -> Names \cup {""}]
        /\ \A v \in UnitIds : installed'[v] = IF v = Now /\ Now = Now THEN Subject ELSE installed[v]
    BY <1>4, <1>7, InstallsLemma
  <2>3. PICK c \in BOOLEAN : Goes("written", c, FALSE)
    BY <1>7
  <2>4. run' \in Runs
    BY <1>3, <1>4, <2>3, GoesRuns, StepsFacts
  <2>5. \A u \in UnitIds \ {Touched} : Left(u) /\ (u \in cut => u \in cut')
    BY <1>2, <1>5, <2>1, <2>2 DEF Left
  <2> QED BY <1>2, <1>6, <2>1, <2>2, <2>4, <2>5, TypedUnits, MakeTurn
<1>8. CASE Fails /\ UNCHANGED <<file, installed>>
  <2>1. run' \in Runs
    BY <1>3, <1>4, <1>8, TurnRuns
  <2>2. \A u \in UnitIds \ {Touched} : Left(u) /\ (u \in cut => u \in cut')
    BY <1>2, <1>8 DEF Left
  <2> QED BY <1>2, <1>6, <1>8, <2>1, <2>2, TypedUnits, MakeTurn
<1> QED BY <1>2, <1>7, <1>8

LEMMA BootoutTurn == ASSUME Typed, Positions, Bootout PROVE Turn
<1>1. /\ run.pc = "written" /\ Quietly
      /\ \/ Done /\ Works /\ UNCHANGED supervisor
         \/ \E w \in BOOLEAN : Goes("out", run.changed, w) /\ Works /\ Put(Now, file[Now], Absent, Absent) /\ UNCHANGED script
         \/ \E w \in BOOLEAN : Goes("out", run.changed, w) /\ (Works \/ Costs(1)) /\ UNCHANGED supervisor
  BY DEF Bootout, At
<1>2. Fixed /\ Kept /\ UNCHANGED <<installed, cut, loose>>
  BY <1>1, FixedLemma DEF Quietly
<1>4. ~Idle /\ run.queue # <<>> /\ Placed /\ Now \in UnitIds /\ Touched = Now
  BY <1>1, BusyFacts DEF AtUnit
<1>5. failures' \in 0..MaxFailures
  <2>1. Works \/ Costs(1)
    BY <1>1
  <2> QED BY <2>1, CostLemma
<1>6. run' \in Runs
  <2>1. CASE Done
    BY <1>2, <1>4, <2>1, TurnRuns
  <2>2. CASE \E w \in BOOLEAN : Goes("out", run.changed, w)
    BY <1>2, <1>4, <2>2, GoesRuns, StepsFacts, TypedUnits
  <2> QED BY <1>1, <2>1, <2>2
<1>7. CASE UNCHANGED supervisor
  <2>1. UNCHANGED <<file, loaded, running, script>>
    BY <1>7 DEF supervisor
  <2>2. \A u \in UnitIds \ {Touched} : Left(u) /\ (u \in cut => u \in cut')
    BY <1>2, <2>1 DEF Left
  <2> QED BY <1>2, <1>5, <1>6, <2>1, <2>2, TypedUnits, MakeTurn
<1>8. CASE Put(Now, file[Now], Absent, Absent) /\ UNCHANGED script
  <2>1. Absent \in Definitions /\ file[Now] \in Definitions
    BY <1>4, TypedUnits, TypedInputs, ValueLemma DEF ValueVocab
  <2>2. /\ file' \in [UnitIds -> Definitions] /\ loaded' \in [UnitIds -> Definitions]
        /\ running' \in [UnitIds -> Definitions]
        /\ \A v \in UnitIds \ {Now} : file'[v] = file[v] /\ loaded'[v] = loaded[v] /\ running'[v] = running[v]
    BY <1>8, <2>1, PutLemma
  <2>3. \A u \in UnitIds \ {Touched} : Left(u) /\ (u \in cut => u \in cut')
    BY <1>2, <1>4, <2>2 DEF Left
  <2> QED BY <1>2, <1>5, <1>6, <1>8, <2>2, <2>3, TypedUnits, MakeTurn
<1> QED BY <1>1, <1>7, <1>8

LEMMA BootstrapTurn == ASSUME Typed, Positions, Bootstrap PROVE Turn
<1>1. /\ run.pc = "out" /\ Fixed /\ UNCHANGED <<script, installed, loose>>
      /\ Works \/ Costs(1)
      /\ \/ /\ \E r \in StartOf(file[Now]) : Put(Now, file[Now], file[Now], r)
            /\ CaughtUp /\ Done
         \/ LeftBehind /\ Fails /\ UNCHANGED <<file, loaded, running>>
  BY DEF Bootstrap, At
<1>2. Kept
  BY <1>1, FixedLemma DEF Quietly
<1>4. ~Idle /\ run.queue # <<>> /\ Placed /\ Now \in UnitIds /\ Touched = Now
  BY <1>1, BusyFacts DEF AtUnit
<1>5. failures' \in 0..MaxFailures
  BY <1>1, CostLemma
<1>6. run' \in Runs
  BY <1>1, <1>2, <1>4, TurnRuns
<1>7. CASE (\E r \in StartOf(file[Now]) : Put(Now, file[Now], file[Now], r)) /\ CaughtUp
  <2>1. /\ file' \in [UnitIds -> Definitions] /\ loaded' \in [UnitIds -> Definitions]
        /\ running' \in [UnitIds -> Definitions]
        /\ \A v \in UnitIds \ {Now} : file'[v] = file[v] /\ loaded'[v] = loaded[v] /\ running'[v] = running[v]
    <3>1. file[Now] \in Definitions /\ StartOf(file[Now]) \subseteq Definitions
      BY <1>4, TypedUnits, StartedType
    <3>2. PICK r \in StartOf(file[Now]) : Put(Now, file[Now], file[Now], r)
      BY <1>7
    <3> QED BY <3>1, <3>2, PutLemma
  <2>2. cut' \subseteq UnitIds /\ \A u \in UnitIds \ {Touched} : u \in cut => u \in cut'
    BY <1>4, <1>7, TypedUnits DEF CaughtUp
  <2>3. \A u \in UnitIds \ {Touched} : Left(u) /\ (u \in cut => u \in cut')
    BY <1>1, <1>4, <2>1, <2>2 DEF Left
  <2> QED BY <1>1, <1>5, <1>6, <2>1, <2>2, <2>3, TypedUnits, MakeTurn
<1>8. CASE LeftBehind /\ UNCHANGED <<file, loaded, running>>
  <2>2. cut' \subseteq UnitIds /\ \A u \in UnitIds \ {Touched} : u \in cut => u \in cut'
    BY <1>4, <1>8, TypedUnits DEF LeftBehind
  <2>3. \A u \in UnitIds \ {Touched} : Left(u) /\ (u \in cut => u \in cut')
    BY <1>1, <1>8, <2>2 DEF Left
  <2> QED BY <1>1, <1>5, <1>6, <1>8, <2>2, <2>3, TypedUnits, MakeTurn
<1> QED BY <1>1, <1>7, <1>8

\* What systemd holds of the units after the daemon-reload, and after the unit was enabled.
Known1(reloads) == IF reloads THEN Reloaded ELSE loaded
Held1(reloads) == IF Known1(reloads)[Now] = Absent THEN [Known1(reloads) EXCEPT ![Now] = file[Now]] ELSE Known1(reloads)

LEMMA EnableNowParts ==
    ASSUME EnableNow
    PROVE  \E asks, reloads, enables \in BOOLEAN :
             /\ \E k \in Nat : Costs(k)
             /\ loaded' = IF enables THEN Held1(reloads) ELSE Known1(reloads)
             /\ \E r \in IF enables /\ running[Now] = Absent THEN StartOf(Held1(reloads)[Now]) ELSE {running[Now]} :
                  running' = [running EXCEPT ![Now] = r]
             /\ IF ~enables THEN Fails ELSE Goes("enabled", run.changed, running[Now] # Absent /\ asks)
             /\ IF asks /\ reloads /\ enables THEN UNCHANGED cut
                ELSE cut' = cut \cup {u \in {Now} : loaded'[u] # file[u] \/ Behind(u)}
<1>1. PICK asks \in BOOLEAN, reloads \in BOOLEAN, enables \in BOOLEAN :
        /\ Costs(CallsFailed(<<asks, reloads, enables>>))
        /\ loaded' = IF enables THEN Held1(reloads) ELSE Known1(reloads)
        /\ \E r \in IF enables /\ ~(running[Now] # Absent) THEN StartOf(Held1(reloads)[Now]) ELSE {running[Now]} :
             running' = [running EXCEPT ![Now] = r]
        /\ IF ~enables THEN Fails ELSE Goes("enabled", run.changed, running[Now] # Absent /\ asks)
        /\ IF asks /\ reloads /\ enables THEN UNCHANGED cut
           ELSE cut' = cut \cup {u \in {Now} : loaded'[u] # file[u] \/ Behind(u)}
  BY DEF EnableNow, Known1, Held1
<1>2. \E k \in Nat : Costs(k)
  BY <1>1, FaultsType
<1> QED BY <1>1, <1>2

LEMMA EnableNowTurn == ASSUME Typed, Positions, EnableNow PROVE Turn
<1>1. /\ run.pc = "written" /\ Way \in {"systemd", "generated systemd"} /\ Fixed
      /\ UNCHANGED <<file, script, installed, loose>>
  BY DEF EnableNow, At
<1>2. Kept
  BY <1>1, FixedLemma DEF Quietly
<1>4. ~Idle /\ run.queue # <<>> /\ Placed /\ Now \in UnitIds /\ Touched = Now /\ SubjectWords /\ NowWords /\ ~Removing
  BY <1>1, BusyFacts DEF AtUnit
<1>5. PICK asks \in BOOLEAN, reloads \in BOOLEAN, enables \in BOOLEAN :
        /\ \E k \in Nat : Costs(k)
        /\ loaded' = IF enables THEN Held1(reloads) ELSE Known1(reloads)
        /\ \E r \in IF enables /\ running[Now] = Absent THEN StartOf(Held1(reloads)[Now]) ELSE {running[Now]} :
             running' = [running EXCEPT ![Now] = r]
        /\ IF ~enables THEN Fails ELSE Goes("enabled", run.changed, running[Now] # Absent /\ asks)
        /\ IF asks /\ reloads /\ enables THEN UNCHANGED cut
           ELSE cut' = cut \cup {u \in {Now} : loaded'[u] # file[u] \/ Behind(u)}
  BY EnableNowParts
<1> DEFINE known == Known1(reloads)
           held == Held1(reloads)
<1>6. failures' \in 0..MaxFailures
  <2>1. PICK k \in Nat : Costs(k)
    BY <1>5
  <2> QED BY <2>1, CostLemma
<1>7. run' \in Runs
  <2>1. CASE Fails
    BY <1>2, <1>4, <2>1, TurnRuns
  <2>2. CASE Goes("enabled", run.changed, running[Now] # Absent /\ asks)
    <3>1. PICK w \in BOOLEAN : Goes("enabled", run.changed, w)
      BY <2>2
    <3> QED BY <1>2, <1>4, <3>1, GoesRuns, StepsFacts, TypedUnits
  <2> QED BY <1>5, <2>1, <2>2
<1>8. known \in [UnitIds -> Definitions] /\ \A v \in UnitIds : known[v] = loaded[v] \/ (known[v] = file[v] /\ v[1] \in {"genv", "own"})
  BY TypedUnits DEF Reloaded, Known1
<1>9. held \in [UnitIds -> Definitions] /\ \A v \in UnitIds \ {Now} : held[v] = known[v]
  <2>0. held = IF known[Now] = Absent THEN [known EXCEPT ![Now] = file[Now]] ELSE known
    BY DEF Held1
  <2> HIDE DEF known, held
  <2>1. file[Now] \in Definitions
    BY <1>4, TypedUnits
  <2> QED BY <1>8, <2>0, <2>1
<1>10. /\ loaded' = IF enables THEN held ELSE known
       /\ \E r \in StartOf(held[Now]) \cup {running[Now]} : running' = [running EXCEPT ![Now] = r]
  BY <1>5
<1>11. cut' \subseteq UnitIds /\ \A u \in UnitIds : u \in cut => u \in cut'
  <2>1. cut' = cut \/ cut' = cut \cup {u \in {Now} : loaded'[u] # file[u] \/ Behind(u)}
    BY <1>5
  <2> QED BY <1>4, <2>1, TypedUnits
<1> HIDE DEF known, held
<1>12. loaded' \in [UnitIds -> Definitions] /\ \A v \in UnitIds \ {Now} : loaded'[v] = loaded[v] \/ (loaded'[v] = file[v] /\ v[1] \in {"genv", "own"})
  BY <1>8, <1>9, <1>10
<1>13. running' \in [UnitIds -> Definitions] /\ \A v \in UnitIds \ {Now} : running'[v] = running[v]
  <2>1. StartOf(held[Now]) \subseteq Definitions
    BY <1>4, <1>9, StartedType
  <2> QED BY <1>10, <2>1, TypedUnits
<1>14. Systemd
  BY <1>1, <1>4 DEF NowWords, UnitWords, SubjectWords, Ways
<1>15. \A u \in UnitIds \ {Touched} : Left(u) /\ (u \in cut => u \in cut')
  BY <1>1, <1>4, <1>11, <1>12, <1>13, <1>14 DEF Left
<1> QED BY <1>1, <1>6, <1>7, <1>11, <1>12, <1>13, <1>15, TypedUnits, MakeTurn

LEMMA RestartChangedTurn == ASSUME Typed, Positions, RestartChanged PROVE Turn
<1>1. /\ run.pc = "enabled" /\ Fixed /\ UNCHANGED <<file, loaded, script, installed, loose>> /\ Done
      /\ Works \/ Costs(1)
      /\ \/ /\ \E r \in StartOf(loaded[Now]) : running' = [running EXCEPT ![Now] = r]
            /\ CaughtUp \/ UNCHANGED cut
         \/ running' \in {running, [running EXCEPT ![Now] = Absent]} /\ cut' = cut \cup {Now}
         \/ UNCHANGED <<running, cut>>
  BY DEF RestartChanged, At
<1>2. Kept
  BY <1>1, FixedLemma DEF Quietly
<1>4. ~Idle /\ run.queue # <<>> /\ Placed /\ Now \in UnitIds /\ Touched = Now
  BY <1>1, BusyFacts DEF AtUnit
<1>5. failures' \in 0..MaxFailures
  BY <1>1, CostLemma
<1>6. run' \in Runs
  BY <1>1, <1>2, <1>4, TurnRuns
<1>7. Absent \in Definitions /\ StartOf(loaded[Now]) \subseteq Definitions
  BY <1>4, TypedUnits, TypedInputs, ValueLemma, StartedType DEF ValueVocab
<1>8. running' \in [UnitIds -> Definitions] /\ \A v \in UnitIds \ {Now} : running'[v] = running[v]
  BY <1>1, <1>7, TypedUnits
<1>9. cut' \subseteq UnitIds /\ \A u \in UnitIds \ {Touched} : u \in cut => u \in cut'
  BY <1>1, <1>4, TypedUnits DEF CaughtUp
<1>10. \A u \in UnitIds \ {Touched} : Left(u) /\ (u \in cut => u \in cut')
  BY <1>1, <1>4, <1>8, <1>9 DEF Left
<1> QED BY <1>1, <1>5, <1>6, <1>8, <1>9, <1>10, TypedUnits, MakeTurn

LEMMA WriteScriptTurn == ASSUME Typed, Positions, WriteScript PROVE Turn
<1>1. /\ At("pick") /\ ~Removing /\ Way = "task" /\ Fixed /\ UNCHANGED <<file, loaded, running, cut, loose>>
      /\ Works \/ Costs(1)
      /\ \/ /\ script' = [script EXCEPT ![Subject] = D.task.action] /\ Installs(GenId(Subject))
            /\ \E c \in BOOLEAN : Goes("script", c, FALSE)
         \/ Fails /\ UNCHANGED <<script, installed>>
  BY DEF WriteScript, Due
<1>2. Kept
  BY <1>1, FixedLemma
<1>4. ~Idle /\ run.queue # <<>> /\ Placed /\ NowWords /\ Subject \in Names
  BY <1>1, PickFacts
<1>5. Touched = Now /\ Now = GenId(Subject) /\ Now \in UnitIds /\ D.task.action \in Texts
  <2>1. Touched = Now /\ Now = GenId(Subject) /\ Now \in UnitIds /\ D \in Forms
    BY <1>1, <1>4 DEF Touched, CommandWays, NowWords
  <2> QED BY <2>1 DEF Forms
<1>6. failures' \in 0..MaxFailures
  BY <1>1, CostLemma
<1>7. CASE /\ script' = [script EXCEPT ![Subject] = D.task.action] /\ Installs(GenId(Subject))
           /\ \E c \in BOOLEAN : Goes("script", c, FALSE)
  <2>1. script' \in [Names -> Texts] /\ \A n \in Names \ {Subject} : script'[n] = script[n]
    BY <1>5, <1>7, TypedUnits
  <2>2. /\ installed' \in [UnitIds -> Names \cup {""}]
        /\ \A v \in UnitIds : installed'[v] = IF v = GenId(Subject) /\ GenId(Subject) = Now THEN Subject ELSE installed[v]
    BY <1>4, <1>7, InstallsLemma
  <2>3. run' \in Runs
    BY <1>2, <1>4, <1>7, GoesRuns, StepsFacts
  <2>4. \A u \in UnitIds \ {Touched} : Left(u) /\ (u \in cut => u \in cut')
    BY <1>1, <1>5, <2>2 DEF Left
  <2> QED BY <1>1, <1>6, <2>1, <2>2, <2>3, <2>4, TypedUnits, MakeTurn
<1>8. CASE Fails /\ UNCHANGED <<script, installed>>
  <2>1. run' \in Runs
    BY <1>2, <1>4, <1>8, TurnRuns
  <2>2. \A u \in UnitIds \ {Touched} : Left(u) /\ (u \in cut => u \in cut')
    BY <1>1, <1>8 DEF Left
  <2> QED BY <1>1, <1>6, <1>8, <2>1, <2>2, TypedUnits, MakeTurn
<1> QED BY <1>1, <1>7, <1>8

LEMMA WriteXmlTurn == ASSUME Typed, Positions, WriteXml PROVE Turn
<1>1. /\ run.pc = "script" /\ Fixed /\ UNCHANGED <<installed, cut, loose, loaded, running, script>>
      /\ Works \/ Costs(1)
      /\ \/ file' = [file EXCEPT ![Now] = TaskXml(D.task)] /\ Goes("written", run.changed, FALSE)
         \/ Fails /\ UNCHANGED file
  BY DEF WriteXml, At, Quietly
<1>2. Kept
  BY <1>1, FixedLemma
<1>4. ~Idle /\ run.queue # <<>> /\ Placed /\ NowWords /\ Subject \in Names /\ Now \in UnitIds /\ Touched = Now /\ ~Removing
  BY <1>1, BusyFacts DEF AtUnit
<1>5. TaskXml(D.task) \in Definitions
  BY <1>4 DEF NowWords, ValueWords
<1>6. failures' \in 0..MaxFailures
  BY <1>1, CostLemma
<1>7. run' \in Runs
  <2>1. CASE Fails
    BY <1>2, <1>4, <2>1, TurnRuns
  <2>2. CASE Goes("written", run.changed, FALSE)
    BY <1>2, <1>4, <2>2, GoesRuns, StepsFacts, TypedUnits
  <2> QED BY <1>1, <2>1, <2>2
<1>8. file' \in [UnitIds -> Definitions] /\ \A v \in UnitIds \ {Now} : file'[v] = file[v]
  BY <1>1, <1>5, TypedUnits
<1>9. \A u \in UnitIds \ {Touched} : Left(u) /\ (u \in cut => u \in cut')
  BY <1>1, <1>4, <1>8 DEF Left
<1> QED BY <1>1, <1>6, <1>7, <1>8, <1>9, TypedUnits, MakeTurn

LEMMA RegisterTurn == ASSUME Typed, Positions, Register PROVE Turn
<1>1. /\ run.pc = "written" /\ Fixed /\ UNCHANGED <<file, running, script, installed, loose>>
      /\ Works \/ Costs(1)
      /\ Done \/ Fails
      /\ loaded' = [loaded EXCEPT ![Now] = file[Now]] \/ UNCHANGED loaded
      /\ CaughtUp \/ LeftBehind \/ UNCHANGED cut \/ cut' = cut \cup {Now}
  BY DEF Register, At
<1>2. Kept
  BY <1>1, FixedLemma
<1>4. ~Idle /\ run.queue # <<>> /\ Placed /\ NowWords /\ Subject \in Names /\ Now \in UnitIds /\ Touched = Now /\ ~Removing
  BY <1>1, BusyFacts DEF AtUnit
<1>6. failures' \in 0..MaxFailures
  BY <1>1, CostLemma
<1>7. run' \in Runs
  BY <1>1, <1>2, <1>4, TurnRuns
<1>8. loaded' \in [UnitIds -> Definitions] /\ \A v \in UnitIds \ {Now} : loaded'[v] = loaded[v]
  <2>1. file[Now] \in Definitions
    BY <1>4, TypedUnits
  <2> QED BY <1>1, <2>1, TypedUnits
<1>9. cut' \subseteq UnitIds /\ \A u \in UnitIds \ {Touched} : u \in cut => u \in cut'
  BY <1>1, <1>4, TypedUnits DEF CaughtUp, LeftBehind
<1>10. \A u \in UnitIds \ {Touched} : Left(u) /\ (u \in cut => u \in cut')
  BY <1>1, <1>4, <1>8, <1>9 DEF Left
<1> QED BY <1>1, <1>6, <1>7, <1>8, <1>9, <1>10, TypedUnits, MakeTurn

\* The unit of a removed service, at the beginning of its turn.
LEMMA GoneFacts ==
    ASSUME Typed, Positions, At("pick"), Removing
    PROVE  /\ Touched = Gone /\ Way = RemovalWay(lock[Subject]) /\ Subject \in Names /\ Subject \notin Declared
           /\ Gone = RemovalId(Subject, lock[Subject]) /\ RemovalWords(Subject)
           /\ Way # "elsewhere" => Gone \in UnitIds
           /\ lock[Subject] # Unlocked /\ run.verb = "apply"
<1>1. SubjectWords /\ Subject \in Names /\ ~Idle /\ run.queue # <<>>
  BY PickFacts
<1>2. /\ Way = RemovalWay(lock[Subject]) /\ Gone = RemovalId(Subject, lock[Subject])
      /\ Subject \notin Declared /\ lock[Subject] # Unlocked /\ run.verb = "apply"
  BY <1>1 DEF SubjectWords
<1>3. RemovalWords(Subject)
  BY <1>1, TypedInputs, RemovalLemma DEF RemovalVocab
<1>4. Way # "elsewhere" => Gone \in UnitIds
  BY <1>1, <1>2, <1>3, IdFacts DEF RemovalWords
<1> QED BY <1>1, <1>2, <1>3, <1>4 DEF Touched

LEMMA UnloadTurn == ASSUME Typed, Positions, Unload PROVE Turn
<1>1. /\ At("pick") /\ Removing /\ Way # "elsewhere" /\ Fixed /\ UNCHANGED <<installed, cut>>
      /\ Works \/ Costs(1)
      /\ Done \/ Fails \/ Goes("unloaded", FALSE, FALSE)
      /\ loose' = loose \/ loose' = loose \cup {Gone}
      /\ \/ /\ Put(Gone, file[Gone], IF Way = "systemd" THEN loaded[Gone] ELSE Absent, Absent)
            /\ UNCHANGED script
         \/ UNCHANGED supervisor
  BY DEF Unload, Due
<1>2. Kept
  BY <1>1, FixedLemma
<1>3. ~Idle /\ run.queue # <<>> /\ Placed
  BY <1>1, PickFacts
<1>4. Touched = Gone /\ Gone \in UnitIds
  BY <1>1, GoneFacts
<1>5. failures' \in 0..MaxFailures
  BY <1>1, CostLemma
<1>6. run' \in Runs
  <2>1. CASE Done \/ Fails
    BY <1>2, <1>3, <2>1, TurnRuns
  <2>2. CASE Goes("unloaded", FALSE, FALSE)
    BY <1>2, <1>3, <2>2, GoesRuns, StepsFacts
  <2> QED BY <1>1, <2>1, <2>2
<1>7. /\ file' \in [UnitIds -> Definitions] /\ loaded' \in [UnitIds -> Definitions]
      /\ running' \in [UnitIds -> Definitions] /\ UNCHANGED script
      /\ \A v \in UnitIds \ {Gone} : file'[v] = file[v] /\ loaded'[v] = loaded[v] /\ running'[v] = running[v]
  <2>1. CASE UNCHANGED supervisor
    BY <2>1, TypedUnits DEF supervisor
  <2>2. CASE /\ Put(Gone, file[Gone], IF Way = "systemd" THEN loaded[Gone] ELSE Absent, Absent)
             /\ UNCHANGED script
    <3>1. Absent \in Definitions /\ file[Gone] \in Definitions /\ loaded[Gone] \in Definitions
      BY <1>4, TypedUnits, TypedInputs, ValueLemma DEF ValueVocab
    <3>2. PICK l \in Definitions : Put(Gone, file[Gone], l, Absent)
      BY <2>2, <3>1
    <3> QED BY <2>2, <3>1, <3>2, PutLemma
  <2> QED BY <1>1, <2>1, <2>2
<1>8. \A u \in UnitIds \ {Touched} : Left(u) /\ (u \in cut => u \in cut')
  BY <1>1, <1>4, <1>7 DEF Left
<1>9. loose' \subseteq UnitIds /\ loose \subseteq loose'
  BY <1>1, <1>4, TypedUnits
<1> QED BY <1>1, <1>5, <1>6, <1>7, <1>8, <1>9, TypedUnits, MakeTurn

LEMMA DeleteFileTurn == ASSUME Typed, Positions, DeleteFile PROVE Turn
<1>1. /\ run.pc = "unloaded" /\ Fixed /\ UNCHANGED <<running, installed>>
      /\ loose' \in {loose, loose \cup {Gone}}
      /\ Works \/ Costs(1)
      /\ Done \/ Fails
      /\ \/ /\ file' = [file EXCEPT ![Gone] = Absent]
            /\ (loaded' = [Reloaded EXCEPT ![Gone] = Absent] /\ Systemd) \/ loaded' = loaded
            /\ script' = IF Way = "task" THEN [script EXCEPT ![Subject] = ""] ELSE script
            /\ cut' = cut \cup {u \in {Gone} : \E n \in Declared : UnitOf(n, spec[n]) = u}
         \/ UNCHANGED <<file, loaded, script, cut>>
  BY DEF DeleteFile, At
<1>2. Kept
  BY <1>1, FixedLemma
<1>3. ~Idle /\ run.queue # <<>> /\ Placed /\ Touched = Gone /\ Gone \in UnitIds
  BY <1>1, BusyFacts DEF AtUnit
<1>4. loose' \subseteq UnitIds /\ loose \subseteq loose'
  BY <1>1, <1>3, TypedUnits
<1>5. failures' \in 0..MaxFailures
  BY <1>1, CostLemma
<1>6. run' \in Runs
  BY <1>1, <1>2, <1>3, TurnRuns
<1>7. CASE UNCHANGED <<file, loaded, script, cut>>
  <2>1. \A u \in UnitIds \ {Touched} : Left(u) /\ (u \in cut => u \in cut')
    BY <1>1, <1>7 DEF Left
  <2> QED BY <1>1, <1>4, <1>5, <1>6, <1>7, <2>1, TypedUnits, MakeTurn
<1>8. CASE /\ file' = [file EXCEPT ![Gone] = Absent]
           /\ (loaded' = [Reloaded EXCEPT ![Gone] = Absent] /\ Systemd) \/ loaded' = loaded
           /\ script' = IF Way = "task" THEN [script EXCEPT ![Subject] = ""] ELSE script
           /\ cut' = cut \cup {u \in {Gone} : \E n \in Declared : UnitOf(n, spec[n]) = u}
  <2>1. Absent \in Definitions
    BY TypedInputs, ValueLemma DEF ValueVocab
  <2>2. file' \in [UnitIds -> Definitions] /\ \A v \in UnitIds \ {Gone} : file'[v] = file[v]
    BY <1>8, <2>1, TypedUnits
  <2>3. /\ Reloaded \in [UnitIds -> Definitions]
        /\ \A v \in UnitIds : Reloaded[v] = loaded[v] \/ (Reloaded[v] = file[v] /\ v[1] \in {"genv", "own"})
    BY TypedUnits DEF Reloaded
  <2>4. /\ loaded' \in [UnitIds -> Definitions]
        /\ \A v \in UnitIds \ {Gone} : loaded'[v] = loaded[v] \/ (Systemd /\ loaded'[v] = file[v] /\ v[1] \in {"genv", "own"})
    <3>1. CASE loaded' = [Reloaded EXCEPT ![Gone] = Absent] /\ Systemd
      BY <2>1, <2>3, <3>1
    <3>2. CASE loaded' = loaded
      BY <3>2, TypedUnits
    <3> QED BY <1>8, <3>1, <3>2
  <2>5. script' \in [Names -> Texts] /\ \A n \in Names \ {Subject} : script'[n] = script[n]
    BY <1>8, TypedUnits, TextsAssumption
  <2>6. cut' \subseteq UnitIds /\ \A u \in UnitIds : u \in cut => u \in cut'
    BY <1>3, <1>8, TypedUnits
  <2>7. \A u \in UnitIds \ {Touched} : Left(u) /\ (u \in cut => u \in cut')
    BY <1>1, <1>3, <2>2, <2>4, <2>6 DEF Left
  <2> QED BY <1>1, <1>4, <1>5, <1>6, <2>2, <2>4, <2>5, <2>6, <2>7, TypedUnits, MakeTurn
<1> QED BY <1>1, <1>7, <1>8

\* The steps of genv service restart.
LEMMA RestartLaunchdTurn == ASSUME Typed, Positions, RestartLaunchd PROVE Turn
<1>1. /\ At("pick") /\ run.verb = "restart" /\ Way = "launchd" /\ Quietly
      /\ Works \/ Costs(1)
      /\ \/ Fails /\ UNCHANGED supervisor
         \/ /\ HasLabel(D.plist) /\ Goes("out", FALSE, TRUE)
            /\ (Put(Now, file[Now], Absent, Absent) /\ UNCHANGED script) \/ UNCHANGED supervisor
  BY DEF RestartLaunchd
<1>2. Fixed /\ Kept /\ UNCHANGED <<installed, cut, loose>>
  BY <1>1, FixedLemma DEF Quietly
<1>3. ~Idle /\ run.queue # <<>> /\ Placed /\ SubjectWords /\ NowWords /\ Subject \in Names
  BY <1>1, PickFacts
<1>4. ~Removing /\ Touched = Now /\ (HasLabel(D.plist) => Now \in UnitIds)
  <2>1. ~Removing
    BY <1>1 DEF Removing
  <2>2. Renderable <=> HasLabel(D.plist)
    BY <1>1 DEF Renderable
  <2>3. Now \in Owns => Now \in UnitIds
    BY IdFacts
  <2> QED BY <1>1, <1>3, <2>1, <2>2, <2>3 DEF Touched, CommandWays, NowWords
<1>5. failures' \in 0..MaxFailures
  BY <1>1, CostLemma
<1>6. CASE Fails /\ UNCHANGED supervisor
  <2>1. run' \in Runs
    BY <1>2, <1>3, <1>6, TurnRuns
  <2> QED BY <1>2, <1>5, <1>6, <2>1, FixedLemma, StillTurn, TypedUnits
<1>7. CASE /\ HasLabel(D.plist) /\ Goes("out", FALSE, TRUE)
           /\ (Put(Now, file[Now], Absent, Absent) /\ UNCHANGED script) \/ UNCHANGED supervisor
  <2>1. run' \in Runs
    BY <1>2, <1>3, <1>7, GoesRuns, StepsFacts
  <2>2. Absent \in Definitions /\ file[Now] \in Definitions
    BY <1>4, <1>7, TypedUnits, TypedInputs, ValueLemma DEF ValueVocab
  <2>3. /\ file' \in [UnitIds -> Definitions] /\ loaded' \in [UnitIds -> Definitions]
        /\ running' \in [UnitIds -> Definitions]
        /\ \A v \in UnitIds \ {Now} : file'[v] = file[v] /\ loaded'[v] = loaded[v] /\ running'[v] = running[v]
    <3>1. CASE Put(Now, file[Now], Absent, Absent)
      BY <2>2, <3>1, PutLemma
    <3>2. CASE UNCHANGED supervisor
      BY <3>2, TypedUnits DEF supervisor
    <3> QED BY <1>7, <3>1, <3>2
  <2>4. \A u \in UnitIds \ {Touched} : Left(u) /\ (u \in cut => u \in cut')
    BY <1>2, <1>4, <2>3 DEF Left
  <2>5. UNCHANGED script
    BY <1>7 DEF supervisor
  <2> QED BY <1>2, <1>5, <2>1, <2>3, <2>4, <2>5, TypedUnits, MakeTurn
<1> QED BY <1>1, <1>6, <1>7

LEMMA RestartSystemdTurn == ASSUME Typed, Positions, RestartSystemd PROVE Turn
<1> DEFINE held == IF loaded[Now] = Absent THEN file[Now] ELSE loaded[Now]
<1>1. /\ At("pick") /\ run.verb = "restart" /\ Way = "systemd" /\ Quietly /\ UNCHANGED script
      /\ Works \/ Costs(1)
      /\ Done \/ Fails
      /\ \/ \E r \in StartOf(held) : Put(Now, file[Now], held, r)
         \/ \E r \in {running[Now], Absent} : Put(Now, file[Now], loaded[Now], r)
         \/ UNCHANGED <<file, loaded, running>>
  BY DEF RestartSystemd
<1>2. Fixed /\ Kept /\ UNCHANGED <<installed, cut, loose>>
  BY <1>1, FixedLemma DEF Quietly
<1>3. ~Idle /\ run.queue # <<>> /\ Placed /\ SubjectWords /\ NowWords /\ Subject \in Names
  BY <1>1, PickFacts
<1>4. ~Removing /\ Touched = Now /\ Now \in UnitIds
  <2>1. ~Removing
    BY <1>1 DEF Removing
  <2>2. Now = U(Subject) /\ Way = B(Subject) /\ UnitWords(Subject)
    BY <1>1, <1>3, <2>1 DEF SubjectWords, NowWords, Ways
  <2>3. Now \in Owns \cup {GenId(Subject)}
    BY <1>1, <2>2 DEF UnitWords
  <2> QED BY <1>1, <1>3, <2>1, <2>3, IdFacts DEF Touched, CommandWays
<1>5. failures' \in 0..MaxFailures
  BY <1>1, CostLemma
<1>6. run' \in Runs
  BY <1>1, <1>2, <1>3, TurnRuns
<1>7. Absent \in Definitions /\ file[Now] \in Definitions /\ loaded[Now] \in Definitions /\ running[Now] \in Definitions
  BY <1>4, TypedUnits, TypedInputs, ValueLemma DEF ValueVocab
<1>8. /\ file' \in [UnitIds -> Definitions] /\ loaded' \in [UnitIds -> Definitions]
      /\ running' \in [UnitIds -> Definitions]
      /\ \A v \in UnitIds \ {Now} : file'[v] = file[v] /\ loaded'[v] = loaded[v] /\ running'[v] = running[v]
  <2>1. CASE UNCHANGED <<file, loaded, running>>
    BY <2>1, TypedUnits
  <2>2. CASE \E l, r \in Definitions : Put(Now, file[Now], l, r)
    <3>1. PICK l \in Definitions, r \in Definitions : Put(Now, file[Now], l, r)
      BY <2>2
    <3> QED BY <1>7, <3>1, PutLemma
  <2>3. held \in Definitions /\ StartOf(held) \subseteq Definitions
    BY <1>7, StartedType
  <2> HIDE DEF held
  <2> QED BY <1>1, <1>7, <2>1, <2>2, <2>3
<1>9. \A u \in UnitIds \ {Touched} : Left(u) /\ (u \in cut => u \in cut')
  BY <1>2, <1>4, <1>8 DEF Left
<1> QED BY <1>1, <1>2, <1>5, <1>6, <1>8, <1>9, TypedUnits, MakeTurn

LEMMA RestartOtherTurn == ASSUME Typed, Positions, RestartOther PROVE Turn
<1> DEFINE u == IF Way = "brew" THEN BrewId(D.brew) ELSE RawId(Subject)
<1>1. /\ At("pick") /\ run.verb = "restart" /\ Way \in {"brew", "restart", "stop and start"}
      /\ Quietly /\ UNCHANGED script
      /\ Works \/ Costs(1)
      /\ Done \/ Fails
      /\ \E r \in {running[u], Absent} \cup StartOf(Command(D)) : Put(u, file[u], loaded[u], r)
  BY DEF RestartOther
<1>2. Fixed /\ Kept /\ UNCHANGED <<installed, cut, loose>>
  BY <1>1, FixedLemma DEF Quietly
<1>3. ~Idle /\ run.queue # <<>> /\ Placed /\ SubjectWords /\ NowWords /\ Subject \in Names
  BY <1>1, PickFacts
<1>4. ~Removing /\ Touched = u /\ u \in UnitIds
  <2>1. ~Removing
    BY <1>1 DEF Removing
  <2> QED BY <1>1, <1>3, <2>1, IdFacts DEF Touched, CommandWays, NowWords
<1>5. failures' \in 0..MaxFailures
  BY <1>1, CostLemma
<1>6. run' \in Runs
  BY <1>1, <1>2, <1>3, TurnRuns
<1> HIDE DEF u
<1>7. Absent \in Definitions /\ file[u] \in Definitions /\ loaded[u] \in Definitions /\ running[u] \in Definitions
  BY <1>4, TypedUnits, TypedInputs, ValueLemma DEF ValueVocab
<1>8. StartOf(Command(D)) \subseteq Definitions
  BY <1>3, <1>4, StartedType DEF NowWords, ValueWords
<1>9. /\ file' \in [UnitIds -> Definitions] /\ loaded' \in [UnitIds -> Definitions]
      /\ running' \in [UnitIds -> Definitions]
      /\ \A v \in UnitIds \ {u} : file'[v] = file[v] /\ loaded'[v] = loaded[v] /\ running'[v] = running[v]
  <2>1. PICK r \in Definitions : Put(u, file[u], loaded[u], r)
    BY <1>1, <1>7, <1>8
  <2> QED BY <1>7, <2>1, PutLemma
<1>10. \A v \in UnitIds \ {Touched} : Left(v) /\ (v \in cut => v \in cut')
  BY <1>2, <1>4, <1>9 DEF Left
<1> QED BY <1>1, <1>2, <1>5, <1>6, <1>9, <1>10, TypedUnits, MakeTurn

\* The steps of a command, the last one and an interruption apart.
CommandStep ==
  \/ Skip \/ Elsewhere \/ Starts \/ WriteUnit \/ Bootout \/ Bootstrap
  \/ EnableNow \/ RestartChanged \/ WriteScript \/ WriteXml \/ Register
  \/ Unload \/ DeleteFile \/ RestartLaunchd \/ RestartSystemd \/ RestartOther

LEMMA CommandStepTurn == ASSUME Typed, Positions, CommandStep PROVE Turn /\ ~Idle /\ run.queue # <<>>
<1>1. Turn
  BY SkipTurn, StartsTurn, WriteUnitTurn, BootoutTurn, BootstrapTurn, EnableNowTurn, RestartChangedTurn,
     WriteScriptTurn, WriteXmlTurn, RegisterTurn, UnloadTurn, DeleteFileTurn, RestartLaunchdTurn,
     RestartSystemdTurn, RestartOtherTurn DEF CommandStep
<1>2. \E st \in {"pick", "written", "out", "enabled", "script", "unloaded"} : At(st)
  BY DEF CommandStep, Skip, Elsewhere, Starts, WriteUnit, Writing, Due, Bootout, Bootstrap, EnableNow, RestartChanged,
         WriteScript, WriteXml, Register, Unload, DeleteFile, RestartLaunchd, RestartSystemd, RestartOther
<1> QED BY <1>1, <1>2 DEF At, Idle

(***************************************************************************)
(* Two names that do not share a unit do not touch each other's.           *)
(***************************************************************************)
LEMMA OwnKind ==
    ASSUME NEW n \in Names, UnitWords(n), U(n) \in UnitIds
    PROVE  (U(n)[1] = "genv" => U(n) = GenId(n)) /\ (U(n)[1] = "raw" => U(n) = RawId(n))
  BY IdFacts DEF UnitWords

LEMMA TouchesItsOwn ==
    ASSUME Typed, Placed, ~Idle, run.queue # <<>>, NEW n \in Declared \ {Subject}, U(n) \in UnitIds
    PROVE  U(n) = Touched => /\ U(n)[1] \in {"own", "brew"}
                             /\ IF Removing THEN RemovalId(Subject, lock[Subject]) = U(n)
                                ELSE Subject \in Declared /\ U(Subject) = U(n)
<1> SUFFICES ASSUME U(n) = Touched
             PROVE  /\ U(n)[1] \in {"own", "brew"}
                    /\ IF Removing THEN RemovalId(Subject, lock[Subject]) = U(n)
                       ELSE Subject \in Declared /\ U(Subject) = U(n)
  OBVIOUS
<1>1. n \in Names /\ n # Subject
  BY DEF Declared
<1>2. SubjectWords /\ NowWords /\ Subject \in Names
  BY SubjectLemma, NowLemma DEF SubjectWords
<1>3. UnitWords(n) /\ RemovalWords(Subject)
  BY <1>1, <1>2, TypedInputs, UnitLemma, RemovalLemma DEF UnitVocab, RemovalVocab
<1>4. U(n)[1] = "genv" => U(n) = GenId(n)
  BY <1>1, <1>3, IdFacts DEF UnitWords
<1>5. U(n)[1] = "raw" => U(n) = RawId(n)
  BY <1>1, <1>3, IdFacts DEF UnitWords
<1>6. CASE Removing
  <2>1. Touched = RemovalId(Subject, lock[Subject])
    BY <1>2, <1>6 DEF Touched, SubjectWords
  <2>2. U(n)[1] # "genv"
    BY <1>1, <1>3, <1>4, <2>1, IdFacts DEF RemovalWords
  <2>3. U(n)[1] # "raw"
    BY <1>1, <1>2, <1>3, <1>5, <2>1, IdFacts DEF RemovalWords
  <2> QED BY <1>6, <2>1, <2>2, <2>3, IdFacts
<1>7. CASE ~Removing /\ Way \in CommandWays
  <2>1. Touched = RawId(Subject)
    BY <1>7 DEF Touched
  <2> QED BY <1>1, <1>5, <2>1, IdFacts
<1>8. CASE ~Removing /\ Way \notin CommandWays
  <2>1. Touched = U(Subject) /\ UnitWords(Subject) /\ Subject \in Declared
    BY <1>2, <1>8 DEF Touched, SubjectWords, NowWords
  <2>4. (U(Subject)[1] = "genv" => U(Subject) = GenId(Subject)) /\ (U(Subject)[1] = "raw" => U(Subject) = RawId(Subject))
    BY <1>2, <2>1, OwnKind
  <2>2. U(n)[1] # "genv"
    BY <1>1, <1>4, <2>1, <2>4, IdFacts
  <2>3. U(n)[1] # "raw"
    BY <1>1, <1>5, <2>1, <2>4, IdFacts
  <2> QED BY <1>8, <2>1, <2>2, <2>3, IdFacts
<1> QED BY <1>6, <1>7, <1>8

LEMMA NotShared ==
    ASSUME Typed, Placed, ~Idle, run.queue # <<>>, NEW n \in Declared \ {Subject}, U(n) \in UnitIds, ~Shares(n)
    PROVE  U(n) # Touched
<1> SUFFICES ASSUME U(n) = Touched PROVE FALSE
  OBVIOUS
<1>1. Subject \in Names \ {n}
  BY SubjectLemma DEF SubjectWords
<1>2. U(n)[1] \in {"own", "brew"} /\ U(n) \in {RemovalId(Subject, lock[Subject]), U(Subject)}
  BY TouchesItsOwn
<1>3. Shares(n)
  BY <1>1, <1>2 DEF Shares, U
<1> QED BY <1>3

\* The elements of a sequence, and the names in their order.
LEMMA SeqElements ==
    ASSUME NEW T, NEW s \in Seq(T)
    PROVE  \A i \in DOMAIN s : s[i] \in T
  OBVIOUS

LEMMA SequenceOf ==
    ASSUME NEW T, NEW s \in Seq(T), NEW S, \A i \in DOMAIN s : s[i] \in S
    PROVE  s \in Seq(S)
  OBVIOUS

LEMMA NamesFacts == "" \notin Names /\ NameOrder \in Seq(Names) /\ ToSet(NameOrder) = Names /\ IsInjective(NameOrder)
<1>0. PICK T : T = Texts \ {""}
  OBVIOUS
<1>1. NameOrder \in Seq(T) /\ \A i \in DOMAIN NameOrder : NameOrder[i] \in T
  BY <1>0, NamesAssumption, SeqElements
<1>2. "" \notin Names
  BY <1>0, <1>1 DEF Names, ToSet
<1>3. \A i \in DOMAIN NameOrder : NameOrder[i] \in Names
  BY DEF Names, ToSet
<1>4. NameOrder \in Seq(Names)
  BY <1>1, <1>3, SequenceOf
<1>5. IsInjective(NameOrder)
  BY NamesAssumption DEF IsInjective
<1> QED BY <1>2, <1>4, <1>5 DEF Names

(***************************************************************************)
(* Where a step leaves the command.                                        *)
(***************************************************************************)
LEMMA GoesPositions ==
    ASSUME Typed, Placed, Kept, run.queue # <<>>, ~Idle,
           NEW st \in Steps \ {"idle", "pick"}, NEW c \in BOOLEAN, NEW w \in BOOLEAN, Goes(st, c, w),
           st = "written" => AtWritten', st = "out" => AtOut', st = "enabled" => AtEnabled',
           st = "script" => AtScript', st = "unloaded" => AtUnloaded'
    PROVE  Positions'
<1>1. run'.pc = st /\ Placed'
  BY GoesLemma
<1>2. st # "written" => AtWritten'
  BY <1>1 DEF AtWritten
<1>3. st # "out" => AtOut'
  BY <1>1 DEF AtOut
<1>4. st # "enabled" => AtEnabled'
  BY <1>1 DEF AtEnabled
<1>5. st # "script" => AtScript'
  BY <1>1 DEF AtScript
<1>6. st # "unloaded" => AtUnloaded'
  BY <1>1 DEF AtUnloaded
<1> QED BY <1>1, <1>2, <1>3, <1>4, <1>5, <1>6 DEF Positions

LEMMA TurnPositions ==
    ASSUME Typed, Positions, Kept, ~Idle, run.queue # <<>>, Done \/ Fails
    PROVE  Positions'
<1>1. Placed
  BY DEF Positions
<1>2. Subject \in Names
  BY <1>1, SubjectLemma DEF SubjectWords
<1>3. CASE Done
  <2>1. Passed({})
    BY <1>3 DEF Done
  <2> QED BY <1>1, <2>1, PassedLemma
<1>4. CASE Fails
  <2>1. Passed({Subject})
    BY <1>4 DEF Fails
  <2> QED BY <1>1, <1>2, <2>1, PassedLemma
<1> QED BY <1>3, <1>4

\* The steps that leave a service in the middle of its turn.
LEMMA WriteUnitPositions == ASSUME Typed, Positions, WriteUnit PROVE Positions'
<1>1. At("pick") /\ ~Removing /\ Way \in WritingWays /\ run.verb \in {"apply", "start"}
  BY DEF WriteUnit, Writing, Due, WritingWays
<1>2. /\ Fixed
      /\ \/ /\ Renderable /\ file' = [file EXCEPT ![Now] = Wanted]
            /\ \E c \in BOOLEAN : Goes("written", c, FALSE)
         \/ Fails
  BY DEF WriteUnit, Now
<1>3. Kept
  BY <1>2, FixedLemma
<1>4. ~Idle /\ run.queue # <<>> /\ Placed /\ NowWords
  BY <1>1, PickFacts
<1>5. CASE Renderable /\ file' = [file EXCEPT ![Now] = Wanted] /\ \E c \in BOOLEAN : Goes("written", c, FALSE)
  <2>1. PICK c \in BOOLEAN : Goes("written", c, FALSE)
    BY <1>5
  <2>2. run'.queue = run.queue /\ run'.verb = run.verb
    BY <1>3, <1>4, <2>1, GoesLemma, StepsFacts
  <2>3. /\ (Removing' <=> Removing) /\ Way' = Way
        /\ Now' = Now /\ Wanted' = Wanted /\ (Renderable' <=> Renderable)
    BY <1>3, <2>2, GoesNames
  <2>4. file'[Now] = Wanted
    BY <1>1, <1>4, <1>5, TypedUnits DEF NowWords
  <2>5. AtWritten'
    BY <1>1, <1>5, <2>2, <2>3, <2>4 DEF AtWritten
  <2> QED BY <1>3, <1>4, <2>1, <2>5, GoesPositions, StepsFacts
<1>6. CASE Fails
  BY <1>3, <1>4, <1>6, TurnPositions
<1> QED BY <1>2, <1>5, <1>6

LEMMA BootoutPositions == ASSUME Typed, Positions, Bootout PROVE Positions'
<1>1. /\ run.pc = "written" /\ Quietly /\ Way \in {"launchd", "generated launchd"}
      /\ \/ Done
         \/ /\ \E w \in BOOLEAN : Goes("out", run.changed, w)
            /\ Put(Now, file[Now], Absent, Absent) \/ UNCHANGED supervisor
  BY DEF Bootout, At
<1>2. Kept
  BY <1>1, FixedLemma DEF Quietly
<1>3. ~Idle /\ run.queue # <<>> /\ Placed /\ Now \in UnitIds /\ NowWords
  BY <1>1, BusyFacts DEF AtUnit
<1>4. CASE Done
  BY <1>2, <1>3, <1>4, TurnPositions
<1>5. CASE /\ \E w \in BOOLEAN : Goes("out", run.changed, w)
           /\ Put(Now, file[Now], Absent, Absent) \/ UNCHANGED supervisor
  <2>1. PICK w \in BOOLEAN : Goes("out", run.changed, w)
    BY <1>5
  <2>2. run'.queue = run.queue /\ run'.verb = run.verb
    BY <1>2, <1>3, <2>1, GoesLemma, StepsFacts, TypedUnits
  <2>3. /\ (Removing' <=> Removing) /\ Way' = Way
        /\ Now' = Now /\ Wanted' = Wanted /\ (Renderable' <=> Renderable)
    BY <1>2, <2>2, GoesNames
  <2>4. ~Removing /\ Renderable /\ file[Now] = Wanted /\ run.verb \in {"apply", "start"}
    BY <1>1 DEF Positions, AtWritten
  <2>5. Wanted # Absent
    BY <1>1, <1>3, <2>4 DEF NowWords, WritingWays
  <2>6. file'[Now] = file[Now]
    BY <1>3, <1>5, TypedUnits DEF Put, supervisor
  <2>7. AtOut'
    BY <1>1, <2>2, <2>3, <2>4, <2>5, <2>6 DEF AtOut
  <2> QED BY <1>2, <1>3, <2>1, <2>7, GoesPositions, StepsFacts, TypedUnits
<1> QED BY <1>1, <1>4, <1>5

LEMMA EnableNowPositions == ASSUME Typed, Positions, EnableNow PROVE Positions'
<1>1. /\ run.pc = "written" /\ Way \in {"systemd", "generated systemd"} /\ Fixed
      /\ UNCHANGED <<file, script, installed, loose>>
  BY DEF EnableNow, At
<1>2. Kept
  BY <1>1, FixedLemma DEF Quietly
<1>4. ~Idle /\ run.queue # <<>> /\ Placed /\ Now \in UnitIds /\ Touched = Now /\ SubjectWords /\ NowWords /\ ~Removing
      /\ Now \in Owns \cup {GenId(Subject)}
  BY <1>1, BusyFacts DEF AtUnit
<1>5. PICK asks \in BOOLEAN, reloads \in BOOLEAN, enables \in BOOLEAN :
        /\ loaded' = IF enables THEN Held1(reloads) ELSE Known1(reloads)
        /\ IF ~enables THEN Fails ELSE Goes("enabled", run.changed, running[Now] # Absent /\ asks)
        /\ IF asks /\ reloads /\ enables THEN UNCHANGED cut
           ELSE cut' = cut \cup {u \in {Now} : loaded'[u] # file[u] \/ Behind(u)}
  BY EnableNowParts
<1> DEFINE known == Known1(reloads)
           held == Held1(reloads)
<1>6. CASE Fails
  BY <1>2, <1>4, <1>6, TurnPositions
<1>7. CASE enables
  <2>1. PICK w \in BOOLEAN : Goes("enabled", run.changed, w)
    BY <1>5, <1>7
  <2>2. run'.queue = run.queue /\ run'.verb = run.verb
    BY <1>2, <1>4, <2>1, GoesLemma, StepsFacts, TypedUnits
  <2>3. /\ (Removing' <=> Removing) /\ Way' = Way
        /\ Now' = Now /\ Wanted' = Wanted /\ (Renderable' <=> Renderable)
    BY <1>2, <2>2, GoesNames
  <2>4. ~Removing /\ Renderable /\ file[Now] = Wanted /\ run.verb \in {"apply", "start"}
    BY <1>1 DEF Positions, AtWritten
  <2>5. file[Now] # Absent
    BY <1>1, <1>4, <2>4 DEF NowWords, WritingWays
  <2>6. known \in [UnitIds -> Definitions] /\ (reloads => known[Now] = file[Now])
    BY <1>4, TypedUnits, IdFacts DEF Reloaded, Known1
  <2>7. /\ loaded' = held
        /\ IF asks /\ reloads THEN UNCHANGED cut
           ELSE cut' = cut \cup {u \in {Now} : loaded'[u] # file[u] \/ Behind(u)}
        /\ held = IF known[Now] = Absent THEN [known EXCEPT ![Now] = file[Now]] ELSE known
    BY <1>5, <1>7 DEF Held1
  <2> HIDE DEF known, held
  <2>8. held[Now] # Absent /\ (reloads => held[Now] = file[Now])
    BY <1>4, <2>5, <2>6, <2>7
  <2>9. loaded'[Now] # Absent
    BY <2>7, <2>8
  <2>10. loaded'[Now] = file[Now] \/ Now \in cut'
    BY <2>7, <2>8
  <2>11. file' = file
    BY <1>1
  <2>12. AtEnabled'
    BY <1>1, <2>2, <2>3, <2>4, <2>9, <2>10, <2>11 DEF AtEnabled
  <2> QED BY <1>2, <1>4, <2>1, <2>12, GoesPositions, StepsFacts, TypedUnits
<1> QED BY <1>5, <1>6, <1>7

LEMMA WriteScriptPositions == ASSUME Typed, Positions, WriteScript PROVE Positions'
<1>1. /\ At("pick") /\ ~Removing /\ Way = "task" /\ run.verb = "apply" /\ Fixed /\ UNCHANGED <<file, loaded, running, cut, loose>>
      /\ \/ /\ script' = [script EXCEPT ![Subject] = D.task.action] /\ Installs(GenId(Subject))
            /\ Goes("script", script[Subject] # D.task.action \/ file[GenId(Subject)] # TaskXml(D.task), FALSE)
         \/ Fails
  BY DEF WriteScript, Due
<1>2. Kept
  BY <1>1, FixedLemma
<1>4. ~Idle /\ run.queue # <<>> /\ Placed /\ NowWords /\ Subject \in Names
  BY <1>1, PickFacts
<1>5. Now = GenId(Subject) /\ Now \in UnitIds
  BY <1>1, <1>4 DEF NowWords
<1>7. CASE /\ script' = [script EXCEPT ![Subject] = D.task.action] /\ Installs(GenId(Subject))
           /\ Goes("script", script[Subject] # D.task.action \/ file[GenId(Subject)] # TaskXml(D.task), FALSE)
  <2>1. PICK c \in BOOLEAN : Goes("script", c, FALSE) /\ (~c => file[GenId(Subject)] = TaskXml(D.task))
    BY <1>7
  <2>2. run'.queue = run.queue /\ run'.verb = run.verb /\ run'.changed = c
    BY <1>2, <1>4, <2>1, GoesLemma, StepsFacts
  <2>3. /\ Subject' = Subject /\ D' = D /\ (Removing' <=> Removing) /\ Way' = Way
        /\ Now' = Now /\ TaskXml(D.task)' = TaskXml(D.task)
    BY <1>2, <2>2, GoesNames
  <2>4. script'[Subject] = D.task.action
    BY <1>4, <1>7, TypedUnits
  <2>5. installed'[Now] # ""
    <3>1. installed'[Now] = Subject
      BY <1>4, <1>5, <1>7, InstallsLemma
    <3>2. Subject # ""
      BY <1>4, NamesFacts
    <3> QED BY <3>1, <3>2
  <2>6. AtScript'
    BY <1>1, <1>5, <2>1, <2>2, <2>3, <2>4, <2>5 DEF AtScript
  <2> QED BY <1>2, <1>4, <2>1, <2>6, GoesPositions, StepsFacts
<1>8. CASE Fails
  BY <1>2, <1>4, <1>8, TurnPositions
<1> QED BY <1>1, <1>7, <1>8

LEMMA WriteXmlPositions == ASSUME Typed, Positions, WriteXml PROVE Positions'
<1>1. /\ run.pc = "script" /\ Fixed /\ UNCHANGED <<installed, cut, loose, loaded, running, script>>
      /\ \/ file' = [file EXCEPT ![Now] = TaskXml(D.task)] /\ Goes("written", run.changed, FALSE)
         \/ Fails
  BY DEF WriteXml, At, Quietly
<1>2. Kept
  BY <1>1, FixedLemma
<1>4. ~Idle /\ run.queue # <<>> /\ Placed /\ NowWords /\ Subject \in Names /\ Now \in UnitIds /\ Touched = Now /\ ~Removing
  BY <1>1, BusyFacts DEF AtUnit
<1>5. CASE file' = [file EXCEPT ![Now] = TaskXml(D.task)] /\ Goes("written", run.changed, FALSE)
  <2>2. run'.queue = run.queue /\ run'.verb = run.verb
    BY <1>2, <1>4, <1>5, GoesLemma, StepsFacts, TypedUnits
  <2>3. /\ Subject' = Subject /\ D' = D /\ (Removing' <=> Removing) /\ Way' = Way
        /\ Now' = Now /\ TaskXml(D.task)' = TaskXml(D.task)
    BY <1>2, <2>2, GoesNames
  <2>4. file'[Now] = TaskXml(D.task)
    BY <1>4, <1>5, TypedUnits
  <2>5. run.verb = "apply" /\ Way = "task" /\ script[Subject] = D.task.action
    BY <1>1 DEF Positions, AtScript
  <2>6. AtWritten'
    BY <1>1, <1>4, <2>2, <2>3, <2>4, <2>5 DEF AtWritten
  <2> QED BY <1>2, <1>4, <1>5, <2>6, GoesPositions, StepsFacts, TypedUnits
<1>6. CASE Fails
  BY <1>2, <1>4, <1>6, TurnPositions
<1> QED BY <1>1, <1>5, <1>6

LEMMA UnloadPositions == ASSUME Typed, Positions, Unload PROVE Positions'
<1>1. /\ At("pick") /\ Removing /\ Fixed /\ Way # "elsewhere"
      /\ \/ Done \/ Fails
         \/ /\ Goes("unloaded", FALSE, FALSE) /\ Way \in {"launchd", "systemd", "task"}
            /\ \/ Put(Gone, file[Gone], IF Way = "systemd" THEN loaded[Gone] ELSE Absent, Absent)
               \/ loose' = loose \cup {Gone}
  BY DEF Unload, Due
<1>2. Kept
  BY <1>1, FixedLemma
<1>3. ~Idle /\ run.queue # <<>> /\ Placed
  BY <1>1, PickFacts
<1>4. Gone \in UnitIds /\ Way = RemovalWay(lock[Subject]) /\ RemovalWords(Subject)
  BY <1>1, GoneFacts
<1>5. CASE Done \/ Fails
  BY <1>2, <1>3, <1>5, TurnPositions
<1>6. CASE /\ Goes("unloaded", FALSE, FALSE) /\ Way \in {"launchd", "systemd", "task"}
           /\ \/ Put(Gone, file[Gone], IF Way = "systemd" THEN loaded[Gone] ELSE Absent, Absent)
              \/ loose' = loose \cup {Gone}
  <2>2. run'.queue = run.queue /\ run'.verb = run.verb
    BY <1>2, <1>3, <1>6, GoesLemma, StepsFacts
  <2>3. /\ (Removing' <=> Removing) /\ Way' = Way /\ Gone' = Gone
    BY <1>2, <2>2, GoesNames
  <2>4. run.verb = "apply"
    BY <1>1, GoneFacts
  <2>5. Way = "systemd" => Systemd'
    BY <1>2, <1>4, KeptNames DEF RemovalWords
  <2>6. Put(Gone, file[Gone], IF Way = "systemd" THEN loaded[Gone] ELSE Absent, Absent)
          => running'[Gone] = Absent /\ (Way # "systemd" => loaded'[Gone] = Absent)
    BY <1>4, TypedUnits DEF Put
  <2>7. AtUnloaded'
    BY <1>1, <1>6, <2>2, <2>3, <2>4, <2>5, <2>6 DEF AtUnloaded
  <2> QED BY <1>2, <1>3, <1>6, <2>7, GoesPositions, StepsFacts
<1> QED BY <1>1, <1>5, <1>6

LEMMA RestartLaunchdPositions == ASSUME Typed, Positions, RestartLaunchd PROVE Positions'
<1>1. /\ At("pick") /\ run.verb = "restart" /\ Way = "launchd" /\ Quietly
      /\ \/ Fails
         \/ /\ HasLabel(D.plist) /\ file[Now] # Absent /\ Goes("out", FALSE, TRUE)
            /\ Put(Now, file[Now], Absent, Absent) \/ UNCHANGED supervisor
  BY DEF RestartLaunchd
<1>2. Kept
  BY <1>1, FixedLemma DEF Quietly
<1>3. ~Idle /\ run.queue # <<>> /\ Placed /\ SubjectWords /\ NowWords /\ Subject \in Names
  BY <1>1, PickFacts
<1>4. ~Removing /\ (Renderable <=> HasLabel(D.plist))
  BY <1>1 DEF Removing, Renderable
<1>5. CASE Fails
  BY <1>2, <1>3, <1>5, TurnPositions
<1>6. CASE /\ HasLabel(D.plist) /\ file[Now] # Absent /\ Goes("out", FALSE, TRUE)
           /\ Put(Now, file[Now], Absent, Absent) \/ UNCHANGED supervisor
  <2>1. file'[Now] = file[Now]
    <3>1. Now \in UnitIds
      BY <1>1, <1>3, <1>4, <1>6, IdFacts DEF NowWords
    <3> QED BY <1>6, <3>1, TypedUnits DEF Put, supervisor
  <2>2. run'.queue = run.queue /\ run'.verb = run.verb
    BY <1>2, <1>3, <1>6, GoesLemma, StepsFacts
  <2>3. /\ (Removing' <=> Removing) /\ Way' = Way
        /\ Now' = Now /\ Wanted' = Wanted /\ (Renderable' <=> Renderable)
    BY <1>2, <2>2, GoesNames
  <2>7. AtOut'
    BY <1>1, <1>4, <1>6, <2>1, <2>2, <2>3 DEF AtOut
  <2> QED BY <1>2, <1>3, <1>6, <2>7, GoesPositions, StepsFacts
<1> QED BY <1>1, <1>5, <1>6

LEMMA CommandStepPositions == ASSUME Typed, Positions, CommandStep PROVE Positions'
<1>1. Kept /\ ~Idle /\ run.queue # <<>>
  BY CommandStepTurn DEF Turn, Sparing
<1>2. CASE Skip \/ Elsewhere \/ Starts \/ Bootstrap \/ RestartChanged \/ Register \/ DeleteFile \/ RestartSystemd \/ RestartOther
  <2>1. Done \/ Fails
    BY <1>2 DEF Skip, Elsewhere, Starts, Bootstrap, RestartChanged, Register, DeleteFile, RestartSystemd, RestartOther
  <2> QED BY <1>1, <2>1, TurnPositions
<1> QED BY <1>2, WriteUnitPositions, BootoutPositions, EnableNowPositions, WriteScriptPositions, WriteXmlPositions,
           UnloadPositions, RestartLaunchdPositions DEF CommandStep

(***************************************************************************)
(* The first and the last step of a command, and what happens around genv. *)
(***************************************************************************)
LEMMA UndeclaredForms == Undeclared \in Forms /\ NoTask \in Tasks
<1>1. NoTask \in Tasks
  BY TextsAssumption DEF NoTask, Tasks
<1>2. <<>> \in Words
  BY DEF Words
<1> QED BY <1>1, <1>2 DEF Undeclared, Forms, Tasks

LEMMA UnlockedNotes == Unlocked \in Notes /\ \A n : NoteOk(n, Unlocked)
<1>1. <<>> \in Words
  BY DEF Words
<1>2. Unlocked \in Notes
  BY <1>1, UndeclaredForms DEF Unlocked, Notes, Ids
<1> QED BY <1>2 DEF NoteOk, Unlocked, NoTask

LEMMA NoteLemma ==
    ASSUME InputsOK, NEW n \in Names
    PROVE  SpecToLock(n, spec[n]) \in Notes /\ NoteOk(n, SpecToLock(n, spec[n]))
<1> DEFINE d == spec[n]
<1>1. d \in Forms
  BY DEF InputsOK
<1>2. CASE d = Undeclared
  BY <1>2, UnlockedNotes DEF SpecToLock
<1>3. CASE d # Undeclared
  <2>1. DeclarationOk(d)
    BY <1>3 DEF InputsOK, Valid
  <2>2. d.task.action = "" => d.task = NoTask
    <3>1. d.task # NoTask => d.task.action \in Absolute
      BY <2>1 DEF DeclarationOk, TaskOk
    <3> QED BY <3>1, DeclarationsAssumption
  <2>3. \A s \in Sources : HasLabel(s) => OwnId(template[s].label) \in Owns
    BY IdFacts DEF InputsOK, HasLabel, Renderings
  <2>4. d.plist # "" /\ HasLabel(d.plist) => OwnId(template[d.plist].label) \in Owns
    BY <1>1, <2>3 DEF Forms
  <2>5. d.unit # "" => SystemdId(n, d) \in Owns \cup {GenId(n)}
    <3>1. d.unit # "" => d.unit \in DOMAIN Base
      BY <1>1 DEF Forms
    <3>2. \A s \in DOMAIN Base : Base[s] # "" => OwnId(Base[s]) \in Owns
      BY IdFacts, RenderingsAssumption
    <3> QED BY <3>1, <3>2 DEF SystemdId
  <2> DEFINE l == SpecToLock(n, d)
  <2>6. l = [brew |-> d.brew, plist |-> d.plist, label |-> l.label, unit |-> d.unit, base |-> l.base, task |-> d.task,
             start |-> d.start, stop |-> d.stop, restart |-> d.restart, status |-> d.status]
    BY <1>3 DEF SpecToLock, Noted
  <2>7. l.label = IF d.plist # "" /\ HasLabel(d.plist) THEN OwnId(template[d.plist].label) ELSE NoId
    BY <1>3 DEF SpecToLock, Noted
  <2>8. l.base = IF d.unit # "" THEN SystemdId(n, d) ELSE NoId
    BY <1>3 DEF SpecToLock, Noted
  <2>9. l.label \in Owns \cup {NoId} /\ (d.plist = "" => l.label = NoId)
    BY <2>4, <2>7
  <2>10. l.base \in Owns \cup {GenId(n), NoId} /\ (d.unit = "" => l.base = NoId) /\ (d.unit # "" => l.base # NoId)
    BY <2>5, <2>8, IdFacts
  <2> HIDE DEF l
  <2>11. l.plist = d.plist /\ l.unit = d.unit /\ l.task = d.task
    BY <2>6
  <2>12. NoteOk(n, l)
    BY <2>2, <2>9, <2>10, <2>11 DEF NoteOk
  <2>13. l.label \in Ids /\ l.base \in Ids
    BY <2>9, <2>10 DEF Ids
  <2>14. l \in Notes
    <3>1. /\ d.brew \in Formulas \cup {""} /\ d.plist \in Sources \cup {""} /\ d.unit \in DOMAIN Base \cup {""}
          /\ d.task \in Tasks /\ d.start \in Words /\ d.stop \in Words /\ d.restart \in Words /\ d.status \in Words
      BY <1>1 DEF Forms, Tasks
    <3>2. PICK lb : lb = l.label
      OBVIOUS
    <3>3. PICK bs : bs = l.base
      OBVIOUS
    <3>4. lb \in Ids /\ bs \in Ids
      BY <2>13, <3>2, <3>3
    <3>5. l = [brew |-> d.brew, plist |-> d.plist, label |-> lb, unit |-> d.unit, base |-> bs, task |-> d.task,
               start |-> d.start, stop |-> d.stop, restart |-> d.restart, status |-> d.status]
      BY <2>6, <3>2, <3>3
    <3> HIDE DEF d
    <3> QED BY <3>1, <3>4, <3>5 DEF Notes
  <2> QED BY <2>12, <2>14 DEF l
<1> QED BY <1>2, <1>3

LEMMA NoRunFacts ==
  /\ NoRun \in Runs /\ NoRun.pc = "idle" /\ NoRun.verb = "none" /\ NoRun.queue = <<>> /\ NoRun.failed = {}
  /\ NoRun.again = FALSE
<1>1. <<>> \in Seq(Names)
  OBVIOUS
<1> QED BY <1>1 DEF NoRun, Runs, Steps

LEMMA IdlePositions == ASSUME run' = NoRun PROVE Positions'
<1>1. run'.pc = "idle" /\ run'.verb = "none" /\ Idle'
  BY NoRunFacts DEF Idle
<1>2. Placed'
  BY <1>1 DEF Placed
<1> QED BY <1>1, <1>2 DEF Positions, AtWritten, AtOut, AtEnabled, AtScript, AtUnloaded

LEMMA IdleRun == ASSUME Positions, Idle PROVE run = NoRun
  BY DEF Positions, Placed

\* A counter that is below its bound can be raised.
LEMMA CountLemma ==
    ASSUME Typed
    PROVE  /\ runs < MaxRuns /\ runs' = runs + 1 => runs' \in 0..MaxRuns
           /\ edits < MaxEdits /\ edits' = edits + 1 => edits' \in 0..MaxEdits
<1>1. MaxRuns \in Nat /\ MaxEdits \in Nat
  BY MaximaAssumption
<1>2. runs \in 0..MaxRuns /\ edits \in 0..MaxEdits
  BY DEF Typed
<1> QED BY <1>1, <1>2

\* An apply gives every declared or locked name one turn.
LEMMA StartApplyFacts ==
    ASSUME Typed, StartApply
    PROVE  /\ Idle /\ runs < MaxRuns /\ runs' = runs + 1 /\ quiet' = TRUE /\ clean' = FALSE /\ said' = Nothing
           /\ UNCHANGED <<inputs, lock, supervisor, installed, cut, loose, failures, edits>>
           /\ run' \in Runs /\ run'.pc = "pick" /\ run'.verb = "apply" /\ run'.failed = {}
           /\ run'.again = (clean /\ quiet) /\ run'.queue \in Seq(Names) /\ IsInjective(run'.queue)
           /\ ToSet(run'.queue) = {n \in Names : spec[n] # Undeclared \/ lock[n] # Unlocked}
<1> DEFINE named == Keep(NameOrder, {n \in Names : spec[n] # Undeclared \/ lock[n] # Unlocked})
<1>1. /\ Idle /\ runs < MaxRuns /\ runs' = runs + 1 /\ named # <<>>
      /\ run' = [NoRun EXCEPT !.verb = "apply", !.pc = "pick", !.queue = named, !.again = clean /\ quiet]
      /\ quiet' = TRUE /\ clean' = FALSE /\ said' = Nothing
      /\ UNCHANGED <<inputs, lock, supervisor, installed, cut, loose, failures, edits>>
  BY DEF StartApply
<1>2. /\ named \in Seq(Names) /\ IsInjective(named)
      /\ ToSet(named) = {n \in Names : spec[n] # Undeclared \/ lock[n] # Unlocked}
  <2> DEFINE S == {n \in Names : spec[n] # Undeclared \/ lock[n] # Unlocked}
  <2>1. ToSet(NameOrder) \cap S = S
    BY NamesFacts
  <2> HIDE DEF S
  <2>2. Keep(NameOrder, S) \in Seq(Names) /\ ToSet(Keep(NameOrder, S)) = ToSet(NameOrder) \cap S
    BY NamesFacts, KeepLemma
  <2>3. IsInjective(Keep(NameOrder, S))
    BY NamesFacts, KeepOnce
  <2> QED BY <2>1, <2>2, <2>3 DEF S
<1> HIDE DEF named
<1>3. /\ run' \in Runs /\ run'.pc = "pick" /\ run'.verb = "apply" /\ run'.queue = named
      /\ run'.failed = {} /\ run'.again = (clean /\ quiet)
  <2>1. (clean /\ quiet) \in BOOLEAN
    OBVIOUS
  <2> QED BY <1>1, <1>2, <2>1, NoRunFacts DEF Runs, Steps
<1> QED BY <1>1, <1>2, <1>3

LEMMA StartApplyInv == ASSUME Typed, Positions, StartApply PROVE Typed' /\ Positions'
<1>1. /\ Idle /\ runs < MaxRuns /\ runs' = runs + 1 /\ quiet' = TRUE /\ clean' = FALSE
      /\ UNCHANGED <<inputs, lock, supervisor, installed, cut, loose, failures, edits>>
  BY StartApplyFacts
<1>2. /\ run'.queue \in Seq(Names) /\ IsInjective(run'.queue)
      /\ ToSet(run'.queue) = {n \in Names : spec[n] # Undeclared \/ lock[n] # Unlocked}
  BY StartApplyFacts
<1>3. run' \in Runs /\ run'.pc = "pick" /\ run'.verb = "apply"
  BY StartApplyFacts
<1>4. UNCHANGED <<platform, spec, template, today, lock, file, loaded, running, script>>
  BY <1>1 DEF inputs, supervisor
<1>5. runs' \in 0..MaxRuns
  BY <1>1, CountLemma
<1>6. Valid(spec)' /\ \A n \in Names : NoteOk(n, lock[n])'
  BY <1>4 DEF Typed, Valid, NoteOk
<1>7. Typed'
  BY <1>1, <1>3, <1>4, <1>5, <1>6 DEF Typed
<1>8. ~Idle' /\ run' # NoRun
  BY <1>3, NoRunFacts DEF Idle
<1>9. Placed'
  BY <1>2, <1>3, <1>4, <1>8 DEF Placed, IsInjective
<1>10. Positions'
  BY <1>3, <1>9 DEF Positions, AtWritten, AtOut, AtEnabled, AtScript, AtUnloaded
<1> QED BY <1>7, <1>10

\* genv service start, stop and restart.
LEMMA CommandedType ==
    ASSUME Typed, NEW n \in Names, Commanded(n), run' \in Runs, UNCHANGED script, failures' \in 0..MaxFailures,
           file' \in [UnitIds -> Definitions], loaded' \in [UnitIds -> Definitions], running' \in [UnitIds -> Definitions]
    PROVE  Typed'
<1>1. UNCHANGED <<platform, spec, template, today, lock, installed, cut, loose, clean, edits>> /\ quiet' = FALSE
      /\ runs < MaxRuns /\ runs' = runs + 1
  BY DEF Commanded, inputs
<1>2. runs' \in 0..MaxRuns
  BY <1>1, CountLemma
<1>3. Valid(spec)' /\ \A m \in Names : NoteOk(m, lock[m])'
  BY <1>1 DEF Typed, Valid, NoteOk
<1> QED BY <1>1, <1>2, <1>3 DEF Typed

LEMMA StartedRun ==
    ASSUME NEW n \in Names, NEW v \in {"start", "restart"}, spec[n] # Undeclared, UNCHANGED <<spec, lock>>,
           run' = [NoRun EXCEPT !.verb = v, !.name = n, !.pc = "pick", !.queue = <<n>>]
    PROVE  /\ run' \in Runs /\ Positions' /\ run'.pc = "pick" /\ run'.verb = v /\ run'.name = n
           /\ run'.queue = <<n>> /\ run'.failed = {} /\ run'.again = FALSE
<1>0. PICK q : q = <<n>>
  OBVIOUS
<1>1. q = <<n>> /\ q \in Seq(Names) /\ q # <<>>
  BY <1>0
<1>2. /\ run' \in Runs /\ run'.pc = "pick" /\ run'.verb = v /\ run'.name = n /\ run'.queue = q
      /\ run'.failed = {} /\ run'.again = FALSE
  BY <1>1, NoRunFacts DEF Runs, Steps
<1>3. ~Idle' /\ run' # NoRun
  BY <1>2, NoRunFacts DEF Idle
<1>4. n \in Declared'
  BY DEF Declared
<1>5. Placed'
  BY <1>1, <1>2, <1>3, <1>4 DEF Placed
<1>6. Positions'
  BY <1>2, <1>5 DEF Positions, AtWritten, AtOut, AtEnabled, AtScript, AtUnloaded
<1> QED BY <1>1, <1>2, <1>6

LEMMA StartServiceInv == ASSUME Typed, Positions, NEW n \in Names, StartService(n) PROVE Typed' /\ Positions'
<1>1. /\ Commanded(n) /\ UNCHANGED <<file, loaded, running, script, failures>> /\ spec[n] # Undeclared
      /\ run' = [NoRun EXCEPT !.verb = "start", !.name = n, !.pc = "pick", !.queue = <<n>>]
  BY DEF StartService, supervisor, Commanded
<1>2. UNCHANGED <<spec, lock>>
  BY <1>1 DEF Commanded, inputs
<1>3. run' \in Runs /\ Positions'
  BY <1>1, <1>2, StartedRun
<1>4. Typed'
  BY <1>1, <1>3, CommandedType DEF Typed
<1> QED BY <1>3, <1>4

LEMMA RestartServiceInv == ASSUME Typed, Positions, NEW n \in Names, RestartService(n) PROVE Typed' /\ Positions'
<1>1. /\ Commanded(n) /\ UNCHANGED <<file, loaded, running, script>> /\ spec[n] # Undeclared /\ Idle
      /\ Works \/ Costs(1)
      /\ \/ UNCHANGED run
         \/ run' = [NoRun EXCEPT !.verb = "restart", !.name = n, !.pc = "pick", !.queue = <<n>>]
  BY DEF RestartService, supervisor, Commanded
<1>2. UNCHANGED <<spec, lock>>
  BY <1>1 DEF Commanded, inputs
<1>3. run' \in Runs /\ Positions'
  <2>1. CASE UNCHANGED run
    BY <1>1, <2>1, IdleRun, IdlePositions, NoRunFacts
  <2>2. CASE run' = [NoRun EXCEPT !.verb = "restart", !.name = n, !.pc = "pick", !.queue = <<n>>]
    BY <1>1, <1>2, <2>2, StartedRun
  <2> QED BY <1>1, <2>1, <2>2
<1>4. failures' \in 0..MaxFailures
  BY <1>1, CostLemma
<1>5. Typed'
  BY <1>1, <1>3, <1>4, CommandedType DEF Typed
<1> QED BY <1>3, <1>5

\* What a stop does, when it does anything.
StopWay(n) == StartWay([spec[n] EXCEPT !.start = spec[n].stop])
StoppedUnit(n) ==
  CASE StopWay(n) = "brew" -> BrewId(spec[n].brew) [] StopWay(n) = "raw" -> RawId(n)
    [] OTHER -> UnitOf(n, spec[n])
LEMMA StopServiceParts ==
    ASSUME NEW n \in Names, StopService(n)
    PROVE  /\ Commanded(n) /\ UNCHANGED <<script, run>> /\ (Works \/ Costs(1))
           /\ \/ /\ StopWay(n) # "refused" /\ StoppedUnit(n) # NoId
                 /\ Put(StoppedUnit(n), file[StoppedUnit(n)],
                        IF StopWay(n) = "launchd" THEN Absent ELSE loaded[StoppedUnit(n)], Absent)
                 /\ Answer("stop", n, "ok")
              \/ /\ \E r \in {"refused", "failed"} : Answer("stop", n, r)
                 /\ UNCHANGED <<file, loaded, running>>
  BY DEF StopService, StopWay, StoppedUnit

LEMMA StopServiceInv == ASSUME Typed, Positions, NEW n \in Names, StopService(n) PROVE Typed' /\ Positions'
<1> DEFINE u == StoppedUnit(n)
<1>1. /\ Commanded(n) /\ UNCHANGED <<script, run>> /\ (Works \/ Costs(1))
      /\ \/ Put(u, file[u], IF StopWay(n) = "launchd" THEN Absent ELSE loaded[u], Absent)
         \/ UNCHANGED <<file, loaded, running>>
  BY StopServiceParts
<1>2. run' = NoRun
  BY <1>1, IdleRun DEF Commanded
<1>3. file' \in [UnitIds -> Definitions] /\ loaded' \in [UnitIds -> Definitions] /\ running' \in [UnitIds -> Definitions]
  <2>1. CASE UNCHANGED <<file, loaded, running>>
    BY <2>1, TypedUnits
  <2>2. CASE Put(u, file[u], IF StopWay(n) = "launchd" THEN Absent ELSE loaded[u], Absent)
    <3>1. Absent \in Definitions /\ (u \in UnitIds => file[u] \in Definitions /\ loaded[u] \in Definitions)
      BY TypedUnits, TypedInputs, ValueLemma DEF ValueVocab
    <3>2. PICK l : l = (IF StopWay(n) = "launchd" THEN Absent ELSE loaded[u])
      OBVIOUS
    <3>3. Put(u, file[u], l, Absent) /\ (u \in UnitIds => l \in Definitions)
      BY <2>2, <3>1, <3>2
    <3> HIDE DEF u
    <3> QED BY <3>1, <3>3, PutLemma
  <2> QED BY <1>1, <2>1, <2>2
<1>4. failures' \in 0..MaxFailures
  BY <1>1, CostLemma
<1>5. Typed'
  BY <1>1, <1>2, <1>3, <1>4, CommandedType, NoRunFacts
<1> QED BY <1>2, <1>5, IdlePositions

\* The end of a command, whatever ends it.
LEMMA EndType ==
    ASSUME Typed, run' = NoRun, UNCHANGED <<inputs, supervisor, installed, loose, quiet, runs, edits>>,
           lock' \in [Names -> Notes], \A n \in Names : NoteOk(n, lock'[n]),
           cut' \subseteq UnitIds, clean' \in BOOLEAN, failures' \in 0..MaxFailures
    PROVE  Typed'
<1>1. UNCHANGED <<platform, spec, template, today, file, loaded, running, script>>
  BY DEF inputs, supervisor
<1>2. Valid(spec)' /\ \A m \in Names : NoteOk(m, lock[m])'
  BY <1>1 DEF Typed, Valid, NoteOk
<1> QED BY <1>1, <1>2, NoRunFacts DEF Typed

LEMMA EndApplyInv == ASSUME Typed, Positions, EndApply PROVE Typed' /\ Positions'
<1>1. /\ run' = NoRun /\ UNCHANGED <<inputs, supervisor, installed, loose, quiet, runs, edits, failures>>
      /\ lock' = [n \in Names |-> SpecToLock(n, spec[n])] \/ lock' = lock
      /\ cut' \subseteq cut \cup UnitIds /\ clean' \in BOOLEAN
  BY DEF EndApply
<1>2. lock' \in [Names -> Notes] /\ \A n \in Names : NoteOk(n, lock'[n])
  <2>1. CASE lock' = lock
    BY <2>1 DEF Typed
  <2>2. CASE lock' = [n \in Names |-> SpecToLock(n, spec[n])]
    BY <2>2, TypedInputs, NoteLemma
  <2> QED BY <1>1, <2>1, <2>2
<1>3. cut' \subseteq UnitIds /\ failures' \in 0..MaxFailures
  BY <1>1 DEF Typed
<1> QED BY <1>1, <1>2, <1>3, EndType, IdlePositions

LEMMA KilledInv == ASSUME Typed, Positions, Killed PROVE Typed' /\ Positions'
<1>1. /\ run' = NoRun /\ UNCHANGED <<inputs, lock, supervisor, said, installed, loose, quiet, clean, runs, edits>>
      /\ cut' \subseteq cut \cup UnitIds /\ Costs(1)
  BY DEF Killed
<1>2. lock' \in [Names -> Notes] /\ \A n \in Names : NoteOk(n, lock'[n])
  BY <1>1 DEF Typed
<1>3. cut' \subseteq UnitIds /\ failures' \in 0..MaxFailures
  BY <1>1, CostLemma DEF Typed
<1> QED BY <1>1, <1>2, <1>3, EndType, IdlePositions DEF Typed

LEMMA RefusedInv == ASSUME Typed, Positions, Refused PROVE Typed' /\ Positions'
<1>1. /\ run' = NoRun /\ UNCHANGED <<inputs, lock, supervisor, installed, loose, cut, quiet, clean, runs, edits, failures>>
  BY DEF Refused, history
<1>2. lock' \in [Names -> Notes] /\ \A n \in Names : NoteOk(n, lock'[n])
  BY <1>1 DEF Typed
<1> QED BY <1>1, <1>2, EndType, IdlePositions DEF Typed

LEMMA EndCommandInv == ASSUME Typed, Positions, EndCommand PROVE Typed' /\ Positions'
<1>1. /\ run' = NoRun /\ UNCHANGED <<inputs, lock, supervisor, installed, loose, quiet, clean, runs, edits, failures>>
      /\ cut' = cut \cup (Forgotten \cap {GenId(run.name)}) /\ run.verb \in {"start", "restart"}
  BY DEF EndCommand
<1>2. lock' \in [Names -> Notes] /\ \A n \in Names : NoteOk(n, lock'[n])
  BY <1>1 DEF Typed
<1>3. cut' \subseteq UnitIds
  <2>1. run.name \in Names
    BY <1>1 DEF Positions, Placed, Declared
  <2> QED BY <1>1, <2>1, IdFacts DEF Typed
<1> QED BY <1>1, <1>2, <1>3, EndType, IdlePositions DEF Typed

LEMMA AroundInv ==
    ASSUME Typed, Positions, Around, spec' \in [Names -> Forms], Valid(spec'),
           template' \in [Sources -> Renderings], today' \in Nat,
           loaded' \in [UnitIds -> Definitions], running' \in [UnitIds -> Definitions], loose' \subseteq UnitIds
    PROVE  Typed' /\ Positions'
<1>1. /\ Idle /\ UNCHANGED <<platform, lock, file, script, run, installed, cut, clean, runs, failures>>
      /\ edits < MaxEdits /\ edits' = edits + 1 /\ quiet' = FALSE
  BY DEF Around
<1>2. run' = NoRun
  BY <1>1, IdleRun
<1>3. edits' \in 0..MaxEdits
  BY <1>1, CountLemma
<1>4. \A m \in Names : NoteOk(m, lock[m])'
  BY <1>1 DEF Typed, NoteOk
<1>5. Valid(spec)'
  BY DEF Valid
<1>6. Typed'
  BY <1>1, <1>3, <1>4, <1>5 DEF Typed
<1> QED BY <1>2, <1>6, IdlePositions

\* What happens around genv while no command runs.
LEMMA EnvironmentInv == ASSUME Typed, Positions, Environment PROVE Typed' /\ Positions'
<1>0. Absent \in Definitions
  BY TypedInputs, ValueLemma DEF ValueVocab
<1>1. ASSUME NEW n \in Names, NEW d \in Declarations \cup {Undeclared}, EditSpec(n, d) PROVE Typed' /\ Positions'
  <2>1. /\ Around /\ spec' = [spec EXCEPT ![n] = d] /\ Valid(spec') /\ UNCHANGED <<template, today, loaded, running>>
        /\ loose' \subseteq UnitIds
    BY <1>1 DEF EditSpec, Loosened
  <2>2. spec' \in [Names -> Forms]
    BY <2>1, UndeclaredForms, DeclarationsAssumption DEF Typed
  <2> QED BY <2>1, <2>2, AroundInv DEF Typed
<1>2. ASSUME NEW s \in Sources, NEW r \in Rendered, EditTemplate(s, r) PROVE Typed' /\ Positions'
  <2>1. /\ Around /\ template' = [template EXCEPT ![s] = r] /\ UNCHANGED <<spec, today, loaded, running>>
        /\ loose' \subseteq UnitIds
    BY <1>2 DEF EditTemplate, Loosened
  <2>2. template' \in [Sources -> Renderings] 
    BY <2>1, RenderingsAssumption DEF Typed
  <2>3. Valid(spec')
    BY <2>1 DEF Typed
  <2> QED BY <2>1, <2>2, <2>3, AroundInv DEF Typed
<1>3. ASSUME NewDay PROVE Typed' /\ Positions'
  <2>1. Around /\ today' = today + 1 /\ UNCHANGED <<spec, template, loaded, running, loose>>
    BY <1>3 DEF NewDay
  <2>2. today' \in Nat
    <3>1. today \in Nat
      BY DEF Typed
    <3> QED BY <2>1, <3>1
  <2>3. Valid(spec')
    BY <2>1 DEF Typed
  <2> QED BY <2>1, <2>2, <2>3, AroundInv DEF Typed
<1>4. ASSUME NEW u \in UnitIds, Ends(u) \/ Unregistered(u) PROVE Typed' /\ Positions'
  <2>1. /\ Around /\ running' = [running EXCEPT ![u] = Absent] /\ UNCHANGED <<spec, template, today, loose>>
        /\ loaded' \in {loaded, [loaded EXCEPT ![u] = Absent]}
    BY <1>4 DEF Ends, Unregistered
  <2>2. running' \in [UnitIds -> Definitions] /\ loaded' \in [UnitIds -> Definitions]
    BY <1>0, <2>1, TypedUnits
  <2>3. Valid(spec')
    BY <2>1 DEF Typed
  <2> QED BY <2>1, <2>2, <2>3, AroundInv DEF Typed
<1> QED BY <1>1, <1>2, <1>3, <1>4 DEF Environment

\* The first two conjuncts of the invariant, from the beginning and by every step.
LEMMA TypedInit == ServicesInit => Typed /\ Positions
<1> SUFFICES ASSUME ServicesInit PROVE Typed /\ Positions
  OBVIOUS
<1>1. Absent \in Definitions
  <2>1. <<>> \in Seq(Words) /\ 0 \in Nat
    OBVIOUS
  <2> QED BY <2>1, TextsAssumption DEF Absent, Definitions
<1>2. /\ file \in [UnitIds -> Definitions] /\ loaded \in [UnitIds -> Definitions] /\ running \in [UnitIds -> Definitions]
      /\ script \in [Names -> Texts] /\ installed \in [UnitIds -> Names \cup {""}]
  BY <1>1, TextsAssumption DEF ServicesInit
<1>3. lock \in [Names -> Notes] /\ \A n \in Names : NoteOk(n, lock[n])
  BY UnlockedNotes DEF ServicesInit
<1>4. runs \in 0..MaxRuns /\ failures \in 0..MaxFailures /\ edits \in 0..MaxEdits
  <2>1. runs = 0 /\ failures = 0 /\ edits = 0
    BY DEF ServicesInit
  <2>2. MaxRuns \in Nat /\ MaxFailures \in Nat /\ MaxEdits \in Nat
    BY MaximaAssumption
  <2> QED BY <2>1, <2>2
<1>5. /\ platform \in Platforms /\ spec \in [Names -> Forms] /\ Valid(spec)
      /\ template \in [Sources -> Renderings] /\ today \in Nat
  BY DeclarationsAssumption, RenderingsAssumption DEF ServicesInit
<1>6. run = NoRun /\ cut = {} /\ loose = {} /\ quiet = TRUE /\ clean = FALSE
  BY DEF ServicesInit
<1>7. Typed
  BY <1>2, <1>3, <1>4, <1>5, <1>6, NoRunFacts DEF Typed
<1>8. Placed
  BY <1>6, NoRunFacts DEF Placed, Idle
<1>9. Positions
  BY <1>6, <1>8, NoRunFacts DEF Positions, AtWritten, AtOut, AtEnabled, AtScript, AtUnloaded
<1> QED BY <1>7, <1>9

LEMMA TypedStep == ASSUME Typed, Positions, [ServicesNext]_servicesVars PROVE Typed' /\ Positions'
<1>1. CASE CommandStep
  BY <1>1, CommandStepTurn, CommandStepPositions DEF Turn
<1>2. CASE UNCHANGED servicesVars
  <2>1. UNCHANGED <<platform, spec, template, today, lock, file, loaded, running, script, run, installed, cut, loose,
                    quiet, clean, runs, failures, edits>>
    BY <1>2 DEF servicesVars, inputs, supervisor, history
  <2>2. Typed'
    <3>1. Valid(spec)' /\ \A m \in Names : NoteOk(m, lock[m])'
      BY <2>1 DEF Typed, Valid, NoteOk
    <3> QED BY <2>1, <3>1 DEF Typed
  <2>3. Kept
    BY <1>2 DEF servicesVars, Kept
  <2>4. /\ Subject' = Subject /\ D' = D /\ (Removing' <=> Removing) /\ Way' = Way
        /\ Now' = Now /\ Gone' = Gone /\ Wanted' = Wanted /\ (Renderable' <=> Renderable)
        /\ TaskXml(D.task)' = TaskXml(D.task) /\ (Systemd' <=> Systemd) /\ Declared' = Declared /\ (Idle' <=> Idle)
    BY <2>1, <2>3, GoesNames, KeptNames DEF Idle
  <2>5. Placed'
    BY <2>1, <2>4 DEF Positions, Placed
  <2>6. AtWritten' /\ AtOut' /\ AtEnabled'
    BY <2>1, <2>4 DEF Positions, AtWritten, AtOut, AtEnabled
  <2>7. AtScript' /\ AtUnloaded'
    BY <2>1, <2>4 DEF Positions, AtScript, AtUnloaded
  <2> QED BY <2>2, <2>5, <2>6, <2>7 DEF Positions
<1>3. CASE Environment
  BY <1>3, EnvironmentInv
<1>4. CASE \E n \in Names : StartService(n) \/ RestartService(n) \/ StopService(n)
  BY <1>4, StartServiceInv, RestartServiceInv, StopServiceInv
<1>5. CASE StartApply \/ EndApply \/ Killed \/ Refused \/ EndCommand
  BY <1>5, StartApplyInv, EndApplyInv, KilledInv, RefusedInv, EndCommandInv
<1> QED BY <1>1, <1>2, <1>3, <1>4, <1>5 DEF ServicesNext, Applies, Commands, CommandStep

(***************************************************************************)
(* What each step of a command does: where it leaves the run, and what     *)
(* becomes of the unit it touches.                                         *)
(***************************************************************************)
\* The turn of the service is over; F is the service when it failed.
Ended(F) ==
  /\ run'.pc = "pick" /\ run'.verb = run.verb /\ run'.name = run.name /\ run'.again = run.again
  /\ run'.failed = run.failed \cup F
  /\ ToSet(run.queue) = {Subject} \cup ToSet(run'.queue)
  /\ run.verb = "apply" => Subject \notin ToSet(run'.queue)
  /\ run.verb # "apply" => run'.queue = <<>>
\* The service keeps its turn.
On(st, changed, was) ==
  /\ run'.pc = st /\ run'.changed = changed /\ run'.was = was
  /\ run'.verb = run.verb /\ run'.name = run.name /\ run'.again = run.again
  /\ run'.failed = run.failed /\ run'.queue = run.queue
  /\ Subject' = Subject /\ D' = D /\ Way' = Way /\ Now' = Now
Becomes(f, l, r) == file'[Touched] = f /\ loaded'[Touched] = l /\ running'[Touched] = r
Unaltered == UNCHANGED <<file, loaded, running>>

LEMMA EndedLemma ==
    ASSUME Typed, Placed, Kept, run.queue # <<>>, ~Idle
    PROVE  (Done => Ended({})) /\ (Fails => Ended({Subject}))
<1>1. Done => Ended({})
  <2> SUFFICES ASSUME Done PROVE Ended({})
    OBVIOUS
  <2>1. Passed({})
    BY DEF Done
  <2>2. {} \in SUBSET Names
    OBVIOUS
  <2> QED BY <2>1, <2>2, PassedLemma DEF Ended
<1>2. Fails => Ended({Subject})
  <2> SUFFICES ASSUME Fails PROVE Ended({Subject})
    OBVIOUS
  <2>1. Passed({Subject})
    BY DEF Fails
  <2>2. {Subject} \in SUBSET Names
    BY SubjectLemma DEF SubjectWords
  <2> QED BY <2>1, <2>2, PassedLemma DEF Ended
<1> QED BY <1>1, <1>2

LEMMA OnLemma ==
    ASSUME Typed, Placed, Kept, run.queue # <<>>, ~Idle,
           NEW st \in Steps \ {"idle", "pick"}, NEW c \in BOOLEAN, NEW w \in BOOLEAN, Goes(st, c, w)
    PROVE  On(st, c, w)
<1>1. /\ run'.pc = st /\ run'.changed = c /\ run'.was = w
      /\ run'.verb = run.verb /\ run'.name = run.name /\ run'.queue = run.queue
      /\ run'.failed = run.failed /\ run'.again = run.again
  BY GoesLemma
<1> QED BY <1>1, GoesNames DEF On

LEMMA BecomesLemma ==
    ASSUME Typed, Touched \in UnitIds, NEW f, NEW l, NEW r, Put(Touched, f, l, r)
    PROVE  Becomes(f, l, r)
  BY TypedUnits DEF Put, Becomes

\* The steps, one by one.
LEMMA SkipEffect ==
    ASSUME Typed, Positions, Skip
    PROVE  /\ run.pc = "pick" /\ run.verb = "apply" /\ ~Removing /\ Kind(Subject) = "ok" /\ ~Supervised(D)
           /\ Ended({}) /\ Unaltered /\ UNCHANGED <<script, installed, cut, loose>>
<1>1. /\ At("pick") /\ run.verb = "apply" /\ Kind(Subject) = "ok" /\ ~Supervised(D) /\ Done
      /\ Quietly /\ UNCHANGED supervisor
  BY DEF Skip
<1>2. ~Idle /\ run.queue # <<>> /\ Placed /\ SubjectWords /\ run.pc = "pick"
  BY <1>1, PickFacts
<1>3. Kept /\ UNCHANGED <<installed, cut, loose>>
  BY <1>1, FixedLemma DEF Quietly
<1>4. ~Removing
  BY <1>1, <1>2 DEF SubjectWords, Kind, Declared, Removing, D
<1> QED BY <1>1, <1>2, <1>3, <1>4, EndedLemma DEF Unaltered, supervisor

LEMMA ElsewhereEffect ==
    ASSUME Typed, Positions, Elsewhere
    PROVE  /\ run.pc = "pick" /\ run.verb = "apply" /\ Way = "elsewhere"
           /\ Ended({}) /\ Unaltered /\ UNCHANGED <<script, installed, cut, loose>>
<1>1. At("pick") /\ Way = "elsewhere" /\ Done /\ Quietly /\ UNCHANGED supervisor
  BY DEF Elsewhere, Due
<1>2. ~Idle /\ run.queue # <<>> /\ Placed /\ SubjectWords /\ run.pc = "pick"
  BY <1>1, PickFacts
<1>3. Kept /\ UNCHANGED <<installed, cut, loose>>
  BY <1>1, FixedLemma DEF Quietly
<1>4. run.verb = "apply"
  BY <1>1, <1>2 DEF SubjectWords
<1> QED BY <1>1, <1>2, <1>3, <1>4, EndedLemma DEF Unaltered, supervisor

LEMMA StartsEffect ==
    ASSUME Typed, Positions, Starts
    PROVE  /\ Due /\ run.pc = "pick" /\ ~Removing /\ Way \in {"brew", "raw"} /\ run.verb \in {"apply", "start"}
           /\ Touched \in UnitIds /\ Touched[1] \in {"brew", "raw"}
           /\ UNCHANGED <<script, cut, loose>>
           /\ \/ Ended({}) /\ \E r \in StartOf(Command(D)) : Becomes(file[Touched], loaded[Touched], r)
              \/ Ended({Subject}) /\ Unaltered
           /\ Touched # Now => installed' = installed
<1> DEFINE u == IF Way = "brew" THEN BrewId(D.brew) ELSE RawId(Subject)
<1>1. /\ Due /\ At("pick") /\ ~Removing /\ Way \in {"brew", "raw"} /\ run.verb \in {"apply", "start"}
      /\ Fixed /\ UNCHANGED <<script, cut, loose>>
      /\ \/ (\E r \in StartOf(Command(D)) : Put(u, file[u], loaded[u], r)) /\ Installs(u) /\ Done
         \/ Fails /\ UNCHANGED <<file, loaded, running, installed>>
  BY DEF Starts, Due
<1>2. ~Idle /\ run.queue # <<>> /\ Placed /\ SubjectWords /\ NowWords /\ run.pc = "pick" /\ Kept /\ Subject \in Names
  BY <1>1, PickFacts, FixedLemma
<1>3. u = Touched
  BY <1>1, <1>2 DEF Touched, CommandWays, NowWords
<1> HIDE DEF u
<1>4. Touched \in UnitIds /\ Touched[1] \in {"brew", "raw"}
  BY <1>1, <1>2, <1>3, IdFacts DEF u, NowWords
<1>5. \/ /\ Ended({}) /\ \E r \in StartOf(Command(D)) : Becomes(file[Touched], loaded[Touched], r)
         /\ Installs(Touched)
      \/ Ended({Subject}) /\ Unaltered /\ UNCHANGED installed
  BY <1>1, <1>2, <1>3, <1>4, EndedLemma, BecomesLemma DEF Unaltered
<1>6. Touched # Now => installed' = installed
  BY <1>5 DEF Installs, Now
<1> QED BY <1>1, <1>2, <1>4, <1>5, <1>6

LEMMA WriteUnitEffect ==
    ASSUME Typed, Positions, WriteUnit
    PROVE  /\ Due /\ run.pc = "pick" /\ ~Removing /\ Way \in WritingWays /\ run.verb \in {"apply", "start"}
           /\ UNCHANGED <<loaded, running, script, cut, loose>>
           /\ \/ /\ Touched \in UnitIds /\ Touched = Now /\ On("written", Templated(D) => file[Touched] # Wanted, FALSE)
                 /\ Becomes(Wanted, loaded[Touched], running[Touched]) /\ installed'[Touched] = Subject
              \/ Ended({Subject}) /\ Unaltered /\ UNCHANGED installed
<1>1. /\ Due /\ At("pick") /\ ~Removing /\ Way \in WritingWays /\ run.verb \in {"apply", "start"}
      /\ Fixed /\ UNCHANGED <<loaded, running, script, cut, loose>>
      /\ \/ /\ Renderable /\ file' = [file EXCEPT ![Now] = Wanted] /\ Installs(Now)
            /\ Goes("written", Templated(D) => file[Now] # Wanted, FALSE)
         \/ Fails /\ UNCHANGED <<file, installed>>
  BY DEF WriteUnit, Writing, Due, WritingWays, Now
<1>2. ~Idle /\ run.queue # <<>> /\ Placed /\ SubjectWords /\ NowWords /\ run.pc = "pick" /\ Kept /\ Subject \in Names
  BY <1>1, PickFacts, FixedLemma
<1>3. CASE Fails /\ UNCHANGED <<file, installed>>
  BY <1>1, <1>2, <1>3, EndedLemma DEF Unaltered
<1>4. CASE /\ Renderable /\ file' = [file EXCEPT ![Now] = Wanted] /\ Installs(Now)
           /\ Goes("written", Templated(D) => file[Now] # Wanted, FALSE)
  <2>1. Touched = Now
    BY <1>1 DEF Touched, CommandWays, WritingWays
  <2>2. Touched \in UnitIds
    BY <1>1, <1>2, <1>4, <2>1 DEF NowWords
  <2>3. PICK c \in BOOLEAN : c = (Templated(D) => file[Touched] # Wanted)
    OBVIOUS
  <2>4. On("written", c, FALSE)
    BY <1>2, <1>4, <2>1, <2>3, OnLemma DEF Steps
  <2>5. Becomes(Wanted, loaded[Touched], running[Touched])
    BY <1>1, <1>4, <2>1, <2>2, TypedUnits DEF Becomes
  <2>6. installed'[Touched] = Subject
    BY <1>2, <1>4, <2>1, <2>2, InstallsLemma
  <2> QED BY <1>1, <1>2, <2>1, <2>2, <2>3, <2>4, <2>5, <2>6
<1> QED BY <1>1, <1>3, <1>4

LEMMA BootoutEffect ==
    ASSUME Typed, Positions, Bootout
    PROVE  /\ run.pc = "written" /\ Way \in {"launchd", "generated launchd"} /\ Touched = Now /\ Touched \in UnitIds
           /\ UNCHANGED <<script, installed, cut, loose>>
           /\ \/ Way = "launchd" /\ ~run.changed /\ loaded[Touched] # Absent /\ Ended({}) /\ Unaltered
              \/ /\ \E w \in BOOLEAN : On("out", run.changed, w)
                 /\ \/ (Way = "generated launchd" \/ run.changed) /\ Becomes(file[Touched], Absent, Absent)
                    \/ Unaltered
                 /\ loaded[Touched] = Absent => Unaltered
<1>1. /\ At("written") /\ Way \in {"launchd", "generated launchd"} /\ Quietly /\ UNCHANGED script
      /\ \/ Way = "launchd" /\ ~run.changed /\ loaded[Now] # Absent /\ Done /\ UNCHANGED supervisor
         \/ /\ \E w \in BOOLEAN : Goes("out", run.changed, w)
            /\ \/ (Way = "generated launchd" \/ run.changed) /\ Put(Now, file[Now], Absent, Absent)
               \/ UNCHANGED supervisor
            /\ loaded[Now] = Absent => UNCHANGED supervisor
  BY DEF Bootout, supervisor
<1>2. Kept /\ UNCHANGED <<installed, cut, loose>>
  BY <1>1, FixedLemma DEF Quietly
<1>3. run.pc = "written" /\ ~Idle /\ run.queue # <<>> /\ Placed /\ AtUnit
  BY <1>1, BusyFacts DEF At
<1>4. Touched = Now /\ Touched \in UnitIds /\ run.changed \in BOOLEAN
  BY <1>3, TypedUnits DEF AtUnit
<1>5. CASE Way = "launchd" /\ ~run.changed /\ loaded[Now] # Absent /\ Done /\ UNCHANGED supervisor
  BY <1>1, <1>2, <1>3, <1>4, <1>5, EndedLemma DEF supervisor, Unaltered
<1>6. CASE /\ \E w \in BOOLEAN : Goes("out", run.changed, w)
           /\ \/ (Way = "generated launchd" \/ run.changed) /\ Put(Now, file[Now], Absent, Absent)
              \/ UNCHANGED supervisor
           /\ loaded[Now] = Absent => UNCHANGED supervisor
  <2>1. PICK w \in BOOLEAN : Goes("out", run.changed, w)
    BY <1>6
  <2>2. On("out", run.changed, w)
    BY <1>2, <1>3, <1>4, <2>1, OnLemma DEF Steps
  <2>3. \/ (Way = "generated launchd" \/ run.changed) /\ Becomes(file[Touched], Absent, Absent)
        \/ Unaltered
    BY <1>4, <1>6, BecomesLemma DEF supervisor, Unaltered
  <2>4. loaded[Touched] = Absent => Unaltered
    BY <1>4, <1>6 DEF supervisor, Unaltered
  <2> QED BY <1>1, <1>2, <1>3, <1>4, <1>6, <2>2, <2>3, <2>4
<1> QED BY <1>1, <1>5, <1>6

LEMMA BootstrapEffect ==
    ASSUME Typed, Positions, Bootstrap
    PROVE  /\ run.pc = "out" /\ Touched = Now /\ Touched \in UnitIds
           /\ UNCHANGED <<script, installed, loose>>
           /\ \/ /\ Ended({}) /\ loaded[Touched] = Absent
                 /\ \E r \in StartOf(file[Touched]) : Becomes(file[Touched], file[Touched], r)
              \/ Ended({Subject}) /\ Unaltered /\ cut \subseteq cut' /\ (Behind(Touched) => Touched \in cut')
<1>1. /\ At("out") /\ Fixed /\ UNCHANGED <<script, installed, loose>>
      /\ \/ /\ loaded[Now] = Absent /\ Done
            /\ \E r \in StartOf(file[Now]) : Put(Now, file[Now], file[Now], r)
         \/ LeftBehind /\ Fails /\ UNCHANGED <<file, loaded, running>>
  BY DEF Bootstrap
<1>2. run.pc = "out" /\ ~Idle /\ run.queue # <<>> /\ Placed /\ AtUnit /\ Kept
  BY <1>1, BusyFacts, FixedLemma DEF At
<1>3. Touched = Now /\ Touched \in UnitIds
  BY <1>2 DEF AtUnit
<1>4. LeftBehind => cut \subseteq cut' /\ (Behind(Touched) => Touched \in cut')
  BY <1>3, IdFacts DEF LeftBehind
<1> QED BY <1>1, <1>2, <1>3, <1>4, EndedLemma, BecomesLemma DEF Unaltered

LEMMA EnableNowEffect ==
    ASSUME Typed, Positions, EnableNow
    PROVE  /\ run.pc = "written" /\ Way \in {"systemd", "generated systemd"} /\ Touched = Now /\ Touched \in UnitIds
           /\ UNCHANGED <<file, script, installed, loose>> /\ cut \subseteq cut'
           /\ \/ Ended({Subject}) /\ (loaded'[Touched] # file[Touched] \/ Behind(Touched) => Touched \in cut')
              \/ /\ \E w \in BOOLEAN :
                      /\ On("enabled", run.changed, w)
                      /\ \/ loaded'[Touched] = file[Touched] /\ w = (running[Touched] # Absent)
                         \/ loaded'[Touched] # file[Touched] \/ Behind(Touched) => Touched \in cut'
                 /\ loaded'[Touched] # Absent \/ file[Touched] = Absent
           /\ \/ running'[Touched] = running[Touched]
              \/ running[Touched] = Absent /\ running'[Touched] \in StartOf(loaded'[Touched])
<1>1. PICK asks \in BOOLEAN, reloads \in BOOLEAN, enables \in BOOLEAN :
        /\ loaded' = IF enables THEN Held1(reloads) ELSE Known1(reloads)
        /\ \E r \in IF enables /\ running[Now] = Absent THEN StartOf(Held1(reloads)[Now]) ELSE {running[Now]} :
             running' = [running EXCEPT ![Now] = r]
        /\ IF ~enables THEN Fails ELSE Goes("enabled", run.changed, running[Now] # Absent /\ asks)
        /\ IF asks /\ reloads /\ enables THEN UNCHANGED cut
           ELSE cut' = cut \cup {u \in {Now} : loaded'[u] # file[u] \/ Behind(u)}
  BY EnableNowParts
<1>2. At("written") /\ Way \in {"systemd", "generated systemd"} /\ Fixed /\ UNCHANGED <<file, script, installed, loose>>
  BY DEF EnableNow
<1>3. run.pc = "written" /\ ~Idle /\ run.queue # <<>> /\ Placed /\ AtUnit /\ Kept
  BY <1>2, BusyFacts, FixedLemma DEF At
<1>4. Touched = Now /\ Touched \in UnitIds /\ run.changed \in BOOLEAN /\ Now \in Owns \cup {GenId(Subject)}
  BY <1>3, TypedUnits DEF AtUnit
<1> DEFINE known == Known1(reloads)
           held == Held1(reloads)
<1>5. Reloaded[Now] = file[Now]
  BY <1>4, IdFacts DEF Reloaded
<1>6. held[Now] = IF known[Now] = Absent THEN file[Now] ELSE known[Now]
  <2>1. DOMAIN Reloaded = UnitIds /\ DOMAIN loaded = UnitIds
    BY TypedUnits DEF Reloaded
  <2>2. DOMAIN known = UnitIds
    BY <2>1 DEF Known1
  <2>3. held = IF known[Now] = Absent THEN [known EXCEPT ![Now] = file[Now]] ELSE known
    BY DEF Held1
  <2> HIDE DEF known, held
  <2> QED BY <1>4, <2>2, <2>3
<1>7. /\ loaded' = IF enables THEN held ELSE known
      /\ \E r \in IF enables /\ running[Now] = Absent THEN StartOf(held[Now]) ELSE {running[Now]} :
           running' = [running EXCEPT ![Now] = r]
      /\ IF ~enables THEN Fails ELSE Goes("enabled", run.changed, running[Now] # Absent /\ asks)
      /\ IF asks /\ reloads /\ enables THEN UNCHANGED cut
         ELSE cut' = cut \cup {u \in {Now} : loaded'[u] # file[u] \/ Behind(u)}
  BY <1>1
<1>8. reloads => known[Now] = file[Now]
  BY <1>5 DEF Known1
<1> HIDE DEF known, held
<1>9. reloads /\ enables => loaded'[Now] = file[Now]
  BY <1>6, <1>7, <1>8
<1>10. running'[Now] = running[Now] \/ (running[Now] = Absent /\ running'[Now] \in StartOf(loaded'[Now]))
  <2>1. PICK r \in IF enables /\ running[Now] = Absent THEN StartOf(held[Now]) ELSE {running[Now]} :
          running' = [running EXCEPT ![Now] = r]
    BY <1>7
  <2>2. running'[Now] = r
    BY <1>4, <2>1, TypedUnits
  <2>3. enables => loaded'[Now] = held[Now]
    BY <1>7
  <2> QED BY <2>1, <2>2, <2>3
<1>11. /\ cut \subseteq cut'
       /\ ~(asks /\ reloads /\ enables) => (loaded'[Now] # file[Now] \/ Behind(Now) => Now \in cut')
  BY <1>7
<1>12. \/ ~enables /\ Ended({Subject})
       \/ \E w \in BOOLEAN : enables /\ On("enabled", run.changed, w) /\ (asks => w = (running[Now] # Absent))
  <2>1. PICK w \in BOOLEAN : w = (running[Now] # Absent /\ asks)
    OBVIOUS
  <2>2. CASE ~enables
    BY <1>3, <1>7, <2>2, EndedLemma
  <2>3. CASE enables
    <3>1. Goes("enabled", run.changed, w)
      BY <1>7, <2>1, <2>3
    <3>2. On("enabled", run.changed, w)
      BY <1>3, <1>4, <3>1, OnLemma DEF Steps
    <3> QED BY <2>1, <2>3, <3>2
  <2> QED BY <2>2, <2>3
<1>13. enables => loaded'[Now] # Absent \/ file[Now] = Absent
  BY <1>6, <1>7
<1>14. \/ ~enables /\ Ended({Subject}) /\ (loaded'[Now] # file[Now] \/ Behind(Now) => Now \in cut')
       \/ /\ \E w \in BOOLEAN :
               /\ On("enabled", run.changed, w)
               /\ \/ loaded'[Now] = file[Now] /\ w = (running[Now] # Absent)
                  \/ loaded'[Now] # file[Now] \/ Behind(Now) => Now \in cut'
          /\ loaded'[Now] # Absent \/ file[Now] = Absent
  <2>1. CASE ~enables /\ Ended({Subject})
    BY <1>11, <2>1
  <2>2. ASSUME NEW w \in BOOLEAN, enables, On("enabled", run.changed, w), asks => w = (running[Now] # Absent)
        PROVE  /\ loaded'[Now] # Absent \/ file[Now] = Absent
               /\ \/ loaded'[Now] = file[Now] /\ w = (running[Now] # Absent)
                  \/ loaded'[Now] # file[Now] \/ Behind(Now) => Now \in cut'
    BY <1>9, <1>11, <1>13, <2>2
  <2> QED BY <1>12, <2>1, <2>2
<1> QED BY <1>2, <1>3, <1>4, <1>10, <1>11, <1>14

LEMMA RestartChangedEffect ==
    ASSUME Typed, Positions, RestartChanged
    PROVE  /\ run.pc = "enabled" /\ Touched = Now /\ Touched \in UnitIds /\ Ended({})
           /\ UNCHANGED <<file, loaded, script, installed, loose>>
           /\ \/ /\ Way = "systemd" /\ run.changed /\ run.was
                 /\ \/ running'[Touched] \in StartOf(loaded[Touched]) /\ (loaded[Touched] = file[Touched] \/ UNCHANGED cut)
                    \/ running'[Touched] \in {running[Touched], Absent} /\ Touched \in cut'
              \/ ~(Way = "systemd" /\ run.changed /\ run.was) /\ UNCHANGED <<running, cut>>
<1>1. /\ At("enabled") /\ Done /\ Fixed /\ UNCHANGED <<file, loaded, script, installed, loose>>
      /\ \/ /\ Way = "systemd" /\ run.changed /\ run.was
            /\ \/ /\ \E r \in StartOf(loaded[Now]) : running' = [running EXCEPT ![Now] = r]
                  /\ loaded[Now] = file[Now] \/ UNCHANGED cut
               \/ /\ running' \in {running, [running EXCEPT ![Now] = Absent]}
                  /\ cut' = cut \cup {Now}
         \/ ~(Way = "systemd" /\ run.changed /\ run.was) /\ UNCHANGED <<running, cut>>
  BY DEF RestartChanged
<1>2. run.pc = "enabled" /\ ~Idle /\ run.queue # <<>> /\ Placed /\ AtUnit /\ Kept
  BY <1>1, BusyFacts, FixedLemma DEF At
<1>3. Touched = Now /\ Touched \in UnitIds
  BY <1>2 DEF AtUnit
<1>4. \A x : running' = [running EXCEPT ![Now] = x] => running'[Now] = x
  BY <1>3, TypedUnits
<1>5. Ended({})
  BY <1>1, <1>2, EndedLemma
<1> QED BY <1>1, <1>2, <1>3, <1>4, <1>5

LEMMA WriteScriptEffect ==
    ASSUME Typed, Positions, WriteScript
    PROVE  /\ Due /\ run.pc = "pick" /\ ~Removing /\ Way = "task" /\ run.verb = "apply"
           /\ Touched = Now /\ Touched \in UnitIds /\ Touched = GenId(Subject)
           /\ Unaltered /\ UNCHANGED <<cut, loose>>
           /\ \/ /\ script'[Subject] = D.task.action
                 /\ On("script", script[Subject] # D.task.action \/ file[Touched] # TaskXml(D.task), FALSE)
                 /\ installed'[Touched] = Subject
              \/ script[Subject] # D.task.action /\ Ended({Subject}) /\ UNCHANGED <<script, installed>>
<1>1. /\ Due /\ At("pick") /\ ~Removing /\ Way = "task" /\ run.verb = "apply" /\ Fixed
      /\ UNCHANGED <<file, loaded, running, cut, loose>>
      /\ \/ /\ script' = [script EXCEPT ![Subject] = D.task.action]
            /\ Goes("script", script[Subject] # D.task.action \/ file[GenId(Subject)] # TaskXml(D.task), FALSE)
            /\ Installs(GenId(Subject))
         \/ script[Subject] # D.task.action /\ Fails /\ UNCHANGED <<script, installed>>
  BY DEF WriteScript, Due
<1>2. run.pc = "pick" /\ ~Idle /\ run.queue # <<>> /\ Placed /\ SubjectWords /\ NowWords /\ Kept /\ Subject \in Names
  BY <1>1, PickFacts, FixedLemma
<1>3. Touched = Now /\ Touched \in UnitIds /\ Touched = GenId(Subject)
  BY <1>1, <1>2 DEF Touched, CommandWays, NowWords
<1>4. CASE /\ script' = [script EXCEPT ![Subject] = D.task.action]
           /\ Goes("script", script[Subject] # D.task.action \/ file[GenId(Subject)] # TaskXml(D.task), FALSE)
           /\ Installs(GenId(Subject))
  <2>1. PICK c \in BOOLEAN : c = (script[Subject] # D.task.action \/ file[Touched] # TaskXml(D.task))
    OBVIOUS
  <2>2. On("script", c, FALSE)
    BY <1>2, <1>3, <1>4, <2>1, OnLemma DEF Steps
  <2>3. script'[Subject] = D.task.action
    BY <1>2, <1>4, TypedUnits
  <2>4. installed'[Touched] = Subject
    BY <1>2, <1>3, <1>4, InstallsLemma
  <2> QED BY <1>1, <1>2, <1>3, <2>1, <2>2, <2>3, <2>4 DEF Unaltered
<1>5. CASE script[Subject] # D.task.action /\ Fails /\ UNCHANGED <<script, installed>>
  BY <1>1, <1>2, <1>3, <1>5, EndedLemma DEF Unaltered
<1> QED BY <1>1, <1>4, <1>5

LEMMA WriteXmlEffect ==
    ASSUME Typed, Positions, WriteXml
    PROVE  /\ run.pc = "script" /\ Touched = Now /\ Touched \in UnitIds
           /\ UNCHANGED <<loaded, running, script, installed, cut, loose>>
           /\ \/ file'[Touched] = TaskXml(D.task) /\ On("written", run.changed, FALSE)
              \/ Ended({Subject}) /\ Unaltered
<1>1. /\ At("script") /\ Fixed /\ UNCHANGED <<loaded, running, script, installed, cut, loose>>
      /\ \/ file' = [file EXCEPT ![Now] = TaskXml(D.task)] /\ Goes("written", run.changed, FALSE)
         \/ Fails /\ UNCHANGED file
  BY DEF WriteXml, Quietly
<1>2. run.pc = "script" /\ ~Idle /\ run.queue # <<>> /\ Placed /\ AtUnit /\ Kept
  BY <1>1, BusyFacts, FixedLemma DEF At
<1>3. Touched = Now /\ Touched \in UnitIds /\ run.changed \in BOOLEAN
  BY <1>2, TypedUnits DEF AtUnit
<1>4. CASE file' = [file EXCEPT ![Now] = TaskXml(D.task)] /\ Goes("written", run.changed, FALSE)
  <2>1. On("written", run.changed, FALSE)
    BY <1>2, <1>3, <1>4, OnLemma DEF Steps
  <2>2. file'[Touched] = TaskXml(D.task)
    BY <1>3, <1>4, TypedUnits
  <2> QED BY <1>1, <1>2, <1>3, <2>1, <2>2
<1>5. CASE Fails /\ UNCHANGED file
  BY <1>1, <1>2, <1>3, <1>5, EndedLemma DEF Unaltered
<1> QED BY <1>1, <1>4, <1>5

LEMMA RegisterEffect ==
    ASSUME Typed, Positions, Register
    PROVE  /\ run.pc = "written" /\ Way = "task" /\ Touched = Now /\ Touched \in UnitIds
           /\ UNCHANGED <<file, running, script, installed, loose>>
           /\ \/ /\ run.changed \/ loaded[Touched] = Absent
                 /\ loaded'[Touched] = file[Touched] /\ Ended({})
              \/ UNCHANGED loaded /\ Ended({Subject}) /\ cut \subseteq cut' /\ (Behind(Touched) => Touched \in cut')
              \/ /\ ~run.changed /\ UNCHANGED loaded /\ Ended({}) /\ cut \subseteq cut'
                 /\ loaded[Touched] = Absent => Touched \in cut'
<1>1. /\ At("written") /\ Way = "task" /\ Fixed /\ UNCHANGED <<file, running, script, installed, loose>>
      /\ \/ /\ run.changed \/ loaded[Now] = Absent
            /\ loaded' = [loaded EXCEPT ![Now] = file[Now]] /\ Done
         \/ LeftBehind /\ Fails /\ UNCHANGED loaded
         \/ /\ ~run.changed /\ Done /\ UNCHANGED loaded
            /\ (cut' = cut /\ loaded[Now] # Absent) \/ cut' = cut \cup {Now}
  BY DEF Register
<1>2. run.pc = "written" /\ ~Idle /\ run.queue # <<>> /\ Placed /\ AtUnit /\ Kept
  BY <1>1, BusyFacts, FixedLemma DEF At
<1>3. Touched = Now /\ Touched \in UnitIds
  BY <1>2 DEF AtUnit
<1>4. LeftBehind => cut \subseteq cut' /\ (Behind(Touched) => Touched \in cut')
  BY <1>3, IdFacts DEF LeftBehind
<1>5. loaded' = [loaded EXCEPT ![Now] = file[Now]] => loaded'[Touched] = file[Touched]
  BY <1>3, TypedUnits
<1> QED BY <1>1, <1>2, <1>3, <1>4, <1>5, EndedLemma

LEMMA UnloadEffect ==
    ASSUME Typed, Positions, Unload
    PROVE  /\ run.pc = "pick" /\ Removing /\ run.verb = "apply" /\ Touched = Gone /\ Touched \in UnitIds
           /\ Gone = RemovalId(Subject, lock[Subject]) /\ RemovalWords(Subject) /\ Way = RemovalWay(lock[Subject])
           /\ UNCHANGED <<script, installed, cut>> /\ loose \subseteq loose'
           /\ \/ /\ Becomes(file[Touched], IF Way = "systemd" THEN loaded[Touched] ELSE Absent, Absent)
                 /\ \/ Way \in {"brew", "raw"} /\ Ended({})
                    \/ Way \in {"launchd", "systemd", "task"} /\ On("unloaded", FALSE, FALSE)
              \/ Way \in {"launchd", "systemd"} /\ On("unloaded", FALSE, FALSE) /\ Unaltered
              \/ Ended({Subject}) /\ Unaltered
<1> DEFINE l == IF Way = "systemd" THEN loaded[Gone] ELSE Absent
<1>1. /\ At("pick") /\ Removing /\ Way \in {"launchd", "systemd", "task", "brew", "raw"}
      /\ Fixed /\ UNCHANGED <<installed, cut, script>> /\ loose \subseteq loose'
      /\ \/ /\ Put(Gone, file[Gone], l, Absent)
            /\ \/ Way \in {"brew", "raw"} /\ Done
               \/ Way \in {"launchd", "systemd", "task"} /\ Goes("unloaded", FALSE, FALSE)
         \/ Way \in {"launchd", "systemd"} /\ Goes("unloaded", FALSE, FALSE) /\ UNCHANGED <<file, loaded, running>>
         \/ Fails /\ UNCHANGED <<file, loaded, running>>
  BY DEF Unload, Due, supervisor
<1>2. run.pc = "pick" /\ ~Idle /\ run.queue # <<>> /\ Placed /\ Kept
  BY <1>1, PickFacts, FixedLemma
<1>3. /\ Touched = Gone /\ Way = RemovalWay(lock[Subject]) /\ Gone = RemovalId(Subject, lock[Subject])
      /\ RemovalWords(Subject) /\ Gone \in UnitIds /\ run.verb = "apply"
  BY <1>1, GoneFacts
<1>4. Goes("unloaded", FALSE, FALSE) => On("unloaded", FALSE, FALSE)
  BY <1>2, OnLemma DEF Steps
<1>5. Put(Gone, file[Gone], l, Absent) => Becomes(file[Touched], l, Absent)
  <2> HIDE DEF l
  <2> QED BY <1>3, BecomesLemma
<1> QED BY <1>1, <1>2, <1>3, <1>4, <1>5, EndedLemma DEF Unaltered

LEMMA DeleteFileEffect ==
    ASSUME Typed, Positions, DeleteFile
    PROVE  /\ run.pc = "unloaded" /\ Removing /\ run.verb = "apply" /\ Touched = Gone /\ Touched \in UnitIds
           /\ UNCHANGED <<running, installed>> /\ loose \subseteq loose'
           /\ \/ /\ \E l : /\ Becomes(Absent, l, running[Touched])
                           /\ \/ l = (IF Systemd THEN Absent ELSE loaded[Touched])
                              \/ Systemd /\ Touched \in loose' /\ l = loaded[Touched]
                 /\ cut \subseteq cut' /\ (Claimed(Touched) => Touched \in cut') /\ Ended({})
              \/ Ended({Subject}) /\ Unaltered /\ UNCHANGED <<script, cut>>
<1>1. /\ At("unloaded") /\ Fixed /\ UNCHANGED <<running, installed>> /\ loose \subseteq loose'
      /\ \/ /\ file' = [file EXCEPT ![Gone] = Absent]
            /\ \/ loaded' = IF Systemd THEN [Reloaded EXCEPT ![Gone] = Absent] ELSE loaded
               \/ Systemd /\ Gone \in loose' /\ UNCHANGED loaded
            /\ cut' = cut \cup {u \in {Gone} : \E n \in Declared : UnitOf(n, spec[n]) = u} /\ Done
         \/ Fails /\ UNCHANGED <<file, loaded, script, cut>>
  BY DEF DeleteFile
<1>2. run.pc = "unloaded" /\ ~Idle /\ run.queue # <<>> /\ Placed /\ AtUnit /\ Kept
  BY <1>1, BusyFacts, FixedLemma DEF At
<1>3. Touched = Gone /\ Touched \in UnitIds /\ Removing
  BY <1>2 DEF AtUnit
<1>4. run.verb = "apply"
  BY <1>3 DEF Removing
<1>5. CASE /\ file' = [file EXCEPT ![Gone] = Absent]
           /\ \/ loaded' = IF Systemd THEN [Reloaded EXCEPT ![Gone] = Absent] ELSE loaded
              \/ Systemd /\ Gone \in loose' /\ UNCHANGED loaded
           /\ cut' = cut \cup {u \in {Gone} : \E n \in Declared : UnitOf(n, spec[n]) = u} /\ Done
  <2>1. file'[Touched] = Absent /\ running'[Touched] = running[Touched]
    BY <1>1, <1>3, <1>5, TypedUnits
  <2>2. \/ loaded'[Touched] = (IF Systemd THEN Absent ELSE loaded[Touched])
        \/ Systemd /\ Touched \in loose' /\ loaded'[Touched] = loaded[Touched]
    <3>1. DOMAIN Reloaded = UnitIds
      BY DEF Reloaded
    <3>2. \A g : DOMAIN g = UnitIds => [g EXCEPT ![Gone] = Absent][Gone] = Absent
      BY <1>3
    <3> QED BY <1>3, <1>5, <3>1, <3>2
  <2>3. cut \subseteq cut' /\ (Claimed(Touched) => Touched \in cut')
    BY <1>3, <1>5 DEF Claimed
  <2> QED BY <1>1, <1>2, <1>3, <1>4, <1>5, <2>1, <2>2, <2>3, EndedLemma DEF Becomes
<1>6. CASE Fails /\ UNCHANGED <<file, loaded, script, cut>>
  BY <1>1, <1>2, <1>3, <1>4, <1>6, EndedLemma DEF Unaltered
<1> QED BY <1>1, <1>5, <1>6

LEMMA RestartLaunchdEffect ==
    ASSUME Typed, Positions, RestartLaunchd
    PROVE  /\ run.pc = "pick" /\ run.verb = "restart" /\ ~Removing /\ Way = "launchd" /\ Touched = Now
           /\ UNCHANGED <<script, installed, cut, loose>>
           /\ \/ Ended({Subject}) /\ Unaltered
              \/ /\ Touched \in UnitIds /\ Touched \in Owns /\ On("out", FALSE, TRUE)
                 /\ Becomes(file[Touched], Absent, Absent) \/ Unaltered
<1>1. /\ At("pick") /\ run.verb = "restart" /\ Way = "launchd" /\ Fixed /\ UNCHANGED <<script, installed, cut, loose>>
      /\ \/ Fails /\ UNCHANGED <<file, loaded, running>>
         \/ /\ HasLabel(D.plist) /\ Goes("out", FALSE, TRUE)
            /\ Put(Now, file[Now], Absent, Absent) \/ UNCHANGED <<file, loaded, running>>
  BY DEF RestartLaunchd, Quietly, supervisor
<1>2. run.pc = "pick" /\ ~Idle /\ run.queue # <<>> /\ Placed /\ NowWords /\ Kept
  BY <1>1, PickFacts, FixedLemma
<1>3. ~Removing /\ Touched = Now
  BY <1>1 DEF Removing, Touched, CommandWays
<1>4. HasLabel(D.plist) => Touched \in UnitIds /\ Touched \in Owns
  BY <1>1, <1>2, <1>3 DEF NowWords, WritingWays
<1>5. Goes("out", FALSE, TRUE) => On("out", FALSE, TRUE)
  BY <1>2, OnLemma DEF Steps
<1> QED BY <1>1, <1>2, <1>3, <1>4, <1>5, EndedLemma, BecomesLemma DEF Unaltered

LEMMA RestartSystemdEffect ==
    ASSUME Typed, Positions, RestartSystemd
    PROVE  /\ run.pc = "pick" /\ run.verb = "restart" /\ ~Removing /\ Way = "systemd" /\ Touched = Now
           /\ Touched \in UnitIds /\ UNCHANGED <<script, installed, cut, loose>>
           /\ \/ /\ Ended({}) /\ file[Touched] # Absent
                 /\ LET held == IF loaded[Touched] = Absent THEN file[Touched] ELSE loaded[Touched]
                    IN \E r \in StartOf(held) : Becomes(file[Touched], held, r)
              \/ /\ Ended({Subject})
                 /\ \E r \in {running[Touched], Absent} : Becomes(file[Touched], loaded[Touched], r)
<1> DEFINE held == IF loaded[Now] = Absent THEN file[Now] ELSE loaded[Now]
<1>1. /\ At("pick") /\ run.verb = "restart" /\ Way = "systemd" /\ Fixed /\ UNCHANGED <<script, installed, cut, loose>>
      /\ \/ file[Now] # Absent /\ (\E r \in StartOf(held) : Put(Now, file[Now], held, r)) /\ Done
         \/ Fails /\ \E r \in {running[Now], Absent} : Put(Now, file[Now], loaded[Now], r)
         \/ Fails /\ UNCHANGED <<file, loaded, running>>
  BY DEF RestartSystemd, Quietly
<1>2. run.pc = "pick" /\ ~Idle /\ run.queue # <<>> /\ Placed /\ NowWords /\ Kept
  BY <1>1, PickFacts, FixedLemma
<1>3. ~Removing /\ Touched = Now
  BY <1>1 DEF Removing, Touched, CommandWays
<1>4. Touched \in UnitIds
  <2>1. Now = U(Subject) /\ Way = B(Subject) /\ UnitWords(Subject)
    BY <1>1, <1>2, <1>3, PickFacts DEF SubjectWords, NowWords, Ways
  <2> QED BY <1>1, <1>2, <1>3, <2>1, PickFacts, IdFacts DEF UnitWords
<1>5. CASE file[Now] # Absent /\ (\E r \in StartOf(held) : Put(Now, file[Now], held, r)) /\ Done
  <2>1. \E r \in StartOf(held) : Becomes(file[Touched], held, r)
    <3> HIDE DEF held
    <3> QED BY <1>3, <1>4, <1>5, BecomesLemma
  <2> QED BY <1>1, <1>2, <1>3, <1>4, <1>5, <2>1, EndedLemma
<1>6. CASE Fails /\ \E r \in {running[Now], Absent} : Put(Now, file[Now], loaded[Now], r)
  BY <1>1, <1>2, <1>3, <1>4, <1>6, EndedLemma, BecomesLemma
<1>7. CASE Fails /\ UNCHANGED <<file, loaded, running>>
  <2>1. Becomes(file[Touched], loaded[Touched], running[Touched])
    BY <1>7 DEF Becomes
  <2> QED BY <1>1, <1>2, <1>3, <1>4, <1>7, <2>1, EndedLemma
<1> QED BY <1>1, <1>5, <1>6, <1>7

LEMMA RestartOtherEffect ==
    ASSUME Typed, Positions, RestartOther
    PROVE  /\ run.pc = "pick" /\ run.verb = "restart" /\ ~Removing /\ Way \in {"brew", "restart", "stop and start"}
           /\ Touched \in UnitIds /\ Touched[1] \in {"brew", "raw"} /\ UNCHANGED <<script, installed, cut, loose>>
           /\ Ended({}) \/ Ended({Subject})
           /\ \E r : Becomes(file[Touched], loaded[Touched], r)
<1> DEFINE u == IF Way = "brew" THEN BrewId(D.brew) ELSE RawId(Subject)
<1>1. /\ At("pick") /\ run.verb = "restart" /\ Way \in {"brew", "restart", "stop and start"} /\ Fixed
      /\ UNCHANGED <<script, installed, cut, loose>> /\ (Done \/ Fails)
      /\ \E r \in {running[u], Absent} \cup StartOf(Command(D)) : Put(u, file[u], loaded[u], r)
  BY DEF RestartOther, Quietly
<1>2. run.pc = "pick" /\ ~Idle /\ run.queue # <<>> /\ Placed /\ NowWords /\ Kept /\ Subject \in Names
  BY <1>1, PickFacts, FixedLemma
<1>3. ~Removing /\ Touched = u
  BY <1>1, <1>2 DEF Removing, Touched, CommandWays, NowWords
<1>4. Touched \in UnitIds /\ Touched[1] \in {"brew", "raw"}
  BY <1>1, <1>2, <1>3, IdFacts DEF NowWords
<1>5. PICK r : Put(u, file[u], loaded[u], r)
  BY <1>1
<1> HIDE DEF u
<1>6. Becomes(file[Touched], loaded[Touched], r)
  BY <1>3, <1>4, <1>5, BecomesLemma
<1> QED BY <1>1, <1>2, <1>3, <1>4, <1>6, EndedLemma

(***************************************************************************)
(* The steps that belong to no service: a command begins, ends or is       *)
(* killed, or something happens around genv.                               *)
(***************************************************************************)
Opening == StartApply \/ (\E n \in Names : StartService(n) \/ RestartService(n) \/ StopService(n)) \/ Environment
Closing == EndApply \/ Killed \/ Refused \/ EndCommand

LEMMA NextSteps == ServicesNext => CommandStep \/ Opening \/ Closing
  BY DEF ServicesNext, Applies, Commands, CommandStep, Opening, Closing

LEMMA OpeningIdle == ASSUME Opening PROVE Idle
<1>1. StartApply => Idle
  BY DEF StartApply
<1>2. \A n \in Names : StartService(n) \/ RestartService(n) \/ StopService(n) => Idle
  BY DEF StartService, RestartService, StopService, Commanded
<1>3. Environment => Idle
  BY DEF Environment, EditSpec, EditTemplate, NewDay, Ends, Unregistered, Around
<1> QED BY <1>1, <1>2, <1>3 DEF Opening

LEMMA ClosingFacts ==
    ASSUME Closing
    PROVE  /\ run' = NoRun /\ ~Idle /\ Unaltered /\ cut \subseteq cut'
           /\ UNCHANGED <<platform, spec, template, today, script, installed, loose, quiet, runs, edits>>
           /\ EndApply \/ EndCommand => run.queue = <<>>
           /\ EndApply \/ UNCHANGED lock
<1>1. EndApply => /\ run' = NoRun /\ ~Idle /\ cut \subseteq cut' /\ run.queue = <<>>
                  /\ UNCHANGED <<inputs, supervisor, installed, loose, quiet, runs, edits>>
  BY DEF EndApply, Idle
<1>2. Killed => /\ run' = NoRun /\ ~Idle /\ cut \subseteq cut'
                /\ UNCHANGED <<inputs, supervisor, installed, loose, quiet, runs, edits, lock>>
  BY DEF Killed
<1>3. Refused => /\ run' = NoRun /\ ~Idle /\ cut \subseteq cut'
                 /\ UNCHANGED <<inputs, supervisor, installed, loose, quiet, runs, edits, lock>>
  BY DEF Refused, At, history, Idle
<1>4. EndCommand => /\ run' = NoRun /\ ~Idle /\ cut \subseteq cut' /\ run.queue = <<>>
                    /\ UNCHANGED <<inputs, supervisor, installed, loose, quiet, runs, edits, lock>>
  BY DEF EndCommand, Idle
<1> QED BY <1>1, <1>2, <1>3, <1>4 DEF Closing, inputs, supervisor, Unaltered

\* What a step before a command changes of the units.
LEMMA OpeningUnits ==
    ASSUME Typed, Positions, Opening
    PROVE  /\ UNCHANGED <<platform, lock, file, installed, cut, script>>
           /\ \A u \in UnitIds : /\ loaded'[u] \in {loaded[u], Absent}
                                 /\ running'[u] \in {running[u], Absent}
           /\ ~Environment => UNCHANGED <<inputs, loose>>
<1>1. StartApply => UNCHANGED <<inputs, lock, supervisor, installed, cut, loose>>
  BY DEF StartApply
<1>2. ASSUME NEW n \in Names, StartService(n) \/ RestartService(n)
      PROVE  UNCHANGED <<inputs, lock, supervisor, installed, cut, loose>>
  BY <1>2 DEF StartService, RestartService, Commanded
<1>3. ASSUME NEW n \in Names, StopService(n)
      PROVE  /\ UNCHANGED <<inputs, lock, file, installed, cut, script, loose>>
             /\ \A u \in UnitIds : /\ loaded'[u] \in {loaded[u], Absent}
                                   /\ running'[u] \in {running[u], Absent}
  <2>1. UNCHANGED <<inputs, lock, installed, cut, script, loose>>
    BY <1>3 DEF StopService, Commanded
  <2> DEFINE v == StoppedUnit(n)
  <2>2. \/ Put(v, file[v], IF StopWay(n) = "launchd" THEN Absent ELSE loaded[v], Absent)
        \/ UNCHANGED <<file, loaded, running>>
    BY <1>3, StopServiceParts
  <2>3. CASE Put(v, file[v], IF StopWay(n) = "launchd" THEN Absent ELSE loaded[v], Absent)
    <3>1. PICK l : l = (IF StopWay(n) = "launchd" THEN Absent ELSE loaded[v])
      OBVIOUS
    <3>2. Put(v, file[v], l, Absent) /\ l \in {Absent, loaded[v]}
      BY <2>3, <3>1
    <3> HIDE DEF v
    <3>3. file' = file
      BY <3>2, TypedUnits DEF Put
    <3>4. \A u \in UnitIds : loaded'[u] \in {loaded[u], Absent} /\ running'[u] \in {running[u], Absent}
      BY <3>2, TypedUnits DEF Put
    <3> QED BY <2>1, <3>3, <3>4
  <2> QED BY <2>1, <2>2, <2>3
<1>4. ASSUME Environment
      PROVE  /\ UNCHANGED <<platform, lock, file, installed, cut, script>>
             /\ \A u \in UnitIds : /\ loaded'[u] \in {loaded[u], Absent}
                                   /\ running'[u] \in {running[u], Absent}
  <2>1. UNCHANGED <<platform, lock, file, installed, cut, script>>
    BY <1>4 DEF Environment, EditSpec, EditTemplate, NewDay, Ends, Unregistered, Around
  <2>2. /\ loaded' = loaded \/ \E u \in UnitIds : loaded' = [loaded EXCEPT ![u] = Absent]
        /\ running' = running \/ \E u \in UnitIds : running' = [running EXCEPT ![u] = Absent]
    BY <1>4 DEF Environment, EditSpec, EditTemplate, NewDay, Ends, Unregistered, Around
  <2>3. \A u \in UnitIds : loaded'[u] \in {loaded[u], Absent} /\ running'[u] \in {running[u], Absent}
    BY <2>2, TypedUnits
  <2> QED BY <2>1, <2>3
<1> QED BY <1>1, <1>2, <1>3, <1>4 DEF Opening, inputs, supervisor

(***************************************************************************)
(* A service is not disturbed by the turn of another.                      *)
(***************************************************************************)
LEMMA UnitKind == ASSUME InputsOK, NEW n \in Names PROVE U(n) \in UnitIds \cup {NoId}
  BY UnitLemma, IdFacts DEF UnitVocab, UnitWords

\* SparesTheOthers, as one step.
Spared ==
  ~Idle /\ run.queue # <<>> =>
    \A n \in Declared \ {Subject} :
      LET u == UnitOf(n, spec[n])
      IN u # NoId /\ ~Shares(n) => /\ file'[u] = file[u] /\ running'[u] = running[u]
                                   /\ script'[n] = script[n]

LEMMA SparedStep == ASSUME Typed, Positions, ServicesNext PROVE Spared
<1>1. CASE CommandStep
  <2> SUFFICES ASSUME NEW n \in Declared \ {Subject}, U(n) # NoId, ~Shares(n)
               PROVE  file'[U(n)] = file[U(n)] /\ running'[U(n)] = running[U(n)] /\ script'[n] = script[n]
    BY DEF Spared, U
  <2>1. Sparing /\ ~Idle /\ run.queue # <<>> /\ Placed
    BY <1>1, CommandStepTurn DEF Turn, Positions
  <2>2. n \in Names
    BY DEF Declared
  <2>3. U(n) \in UnitIds
    BY <2>2, UnitKind, TypedInputs
  <2>4. U(n) # Touched
    BY <2>1, <2>3, NotShared
  <2> QED BY <2>1, <2>2, <2>3, <2>4 DEF Sparing, Left
<1>2. CASE Opening
  BY <1>2, OpeningIdle DEF Spared
<1>3. CASE Closing
  BY <1>3, ClosingFacts DEF Spared, Unaltered
<1> QED BY <1>1, <1>2, <1>3, NextSteps

(***************************************************************************)
(* The supervisor is behind a unit's file only where that is known.        *)
(***************************************************************************)
LEMMA PendingTurn ==
    ASSUME Typed, Positions, NEW u, Pending(u) \/ Restarting(u)
    PROVE  u = Touched /\ run.pc \in {"out", "written", "enabled"} /\ run.queue # <<>>
<1>1. run.pc \in {"out", "written", "enabled"} /\ u = Now /\ run.queue # <<>>
  BY DEF Pending, Restarting
<1>2. AtUnit
  BY AtUnitLemma
<1> QED BY <1>1, <1>2 DEF AtUnit

\* A unit that keeps its file, and whose definition or process at most goes away.
LEMMA Weaker ==
    ASSUME NEW u \in UnitIds, platform' = platform, UnitFine(u), ~Pending(u), ~Restarting(u),
           file'[u] = file[u], loaded'[u] \in {loaded[u], Absent}, running'[u] \in {running[u], Absent},
           installed'[u] = installed[u], u \in cut => u \in cut'
    PROVE  UnitFine(u)'
<1>1. OnlyRun(u)' /\ FileIsInstalled(u)'
  BY DEF UnitFine, OnlyRun, FileIsInstalled
<1>2. TaskNeverRuns(u)'
  BY DEF UnitFine, TaskNeverRuns, Schtasks
<1>3. NotBehind(u)'
  BY DEF UnitFine, NotBehind, Behind, Launchd, Schtasks
<1>4. NotOld(u)'
  <2>1. Old(running[u], u)' => Old(running[u], u)
    BY DEF Old
  <2>2. Old(loaded[u], u)' => Old(loaded[u], u)
    BY DEF Old
  <2> QED BY <2>1, <2>2 DEF UnitFine, NotOld, Systemd
<1> QED BY <1>1, <1>2, <1>3, <1>4 DEF UnitFine

\* A unit of brew or of a plain command.
LEMMA RunOnly ==
    ASSUME NEW u \in UnitIds, u[1] \in {"brew", "raw"}, UnitFine(u), file'[u] = file[u], loaded'[u] = loaded[u]
    PROVE  UnitFine(u)'
<1>1. file[u] = Absent /\ loaded[u] = Absent /\ file'[u] = Absent /\ loaded'[u] = Absent
  BY DEF UnitFine, OnlyRun
<1> QED BY <1>1 DEF UnitFine, OnlyRun, FileIsInstalled, TaskNeverRuns, NotBehind, Behind, NotOld, Old

\* A unit of another service.
LEMMA OtherFine ==
    ASSUME Typed, Positions, Sparing, NEW u \in UnitIds \ {Touched}, UnitFine(u)
    PROVE  UnitFine(u)'
<1>1. ~Pending(u) /\ ~Restarting(u)
  BY PendingTurn
<1>2. Left(u) /\ (u \in cut => u \in cut')
  BY DEF Sparing
<1>3. (Launchd' <=> Launchd) /\ (Systemd' <=> Systemd) /\ (Schtasks' <=> Schtasks)
  BY KeptNames DEF Sparing
<1>4. ~(Systemd /\ Launchd) /\ ~(Systemd /\ Schtasks)
  BY Platform
<1>5. OnlyRun(u)'
  BY <1>2 DEF UnitFine, OnlyRun, Left
<1>6. FileIsInstalled(u)' /\ TaskNeverRuns(u)'
  BY <1>2, <1>3 DEF UnitFine, FileIsInstalled, TaskNeverRuns, Left
<1>7. NotBehind(u)'
  BY <1>1, <1>2, <1>3, <1>4 DEF UnitFine, NotBehind, Behind, Left
<1>8. NotOld(u)'
  <2>1. Old(running[u], u)' => Old(running[u], u)
    BY <1>2 DEF Old, Left
  <2>2. Old(loaded[u], u)' => Old(loaded[u], u)
    BY <1>2 DEF Old, Left
  <2>3. file'[u] = file[u]
    BY <1>2 DEF Left
  <2> QED BY <1>1, <1>2, <1>3, <2>1, <2>2, <2>3 DEF UnitFine, NotOld
<1> QED BY <1>5, <1>6, <1>7, <1>8 DEF UnitFine

\* What a step that works on a file of its unit leaves: the parts that do not depend on the step.
LEMMA WorkedOn ==
    ASSUME Typed, Typed', platform' = platform, NEW u \in UnitIds, u[1] \in {"genv", "own"}, UnitFine(u),
           running'[u] = running[u] \/ ~Schtasks \/ running'[u] = Absent,
           file'[u] # Absent => installed'[u] # "",
           (Launchd \/ Schtasks) /\ Behind(u)' => u \in cut' \/ Pending(u)',
           Systemd => /\ file'[u].command = <<>> /\ Old(running[u], u)' => u \in cut' \/ Pending(u)' \/ Restarting(u)'
                      /\ Old(loaded[u], u)' => u \in cut' \/ Pending(u)'
    PROVE  UnitFine(u)'
<1>1. (Launchd' <=> Launchd) /\ (Systemd' <=> Systemd) /\ (Schtasks' <=> Schtasks)
  BY DEF Launchd, Systemd, Schtasks
<1>2. OnlyRun(u)' /\ FileIsInstalled(u)'
  BY DEF OnlyRun, FileIsInstalled
<1>3. TaskNeverRuns(u)'
  BY <1>1 DEF UnitFine, TaskNeverRuns
<1>4. NotBehind(u)'
  BY <1>1 DEF NotBehind
<1>5. NotOld(u)'
  BY <1>1 DEF NotOld
<1> QED BY <1>2, <1>3, <1>4, <1>5 DEF UnitFine

\* The unit whose turn it is, and what is known of it.
TurnFacts ==
  /\ Sparing /\ Typed' /\ platform' = platform /\ ~Idle /\ run.queue # <<>> /\ SubjectWords /\ NowWords /\ AtUnit
  /\ Subject \in Names /\ Subject # ""
  /\ (Launchd' <=> Launchd) /\ (Systemd' <=> Systemd) /\ (Schtasks' <=> Schtasks)
LEMMA TurnFactsLemma == ASSUME Typed, Positions, CommandStep PROVE TurnFacts
<1>1. Turn /\ ~Idle /\ run.queue # <<>>
  BY CommandStepTurn
<1>2. SubjectWords /\ NowWords /\ AtUnit
  BY SubjectLemma, NowLemma, AtUnitLemma DEF Positions
<1>3. platform' = platform /\ (Launchd' <=> Launchd) /\ (Systemd' <=> Systemd) /\ (Schtasks' <=> Schtasks)
  BY <1>1, KeptNames DEF Turn, Sparing
<1>4. Subject \in Names /\ Subject # ""
  BY <1>1, <1>2, NamesFacts DEF SubjectWords
<1> QED BY <1>1, <1>2, <1>3, <1>4 DEF TurnFacts, Turn

\* A step that fails, or that does nothing to its unit, and is not in the middle of replacing it.
LEMMA StillFine ==
    ASSUME Typed, Positions, TurnFacts, NEW u \in UnitIds, u = Touched, UnitFine(u), Unaltered,
           installed'[u] = installed[u], cut \subseteq cut', ~Pending(u), ~Restarting(u)
    PROVE  UnitFine(u)'
<1>1. file'[u] = file[u] /\ loaded'[u] = loaded[u] /\ running'[u] = running[u] /\ (u \in cut => u \in cut')
  BY DEF Unaltered
<1> QED BY <1>1, Weaker DEF TurnFacts

\* The unit of the turn, step by step.
LEMMA StartsFine ==
    ASSUME Typed, Positions, TurnFacts, NEW u \in UnitIds, u = Touched, UnitFine(u), Skip \/ Elsewhere \/ Starts \/ RestartOther
    PROVE  UnitFine(u)'
<1>1. CASE Skip \/ Elsewhere
  <2>1. run.pc = "pick" /\ Unaltered /\ UNCHANGED <<installed, cut>>
    BY <1>1, SkipEffect, ElsewhereEffect
  <2>2. ~Pending(u) /\ ~Restarting(u)
    BY <2>1, PendingTurn
  <2> QED BY <2>1, <2>2, StillFine
<1>2. CASE Starts \/ RestartOther
  <2>1. u[1] \in {"brew", "raw"} /\ file'[u] = file[u] /\ loaded'[u] = loaded[u]
    BY <1>2, StartsEffect, RestartOtherEffect DEF Becomes, Unaltered
  <2> QED BY <2>1, RunOnly
<1> QED BY <1>1, <1>2

LEMMA WriteUnitFine ==
    ASSUME Typed, Positions, TurnFacts, NEW u \in UnitIds, u = Touched, UnitFine(u), WriteUnit
    PROVE  UnitFine(u)'
<1>1. run.pc = "pick" /\ ~Removing /\ Way \in WritingWays /\ UNCHANGED <<loaded, running, script, cut, loose>>
  BY WriteUnitEffect
<1>2. ~Pending(u) /\ ~Restarting(u)
  BY <1>1, PendingTurn
<1>3. CASE Unaltered /\ UNCHANGED installed
  BY <1>1, <1>2, <1>3, StillFine
<1>4. CASE /\ u = Now /\ On("written", Templated(D) => file[u] # Wanted, FALSE)
           /\ Becomes(Wanted, loaded[u], running[u]) /\ installed'[u] = Subject
  <2>1. u[1] \in {"genv", "own"}
    <3>1. UnitWords(Subject) /\ Way = B(Subject) /\ Now = U(Subject)
      BY <1>1 DEF TurnFacts, SubjectWords, NowWords, WritingWays, Ways
    <3> QED BY <1>1, <1>4, <3>1, IdFacts DEF WritingWays, UnitWords
  <2>2. (file[u] # Wanted) => Pending(u)'
    BY <1>4 DEF On, Pending, TurnFacts
  <2>3. file[u] = Wanted => file'[u] = file[u] /\ loaded'[u] = loaded[u] /\ running'[u] = running[u]
    BY <1>4 DEF Becomes
  <2>4. (Launchd \/ Schtasks) /\ Behind(u)' => u \in cut' \/ Pending(u)'
    BY <1>1, <1>2, <2>2, <2>3 DEF UnitFine, NotBehind, Behind
  <2>5. Systemd => /\ file'[u].command = <<>> /\ Old(running[u], u)' => u \in cut' \/ Pending(u)' \/ Restarting(u)'
                   /\ Old(loaded[u], u)' => u \in cut' \/ Pending(u)'
    BY <1>1, <1>2, <2>2, <2>3 DEF UnitFine, NotOld, Old
  <2> QED BY <1>1, <1>4, <2>1, <2>4, <2>5, WorkedOn DEF TurnFacts
<1> QED BY <1>3, <1>4, WriteUnitEffect

LEMMA BusyKind ==
    ASSUME Typed, Positions, TurnFacts, run.pc \in {"written", "out", "enabled", "script", "unloaded"}
    PROVE  Touched[1] \in {"genv", "own"}
  BY IdFacts DEF TurnFacts, AtUnit

\* Which supervisor a way belongs to.
LEMMA WayPlatform ==
    ASSUME TurnFacts
    PROVE  /\ Way \in {"launchd", "generated launchd"} => Launchd /\ ~Systemd /\ ~Schtasks
           /\ Way \in {"systemd", "generated systemd"} => Systemd /\ ~Launchd /\ ~Schtasks
           /\ Way = "task" => Schtasks /\ ~Launchd /\ ~Systemd
<1>1. CASE Removing
  <2>1. Way = RemovalWay(lock[Subject])
    BY <1>1 DEF TurnFacts, SubjectWords
  <2>2. Way = "launchd" => Launchd
    BY <2>1 DEF RemovalWay
  <2>3. Way = "systemd" => Systemd
    BY <2>1 DEF RemovalWay
  <2>4. Way = "task" => Schtasks
    BY <2>1 DEF RemovalWay
  <2>5. Way \notin {"generated launchd", "generated systemd"}
    BY <2>1 DEF RemovalWay
  <2> QED BY <2>2, <2>3, <2>4, <2>5, Platform
<1>2. CASE ~Removing
  BY <1>2 DEF TurnFacts, SubjectWords, NowWords, UnitWords, Ways
<1> QED BY <1>1, <1>2

LEMMA BootoutFine ==
    ASSUME Typed, Positions, TurnFacts, NEW u \in UnitIds, u = Touched, UnitFine(u), Bootout
    PROVE  UnitFine(u)'
<1>1. /\ run.pc = "written" /\ Way \in {"launchd", "generated launchd"} /\ u = Now
      /\ UNCHANGED <<script, installed, cut, loose>>
      /\ \/ ~run.changed /\ Unaltered
         \/ \E w \in BOOLEAN : On("out", run.changed, w) /\ file'[u] = file[u]
  BY BootoutEffect DEF Becomes, Unaltered
<1>2. CASE ~run.changed /\ Unaltered
  <2>1. ~Pending(u) /\ ~Restarting(u)
    BY <1>1, <1>2 DEF Pending, Restarting
  <2> QED BY <1>1, <1>2, <2>1, StillFine
<1>3. CASE \E w \in BOOLEAN : On("out", run.changed, w) /\ file'[u] = file[u]
  <2>1. Pending(u)'
    BY <1>1, <1>3 DEF On, Pending, TurnFacts
  <2>2. Launchd /\ ~Systemd /\ ~Schtasks
    BY <1>1, WayPlatform
  <2>3. u[1] \in {"genv", "own"}
    BY <1>1, BusyKind
  <2>4. file'[u] # Absent => installed'[u] # ""
    BY <1>1, <1>3 DEF UnitFine, FileIsInstalled
  <2> QED BY <2>1, <2>2, <2>3, <2>4, WorkedOn DEF TurnFacts
<1> QED BY <1>1, <1>2, <1>3

LEMMA BootstrapFine ==
    ASSUME Typed, Positions, TurnFacts, NEW u \in UnitIds, u = Touched, UnitFine(u), Bootstrap
    PROVE  UnitFine(u)'
<1>1. /\ run.pc = "out" /\ UNCHANGED <<script, installed, loose>>
      /\ \/ file'[u] = file[u] /\ loaded'[u] = file[u] /\ running'[u] \in StartOf(file[u])
         \/ Unaltered /\ (Behind(u) => u \in cut')
  BY BootstrapEffect DEF Becomes
<1>2. Launchd /\ ~Systemd /\ ~Schtasks
  BY <1>1, WayPlatform DEF Positions, AtOut
<1>3. u[1] \in {"genv", "own"}
  BY <1>1, BusyKind
<1>4. file'[u] = file[u]
  BY <1>1 DEF Unaltered
<1>5. file'[u] # Absent => installed'[u] # ""
  BY <1>1, <1>4 DEF UnitFine, FileIsInstalled
<1>6. Behind(u)' => u \in cut'
  BY <1>1 DEF Behind, Unaltered, StartOf
<1> QED BY <1>2, <1>3, <1>5, <1>6, WorkedOn DEF TurnFacts

LEMMA EnableNowFine ==
    ASSUME Typed, Positions, TurnFacts, NEW u \in UnitIds, u = Touched, UnitFine(u), EnableNow
    PROVE  UnitFine(u)'
<1>1. /\ run.pc = "written" /\ Way \in {"systemd", "generated systemd"} /\ u = Now
      /\ UNCHANGED <<file, script, installed, loose>> /\ cut \subseteq cut'
      /\ \/ loaded'[u] # file[u] \/ Behind(u) => u \in cut'
         \/ On("enabled", run.changed, running[u] # Absent) /\ loaded'[u] = file[u]
      /\ running'[u] = running[u] \/ (running[u] = Absent /\ running'[u] \in StartOf(loaded'[u]))
  BY EnableNowEffect
<1>2. Systemd /\ ~Launchd /\ ~Schtasks
  BY <1>1, WayPlatform
<1>3. u[1] \in {"genv", "own"} /\ ~Restarting(u)
  BY <1>1, BusyKind DEF Restarting
<1>4. file'[u] # Absent => installed'[u] # ""
  BY <1>1 DEF UnitFine, FileIsInstalled
<1>5. Old(loaded[u], u)' => u \in cut'
  BY <1>1 DEF Old
<1>6. ASSUME file'[u].command = <<>>, Old(running[u], u)' PROVE u \in cut' \/ Pending(u)' \/ Restarting(u)'
  <2>1. CASE running'[u] # running[u]
    BY <1>1, <1>6, <2>1 DEF Old, StartOf
  <2>2. CASE running'[u] = running[u] /\ (loaded'[u] # file[u] \/ Behind(u) => u \in cut')
    BY <1>1, <1>6, <2>2 DEF Old, Behind
  <2>3. CASE running'[u] = running[u] /\ On("enabled", run.changed, running[u] # Absent)
    <3>1. Old(running[u], u) /\ file[u].command = <<>> /\ running[u] # Absent
      BY <1>1, <1>6, <2>3 DEF Old
    <3>2. u \in cut \/ Pending(u)
      BY <1>2, <1>3, <3>1 DEF UnitFine, NotOld
    <3>3. Pending(u) => run.changed
      BY <1>1 DEF Pending
    <3>4. run.changed => Restarting(u)'
      BY <1>1, <2>3, <3>1 DEF Restarting, On, TurnFacts
    <3> QED BY <1>1, <3>2, <3>3, <3>4
  <2> QED BY <1>1, <2>1, <2>2, <2>3
<1> QED BY <1>2, <1>3, <1>4, <1>5, <1>6, WorkedOn DEF TurnFacts

LEMMA RestartChangedFine ==
    ASSUME Typed, Positions, TurnFacts, NEW u \in UnitIds, u = Touched, UnitFine(u), RestartChanged
    PROVE  UnitFine(u)'
<1>1. /\ run.pc = "enabled" /\ u = Now /\ UNCHANGED <<file, loaded, script, installed, loose>>
      /\ \/ /\ Way = "systemd" /\ run.changed /\ run.was
            /\ \/ running'[u] \in StartOf(loaded[u]) /\ (loaded[u] = file[u] \/ UNCHANGED cut)
               \/ running'[u] \in {running[u], Absent} /\ u \in cut'
         \/ ~(Way = "systemd" /\ run.changed /\ run.was) /\ UNCHANGED <<running, cut>>
  BY RestartChangedEffect
<1>2. Way \in {"systemd", "generated systemd"} /\ ~Removing /\ file[u] = Wanted /\ (loaded[u] = file[u] \/ u \in cut)
  BY <1>1 DEF Positions, AtEnabled
<1>3. Systemd /\ ~Launchd /\ ~Schtasks
  BY <1>2, WayPlatform
<1>4. u[1] \in {"genv", "own"} /\ ~Pending(u)
  BY <1>1, BusyKind DEF Pending
<1>5. file'[u] # Absent => installed'[u] # ""
  BY <1>1 DEF UnitFine, FileIsInstalled
<1>6. Old(loaded[u], u)' => u \in cut'
  BY <1>1, <1>2 DEF Old
<1>7. ASSUME file'[u].command = <<>>, Old(running[u], u)' PROVE u \in cut'
  <2>1. CASE running'[u] \in StartOf(loaded[u]) /\ (loaded[u] = file[u] \/ UNCHANGED cut)
    BY <1>1, <1>2, <1>7, <2>1 DEF Old, StartOf
  <2>2. CASE u \in cut'
    BY <2>2
  <2>3. CASE ~(Way = "systemd" /\ run.changed /\ run.was) /\ UNCHANGED <<running, cut>>
    <3>1. Old(running[u], u) /\ file[u].command = <<>>
      BY <1>1, <1>7, <2>3 DEF Old
    <3>2. u \in cut \/ Restarting(u)
      BY <1>3, <1>4, <3>1 DEF UnitFine, NotOld
    <3>3. Way = "systemd"
      <4>1. Way = "generated systemd" => Wanted.command # <<>>
        BY <1>2 DEF TurnFacts, NowWords, ValueWords
      <4> QED BY <1>2, <3>1, <4>1
    <3> QED BY <2>3, <3>2, <3>3 DEF Restarting
  <2> QED BY <1>1, <2>1, <2>2, <2>3
<1> QED BY <1>3, <1>4, <1>5, <1>6, <1>7, WorkedOn DEF TurnFacts

LEMMA WriteScriptFine ==
    ASSUME Typed, Positions, TurnFacts, NEW u \in UnitIds, u = Touched, UnitFine(u), WriteScript
    PROVE  UnitFine(u)'
<1>1. /\ run.pc = "pick" /\ Way = "task" /\ u = GenId(Subject) /\ Unaltered /\ UNCHANGED <<cut, loose>>
      /\ installed'[u] = Subject \/ UNCHANGED installed
  BY WriteScriptEffect
<1>2. ~Pending(u) /\ ~Restarting(u) /\ u[1] = "genv"
  BY <1>1, PendingTurn, IdFacts
<1>3. Schtasks /\ ~Launchd /\ ~Systemd
  BY <1>1, WayPlatform
<1>4. file'[u] # Absent => installed'[u] # ""
  BY <1>1 DEF UnitFine, FileIsInstalled, Unaltered, TurnFacts
<1>5. Behind(u)' => u \in cut'
  BY <1>1, <1>2, <1>3 DEF UnitFine, NotBehind, Behind, Unaltered
<1>6. running'[u] = running[u]
  BY <1>1 DEF Unaltered
<1> QED BY <1>2, <1>3, <1>4, <1>5, <1>6, WorkedOn DEF TurnFacts

LEMMA WriteXmlFine ==
    ASSUME Typed, Positions, TurnFacts, NEW u \in UnitIds, u = Touched, UnitFine(u), WriteXml
    PROVE  UnitFine(u)'
<1>1. /\ run.pc = "script" /\ u = Now /\ UNCHANGED <<loaded, running, script, installed, cut, loose>>
      /\ \/ file'[u] = TaskXml(D.task) /\ On("written", run.changed, FALSE)
         \/ Unaltered
  BY WriteXmlEffect
<1>2. Way = "task" /\ installed[u] # "" /\ (~run.changed => file[u] = TaskXml(D.task))
  BY <1>1 DEF Positions, AtScript
<1>3. Schtasks /\ ~Launchd /\ ~Systemd
  BY <1>2, WayPlatform
<1>4. u[1] \in {"genv", "own"} /\ ~Pending(u)
  BY <1>1, BusyKind DEF Pending
<1>5. file'[u] # Absent => installed'[u] # ""
  BY <1>1, <1>2
<1>6. Behind(u)' => u \in cut' \/ Pending(u)'
  <2>1. CASE file'[u] = file[u]
    BY <1>1, <1>3, <1>4, <2>1 DEF UnitFine, NotBehind, Behind
  <2>2. CASE file'[u] # file[u]
    <3>1. On("written", run.changed, FALSE) /\ run.changed
      BY <1>1, <1>2, <2>2 DEF Unaltered
    <3> QED BY <1>1, <3>1 DEF On, Pending, TurnFacts
  <2> QED BY <2>1, <2>2
<1> QED BY <1>1, <1>3, <1>4, <1>5, <1>6, WorkedOn DEF TurnFacts

LEMMA RegisterFine ==
    ASSUME Typed, Positions, TurnFacts, NEW u \in UnitIds, u = Touched, UnitFine(u), Register
    PROVE  UnitFine(u)'
<1>1. /\ run.pc = "written" /\ Way = "task" /\ UNCHANGED <<file, running, script, installed, loose>>
      /\ \/ loaded'[u] = file[u]
         \/ UNCHANGED loaded /\ (Behind(u) => u \in cut')
         \/ ~run.changed /\ UNCHANGED loaded /\ cut \subseteq cut'
  BY RegisterEffect
<1>2. Schtasks /\ ~Launchd /\ ~Systemd
  BY <1>1, WayPlatform
<1>3. u[1] \in {"genv", "own"}
  BY <1>1, BusyKind
<1>4. running[u] = Absent
  BY <1>2, <1>3 DEF UnitFine, TaskNeverRuns
<1>5. file'[u] # Absent => installed'[u] # ""
  BY <1>1 DEF UnitFine, FileIsInstalled
<1>6. ~run.changed /\ Behind(u) => u \in cut
  BY <1>1, <1>2 DEF UnitFine, NotBehind, Pending
<1>7. Behind(u)' => u \in cut'
  BY <1>1, <1>4, <1>6 DEF Behind
<1> QED BY <1>1, <1>2, <1>3, <1>5, <1>7, WorkedOn DEF TurnFacts

LEMMA RemovalFine ==
    ASSUME Typed, Positions, TurnFacts, NEW u \in UnitIds, u = Touched, UnitFine(u), Unload \/ DeleteFile
    PROVE  UnitFine(u)'
<1>1. CASE Unload
  <2>1. /\ run.pc = "pick" /\ UNCHANGED <<installed, cut>>
        /\ file'[u] = file[u] /\ loaded'[u] \in {loaded[u], Absent} /\ running'[u] \in {running[u], Absent}
    BY <1>1, UnloadEffect DEF Becomes, Unaltered
  <2>2. ~Pending(u) /\ ~Restarting(u)
    BY <2>1, PendingTurn
  <2> QED BY <2>1, <2>2, Weaker DEF TurnFacts
<1>2. CASE DeleteFile
  <2>1. /\ run.pc = "unloaded" /\ UNCHANGED <<running, installed>>
        /\ \/ file'[u] = Absent
           \/ Unaltered /\ UNCHANGED cut
    BY <1>2, DeleteFileEffect DEF Becomes
  <2>2. CASE file'[u] = Absent
    <3>1. u[1] \in {"genv", "own"}
      BY <2>1, BusyKind
    <3> QED BY <2>1, <2>2, <3>1, WorkedOn DEF TurnFacts, Behind, Old
  <2>3. CASE Unaltered /\ UNCHANGED cut
    <3>1. ~Pending(u) /\ ~Restarting(u)
      BY <2>1, PendingTurn
    <3> QED BY <2>1, <2>3, <3>1, StillFine
  <2> QED BY <2>1, <2>2, <2>3
<1> QED BY <1>1, <1>2

LEMMA RestartFine ==
    ASSUME Typed, Positions, TurnFacts, NEW u \in UnitIds, u = Touched, UnitFine(u), RestartLaunchd \/ RestartSystemd
    PROVE  UnitFine(u)'
<1>1. CASE RestartLaunchd
  <2>1. /\ run.pc = "pick" /\ Way = "launchd" /\ Touched = Now /\ UNCHANGED <<installed, cut>>
        /\ \/ Unaltered
           \/ u \in Owns /\ On("out", FALSE, TRUE) /\ file'[u] = file[u]
    BY <1>1, RestartLaunchdEffect DEF Becomes
  <2>2. CASE Unaltered
    <3>1. ~Pending(u) /\ ~Restarting(u)
      BY <2>1, PendingTurn
    <3> QED BY <2>1, <2>2, <3>1, StillFine
  <2>3. CASE u \in Owns /\ On("out", FALSE, TRUE) /\ file'[u] = file[u]
    <3>1. Pending(u)' /\ u[1] = "own"
      BY <2>1, <2>3, IdFacts DEF On, Pending, TurnFacts
    <3>2. Launchd /\ ~Systemd /\ ~Schtasks
      BY <2>1, WayPlatform
    <3>3. file'[u] # Absent => installed'[u] # ""
      BY <2>1, <2>3 DEF UnitFine, FileIsInstalled
    <3> QED BY <3>1, <3>2, <3>3, WorkedOn DEF TurnFacts
  <2> QED BY <2>1, <2>2, <2>3
<1>2. CASE RestartSystemd
  <2>1. /\ run.pc = "pick" /\ Way = "systemd" /\ ~Removing /\ UNCHANGED <<installed, cut>> /\ file'[u] = file[u]
        /\ \/ LET held == IF loaded[u] = Absent THEN file[u] ELSE loaded[u]
              IN loaded'[u] = held /\ running'[u] \in StartOf(held)
           \/ loaded'[u] = loaded[u] /\ running'[u] \in {running[u], Absent}
    BY <1>2, RestartSystemdEffect DEF Becomes
  <2>2. ~Pending(u) /\ ~Restarting(u)
    BY <2>1, PendingTurn
  <2>3. Systemd /\ ~Launchd /\ ~Schtasks
    BY <2>1, WayPlatform
  <2>4. CASE loaded'[u] = loaded[u] /\ running'[u] \in {running[u], Absent}
    BY <2>1, <2>2, <2>4, Weaker DEF TurnFacts
  <2>5. CASE LET held == IF loaded[u] = Absent THEN file[u] ELSE loaded[u]
             IN loaded'[u] = held /\ running'[u] \in StartOf(held)
    <3>1. u[1] \in {"genv", "own"}
      <4>1. UnitWords(Subject) /\ Way = B(Subject) /\ Now = U(Subject) /\ Touched = Now
        BY <1>2, <2>1, RestartSystemdEffect DEF TurnFacts, SubjectWords, NowWords, Ways
      <4> QED BY <2>1, <4>1, IdFacts DEF UnitWords
    <3>2. file'[u] # Absent => installed'[u] # ""
      BY <2>1 DEF UnitFine, FileIsInstalled
    <3>3. Old(loaded[u], u) => u \in cut
      BY <2>2, <2>3 DEF UnitFine, NotOld
    <3>4. Old(loaded[u], u)' \/ Old(running[u], u)' => u \in cut'
      BY <2>1, <2>5, <3>3 DEF Old, StartOf
    <3> QED BY <2>3, <3>1, <3>2, <3>4, WorkedOn DEF TurnFacts
  <2> QED BY <2>1, <2>4, <2>5
<1> QED BY <1>1, <1>2

LEMMA CommandSupervision == ASSUME Typed, Positions, Supervision, CommandStep PROVE Supervision'
<1>1. TurnFacts
  BY TurnFactsLemma
<1> SUFFICES ASSUME NEW u \in UnitIds PROVE UnitFine(u)'
  BY DEF Supervision
<1>2. UnitFine(u)
  BY DEF Supervision
<1>3. CASE u # Touched
  BY <1>1, <1>2, <1>3, OtherFine DEF TurnFacts
<1>4. CASE u = Touched
  BY <1>1, <1>2, <1>4, StartsFine, WriteUnitFine, BootoutFine, BootstrapFine, EnableNowFine, RestartChangedFine,
     WriteScriptFine, WriteXmlFine, RegisterFine, RemovalFine, RestartFine DEF CommandStep
<1> QED BY <1>3, <1>4

LEMMA SupervisionStep == ASSUME Typed, Positions, Supervision, ServicesNext PROVE Supervision'
<1>1. CASE CommandStep
  BY <1>1, CommandSupervision
<1>2. CASE Opening
  <2>1. run = NoRun
    BY <1>2, OpeningIdle, IdleRun
  <2> SUFFICES ASSUME NEW u \in UnitIds PROVE UnitFine(u)'
    BY DEF Supervision
  <2>2. ~Pending(u) /\ ~Restarting(u)
    BY <2>1, NoRunFacts DEF Pending, Restarting
  <2> QED BY <1>2, <2>2, OpeningUnits, Weaker DEF Supervision
<1>3. CASE Closing
  <2> SUFFICES ASSUME NEW u \in UnitIds PROVE UnitFine(u)'
    BY DEF Supervision
  <2>1. /\ platform' = platform /\ file'[u] = file[u] /\ loaded'[u] = loaded[u] /\ running'[u] = running[u]
        /\ installed'[u] = installed[u] /\ (u \in cut => u \in cut') /\ UnitFine(u)
    BY <1>3, ClosingFacts DEF Unaltered, Supervision
  <2>2. CASE ~Pending(u) /\ ~Restarting(u)
    BY <2>1, <2>2, Weaker
  <2>3. CASE Pending(u) \/ Restarting(u)
    <3>1. run.pc # "pick" /\ run.queue # <<>>
      BY <2>3, PendingTurn
    <3>2. Killed
      BY <1>3, <3>1, ClosingFacts DEF Closing, Refused, At
    <3>3. Behind(u) => u \in cut'
      BY <2>1, <3>2 DEF Killed, UnitFine, FileIsInstalled, Behind
    <3>4. Behind(u)' => u \in cut'
      BY <2>1, <3>3 DEF Behind
    <3>5. Old(loaded[u], u)' \/ Old(running[u], u)' => u \in cut'
      BY <2>1, <3>3 DEF Old, Behind
    <3>6. (Launchd' <=> Launchd) /\ (Systemd' <=> Systemd) /\ (Schtasks' <=> Schtasks)
      BY <2>1 DEF Launchd, Systemd, Schtasks
    <3> QED BY <2>1, <3>4, <3>5, <3>6 DEF UnitFine, OnlyRun, FileIsInstalled, TaskNeverRuns, NotBehind, NotOld
  <2> QED BY <2>2, <2>3
<1> QED BY <1>1, <1>2, <1>3, NextSteps

(***************************************************************************)
(* What the lock notes of a plain command is what its unit says.           *)
(***************************************************************************)
\* Two texts that compareServices takes for one.
LEMMA SameNoted ==
    ASSUME NEW n \in Names, NEW l, Same(spec[n], l), PlainNote(l), NEW f \in Definitions
    PROVE  /\ spec[n].brew = "" /\ spec[n].plist = "" /\ spec[n].unit = "" /\ ~Supervised(spec[n])
           /\ HasText(f, l) <=> (f # Absent /\ SameText(f, Generated(spec[n])))
<1>1. spec[n].brew = "" /\ spec[n].plist = "" /\ spec[n].unit = "" /\ spec[n].task.action = ""
  BY DEF Same, PlainNote
<1>2. ~Supervised(spec[n])
  BY <1>1 DEF Supervised, Templated, Tasked
<1>3. PICK g : g = Generated(spec[n]).command
  OBVIOUS
<1>4. PICK t : t = NotedText(l)
  OBVIOUS
<1>5. /\ Joined(spec[n].start) = Joined(l.start) /\ Joined(spec[n].stop) = Joined(l.stop)
      /\ Joined(spec[n].restart) = Joined(l.restart)
  BY DEF Same
<1>6. /\ g = IF Systemd THEN <<spec[n].start, spec[n].stop, spec[n].restart>> ELSE <<spec[n].start>>
      /\ t = IF Systemd THEN <<l.start, l.stop, l.restart>> ELSE <<l.start>>
  BY <1>3, <1>4 DEF Generated, NotedText
<1>7. Len(g) = Len(t) /\ \A i \in 1..Len(t) : Joined(g[i]) = Joined(t[i])
  <2>1. CASE Systemd
    <3>1. Len(g) = 3 /\ Len(t) = 3
      BY <1>6, <2>1
    <3>2. /\ g[1] = spec[n].start /\ g[2] = spec[n].stop /\ g[3] = spec[n].restart
          /\ t[1] = l.start /\ t[2] = l.stop /\ t[3] = l.restart
      BY <1>6, <2>1
    <3>3. \A i \in 1..3 : i = 1 \/ i = 2 \/ i = 3
      OBVIOUS
    <3> QED BY <1>5, <3>1, <3>2, <3>3
  <2>2. CASE ~Systemd
    <3>1. Len(g) = 1 /\ Len(t) = 1
      BY <1>6, <2>2
    <3>2. g[1] = spec[n].start /\ t[1] = l.start
      BY <1>6, <2>2
    <3>3. \A i \in 1..1 : i = 1
      OBVIOUS
    <3> QED BY <1>5, <3>1, <3>2, <3>3
  <2> QED BY <2>1, <2>2
<1>8. PICK c : c = f.command
  OBVIOUS
<1>9. c \in Seq(Words) /\ DOMAIN c = 1..Len(c)
  BY <1>8 DEF Definitions
<1>10. HasText(f, l) <=> f # Absent /\ Len(c) = Len(t) /\ \A i \in DOMAIN c : Joined(c[i]) = Joined(t[i])
  BY <1>4, <1>8 DEF HasText
<1>11. SameText(f, Generated(spec[n])) <=> Len(c) = Len(g) /\ \A i \in DOMAIN c : Joined(c[i]) = Joined(g[i])
  BY <1>3, <1>8 DEF SameText
<1>12. HasText(f, l) <=> (f # Absent /\ SameText(f, Generated(spec[n])))
  BY <1>7, <1>9, <1>10, <1>11
<1> QED BY <1>1, <1>2, <1>12

\* A text is the same as itself.
LEMMA SameSelf == \A a : SameText(a, a)
  BY DEF SameText

\* Where the unit has just been written for a declared command, or is as it was written.
LEMMA Rewritten ==
    ASSUME Typed, Typed', Kept, NEW n \in Declared,
           file'[GenId(n)] = Written(spec[n]),
           run'.verb = "apply" \/ (run'.verb = "start" /\ n = run'.name /\ (run'.pc = "pick" => run'.queue = <<>>))
    PROVE  NoteTrue(n)'
<1>1. n \in Names /\ n \in Declared' /\ Written(spec[n])' = Written(spec[n]) /\ (Same(spec[n], lock[n])' <=> Same(spec[n], lock[n]))
  BY KeptNames, KeptTexts DEF Declared
<1>2. CASE ~Same(spec[n], lock[n])
  BY <1>1, <1>2 DEF NoteTrue, Overtaken
<1>3. CASE Same(spec[n], lock[n])
  <2> SUFFICES ASSUME PlainNote(lock[n])' PROVE HasText(file[GenId(n)], lock[n])'
    BY DEF NoteTrue
  <2>1. PlainNote(lock[n]) /\ lock' = lock /\ (Systemd' <=> Systemd)
    BY KeptNames DEF PlainNote, Unlocked
  <2>2. spec[n].unit = ""
    BY <1>3, <2>1 DEF Same, PlainNote
  <2>3. Written(spec[n]) = Generated(spec[n])
    BY <2>2 DEF Written
  <2>4. Generated(spec[n]) \in Definitions /\ Generated(spec[n]) # Absent
    BY <1>1, ValueLemma, TypedInputs DEF ValueVocab, ValueWords
  <2>5. HasText(Generated(spec[n]), lock[n])
    BY <1>1, <1>3, <2>1, <2>4, SameNoted, SameSelf
  <2>6. \A f, l : HasText(f, l)' <=> HasText(f, l)
    BY <2>1 DEF HasText, NotedText
  <2> QED BY <2>1, <2>3, <2>5, <2>6
<1> QED BY <1>2, <1>3

\* A unit whose file is left alone.
LEMMA NoteKept ==
    ASSUME Typed, Positions, TurnFacts, NEW n \in Names, NoteTrue(n),
           run'.verb = run.verb, run'.name = run.name, run'.pc = "pick" /\ run.verb # "apply" => run'.queue = <<>>,
           file'[GenId(n)] = file[GenId(n)], GenId(n) \in cut => GenId(n) \in cut'
    PROVE  NoteTrue(n)'
<1>1. /\ lock' = lock /\ (Systemd' <=> Systemd) /\ (Launchd' <=> Launchd) /\ Declared' = Declared /\ spec' = spec
      /\ \A d : Written(d)' = Written(d)
  BY KeptNames, KeptTexts DEF TurnFacts, Sparing
<1> SUFFICES ASSUME Systemd \/ Launchd, PlainNote(lock[n]),
                    HasText(file[GenId(n)], lock[n]) \/ GenId(n) \in cut \/ Overtaken(n)
             PROVE  HasText(file[GenId(n)], lock[n])' \/ GenId(n) \in cut' \/ Overtaken(n)'
  BY <1>1 DEF NoteTrue, PlainNote, Unlocked
<1>2. \A f, l : HasText(f, l)' <=> HasText(f, l)
  BY <1>1 DEF HasText, NotedText
<1>3. Overtaken(n) => Overtaken(n)'
  BY <1>1 DEF Overtaken, Same
<1> QED BY <1>1, <1>2, <1>3

\* The step of a command leaves the run with the same command.
LEMMA SameCommand ==
    ASSUME Typed, Positions, CommandStep
    PROVE  /\ run'.verb = run.verb /\ run'.name = run.name /\ run'.again = run.again
           /\ \/ Ended({}) \/ Ended({Subject})
              \/ \E st \in Steps \ {"idle", "pick"} : \E c, w : On(st, c, w)
  BY SkipEffect, ElsewhereEffect, StartsEffect, WriteUnitEffect, BootoutEffect, BootstrapEffect, EnableNowEffect,
     RestartChangedEffect, WriteScriptEffect, WriteXmlEffect, RegisterEffect, UnloadEffect, DeleteFileEffect,
     RestartLaunchdEffect, RestartSystemdEffect, RestartOtherEffect, StepsFacts DEF CommandStep, Ended, On

\* What a generated unit is given is what the declaration says.
LEMMA WantedWritten ==
    ASSUME Typed, TurnFacts, ~Removing, Way \in WritingWays, Now = GenId(Subject)
    PROVE  Wanted = Written(spec[Subject]) /\ Way # "launchd" /\ Subject \in Declared
<1>1. Way = B(Subject) /\ Now = U(Subject) /\ D = spec[Subject] /\ UnitWords(Subject) /\ Subject \in Declared
  BY DEF TurnFacts, SubjectWords, NowWords, WritingWays, Ways
<1>2. Way # "launchd"
  <2>1. GenId(Subject) \in UnitIds /\ GenId(Subject)[1] = "genv"
    BY IdFacts DEF TurnFacts
  <2>2. U(Subject) \notin Owns \cup {NoId}
    BY <1>1, <2>1, IdFacts
  <2> QED BY <1>1, <2>2 DEF UnitWords
<1>3. CASE Way = "systemd"
  BY <1>1, <1>3 DEF Wanted, Written, UnitWords
<1>4. CASE Way \in {"generated systemd", "generated launchd"}
  BY <1>1, <1>4 DEF Wanted, Written, UnitWords, Supervised, Templated
<1> QED BY <1>1, <1>2, <1>3, <1>4 DEF WritingWays

\* The notes of every name, across a step of a command.
LEMMA CommandNotes == ASSUME Typed, Positions, NotesAreTrue, CommandStep PROVE NotesAreTrue'
<1>1. TurnFacts
  BY TurnFactsLemma
<1>2. Kept /\ Typed' /\ Declared' = Declared /\ (Systemd' <=> Systemd) /\ (Launchd' <=> Launchd)
  BY <1>1, KeptNames DEF TurnFacts, Sparing
<1>3. run'.verb = run.verb /\ run'.name = run.name /\ (run'.pc = "pick" /\ run.verb # "apply" => run'.queue = <<>>)
  BY SameCommand DEF Ended, On
<1> SUFFICES ASSUME NEW n \in Names PROVE NoteTrue(n)'
  BY DEF NotesAreTrue
<1>4. NoteTrue(n) /\ GenId(n) \in UnitIds
  BY IdFacts DEF NotesAreTrue
<1>5. CASE file'[GenId(n)] = file[GenId(n)] /\ (GenId(n) \in cut => GenId(n) \in cut')
  BY <1>1, <1>3, <1>4, <1>5, NoteKept
<1>6. CASE ~(file'[GenId(n)] = file[GenId(n)] /\ (GenId(n) \in cut => GenId(n) \in cut'))
  <2>1. Touched = GenId(n)
    BY <1>1, <1>4, <1>6 DEF TurnFacts, Sparing, Left
  <2>2. WriteUnit \/ Bootstrap \/ RestartChanged \/ WriteXml \/ Register \/ DeleteFile
    BY <1>6, <2>1, SkipEffect, ElsewhereEffect, StartsEffect, BootoutEffect, EnableNowEffect,
       WriteScriptEffect, UnloadEffect, RestartLaunchdEffect, RestartSystemdEffect, RestartOtherEffect
       DEF CommandStep, Becomes, Unaltered
  <2>3. CASE DeleteFile
    <3>1. run.pc = "unloaded" /\ Removing /\ run.verb = "apply" /\ Touched = Gone
      BY <2>3, DeleteFileEffect
    <3>2. Gone \in Owns \cup {GenId(Subject)} /\ Subject \notin Declared
      BY <1>1, <3>1 DEF TurnFacts, AtUnit, SubjectWords
    <3>3. n = Subject
      BY <2>1, <3>1, <3>2, IdFacts
    <3> QED BY <1>2, <1>3, <3>1, <3>2, <3>3 DEF NoteTrue, Overtaken
  <2>4. CASE WriteXml \/ Register
    <3>1. Way = "task"
      BY <2>4, WriteXmlEffect, RegisterEffect DEF Positions, AtScript
    <3>2. ~Systemd /\ ~Launchd
      BY <1>1, <3>1, WayPlatform
    <3> QED BY <1>2, <3>2 DEF NoteTrue
  <2>5. CASE WriteUnit \/ Bootstrap \/ RestartChanged
    <3>1. ~Removing /\ Touched = Now /\ Way \in WritingWays /\ file'[GenId(n)] = Wanted /\ run.verb \in {"apply", "start", "restart"}
          /\ (run.verb = "restart" => Bootstrap)
      <4>1. CASE WriteUnit
        BY <1>6, <2>1, <4>1, WriteUnitEffect DEF Becomes, Unaltered
      <4>2. CASE Bootstrap
        <5>1. run.pc = "out" /\ Touched = Now /\ file'[Touched] = file[Touched]
          BY <4>2, BootstrapEffect DEF Becomes, Unaltered
        <5>2. ~Removing /\ Way \in {"launchd", "generated launchd"} /\ (run.verb \in {"apply", "start"} => file[Now] = Wanted)
          BY <5>1 DEF Positions, AtOut
        <5>3. run.verb \in {"apply", "start", "restart"} /\ (run.verb = "restart" => Way = "launchd")
          BY <1>1, <5>2 DEF TurnFacts, SubjectWords
        <5>4. Way # "launchd"
          <6>1. Renderable /\ NowWords /\ run.queue # <<>> /\ ~Idle
            BY <1>1, <5>1 DEF Positions, AtOut, TurnFacts
          <6>2. Way = "launchd" => Now \in Owns
            BY <5>2, <6>1 DEF NowWords
          <6>3. GenId(n) \notin Owns
            BY IdFacts
          <6> QED BY <2>1, <5>1, <6>2, <6>3
        <5> QED BY <2>1, <4>2, <5>1, <5>2, <5>3, <5>4 DEF WritingWays
      <4>3. CASE RestartChanged
        <5>1. run.pc = "enabled" /\ Touched = Now /\ UNCHANGED file
          BY <4>3, RestartChangedEffect
        <5> QED BY <2>1, <5>1 DEF Positions, AtEnabled, WritingWays
      <4> QED BY <2>5, <4>1, <4>2, <4>3
    <3>2. Now \in Owns \cup {GenId(Subject)}
      <4>1. UnitWords(Subject) /\ Way = B(Subject) /\ Now = U(Subject)
        BY <1>1, <3>1 DEF TurnFacts, SubjectWords, NowWords, WritingWays, Ways
      <4>2. Now # NoId
        BY <1>4, <2>1, <3>1, IdFacts
      <4> QED BY <3>1, <4>1, <4>2 DEF UnitWords, WritingWays
    <3>3. n = Subject
      BY <2>1, <3>1, <3>2, IdFacts
    <3>4. Wanted = Written(spec[n]) /\ n \in Declared /\ Way # "launchd"
      BY <1>1, <2>1, <3>1, <3>3, WantedWritten
    <3>5. run.verb # "restart"
      <4>1. run.verb = "restart" => Way = "launchd" \/ Way \notin WritingWays \/ ~Bootstrap
        BY <1>1, BootstrapEffect, WayPlatform, <3>1 DEF TurnFacts, SubjectWords, WritingWays, Positions, AtOut
      <4> QED BY <3>1, <3>4, <4>1
    <3>6. run.verb # "apply" => n = run.name
      BY <1>1, <3>3 DEF TurnFacts, SubjectWords
    <3> QED BY <1>2, <1>3, <3>1, <3>4, <3>5, <3>6, Rewritten
  <2> QED BY <2>2, <2>3, <2>4, <2>5
<1> QED BY <1>5, <1>6

\* The state of the units and the lock is what it was, and so is what is known of them.
LEMMA NotesStill ==
    ASSUME NEW n \in Names, UNCHANGED <<platform, lock, file>>, cut \subseteq cut', NoteTrue(n),
           (Systemd \/ Launchd) /\ PlainNote(lock[n]) /\ Overtaken(n) => GenId(n) \in cut'
    PROVE  NoteTrue(n)'
<1>1. (Systemd' <=> Systemd) /\ (Launchd' <=> Launchd)
  BY DEF Systemd, Launchd
<1>2. \A f, l : HasText(f, l)' <=> HasText(f, l)
  BY <1>1 DEF HasText, NotedText
<1>3. PlainNote(lock[n])' <=> PlainNote(lock[n])
  BY DEF PlainNote, Unlocked
<1> QED BY <1>1, <1>2, <1>3 DEF NoteTrue

\* What a command that did not complete has overtaken is known to be behind the lock.
LEMMA OvertakenIsForgotten ==
    ASSUME Typed, NEW n \in Names, Systemd \/ Launchd, PlainNote(lock[n]), Overtaken(n)
    PROVE  GenId(n) \in Forgotten \cap UnitIds
<1>1. GenId(n) \in UnitIds
  BY IdFacts
<1>2. CASE n \in Declared
  BY <1>1, <1>2 DEF Overtaken, Forgotten
<1>3. CASE n \notin Declared
  <2>1. RemovalId(n, lock[n]) = GenId(n)
    BY RemovalLemma, TypedInputs DEF RemovalVocab, RemovalWords
  <2>2. lock[n] # Unlocked
    BY DEF PlainNote
  <2> QED BY <1>1, <1>3, <2>1, <2>2 DEF Forgotten
<1> QED BY <1>2, <1>3

\* The notes after a command that ends without writing the lock, or writes it whole.
LEMMA ClosingNotes ==
    ASSUME Typed, Positions, NotesAreTrue, Closing, ~(EndApply /\ run.failed = {})
    PROVE  NotesAreTrue'
<1> SUFFICES ASSUME NEW n \in Names PROVE NoteTrue(n)'
  BY DEF NotesAreTrue
<1>1. NoteTrue(n) /\ UNCHANGED <<platform, file>> /\ cut \subseteq cut'
  BY ClosingFacts DEF NotesAreTrue, Unaltered
<1>2. ASSUME Systemd \/ Launchd, PlainNote(lock[n]), Overtaken(n) PROVE GenId(n) \in cut'
  <2>1. GenId(n) \in Forgotten \cap UnitIds
    BY <1>2, OvertakenIsForgotten
  <2>2. CASE Killed
    BY <2>1, <2>2 DEF Killed
  <2>3. CASE Refused
    <3>1. run.pc = "pick" /\ run.queue # <<>> /\ run.verb # "apply"
      BY <2>3 DEF Refused, At
    <3> QED BY <1>2, <3>1 DEF Overtaken
  <2>4. CASE EndCommand
    <3>1. run.verb \in {"start", "restart"} /\ cut' = cut \cup (Forgotten \cap {GenId(run.name)})
      BY <2>4 DEF EndCommand
    <3>2. n = run.name
      BY <1>2, <3>1 DEF Overtaken
    <3> QED BY <2>1, <3>1, <3>2
  <2>5. CASE EndApply
    BY <2>1, <2>5 DEF EndApply
  <2> QED BY <2>2, <2>3, <2>4, <2>5 DEF Closing
<1>3. lock' = lock
  BY ClosingFacts DEF EndApply
<1> QED BY <1>1, <1>2, <1>3, NotesStill

\* The complete apply writes the notes anew, from units that are all current.
LEMMA ApplyNotes ==
    ASSUME Typed, Visited, EndApply, run.failed = {}, run.pc = "pick"
    PROVE  NotesAreTrue'
<1> SUFFICES ASSUME NEW n \in Names, (Systemd \/ Launchd)', PlainNote(lock[n])'
             PROVE  HasText(file[GenId(n)], lock[n])' \/ GenId(n) \in cut'
  BY DEF NotesAreTrue, NoteTrue
<1>1. /\ run.verb = "apply" /\ run.queue = <<>> /\ lock' = [m \in Names |-> SpecToLock(m, spec[m])]
      /\ cut' = cut /\ UNCHANGED <<platform, file>>
  BY DEF EndApply, inputs, supervisor
<1>2. Systemd \/ Launchd
  BY <1>1 DEF Systemd, Launchd
<1>3. PICK l : l = SpecToLock(n, spec[n])
  OBVIOUS
<1>4. PlainNote(l) /\ l # Unlocked
  BY <1>1, <1>3 DEF PlainNote, Unlocked
<1>5. spec[n] # Undeclared /\ l = Noted(n, spec[n])
  BY <1>3, <1>4 DEF SpecToLock
<1>6. /\ l.brew = spec[n].brew /\ l.plist = spec[n].plist /\ l.unit = spec[n].unit /\ l.task = spec[n].task
      /\ l.start = spec[n].start /\ l.stop = spec[n].stop /\ l.restart = spec[n].restart /\ l.status = spec[n].status
  BY <1>5 DEF Noted
<1>7. Same(spec[n], l)
  BY <1>6 DEF Same
<1>8. file[GenId(n)] \in Definitions
  BY IdFacts, TypedUnits
<1>9. /\ spec[n].brew = "" /\ ~Supervised(spec[n])
      /\ HasText(file[GenId(n)], l) <=> (file[GenId(n)] # Absent /\ SameText(file[GenId(n)], Generated(spec[n])))
  BY <1>4, <1>7, <1>8, SameNoted
<1>10. n \in Declared /\ WayWords(n) /\ UnitWords(n)
  BY <1>5, WayLemma, UnitLemma, TypedInputs DEF Declared, WayVocab, UnitVocab
<1>11. B(n) \in {"generated systemd", "generated launchd"} /\ U(n) = GenId(n)
  BY <1>2, <1>9, <1>10 DEF WayWords, UnitWords
<1>12. FineOrSwept(n)
  <2>1. ToSet(run.queue) = {}
    BY <1>1 DEF ToSet
  <2> QED BY <1>1, <1>10, <2>1 DEF Visited
<1>13. U(n)[1] = "genv"
  BY <1>11, IdFacts
<1>14. Current(n) \/ U(n) \in cut
  BY <1>12, <1>13 DEF FineOrSwept, Excused, Twin, Swept, U
<1>15. Current(n) => HasText(file[GenId(n)], l)
  BY <1>9, <1>11 DEF Current, U, B
<1>16. HasText(file[GenId(n)], l) => HasText(file[GenId(n)], lock[n])'
  <2>1. \A f, m : HasText(f, m)' <=> HasText(f, m)
    BY <1>1 DEF HasText, NotedText, Systemd
  <2> QED BY <1>1, <1>3, <2>1
<1> QED BY <1>1, <1>11, <1>14, <1>15, <1>16

LEMMA NotesStep ==
    ASSUME Typed, Positions, NotesAreTrue, Visited, ServicesNext
    PROVE  NotesAreTrue'
<1>1. CASE CommandStep
  BY <1>1, CommandNotes
<1>2. CASE Opening
  <2> SUFFICES ASSUME NEW n \in Names PROVE NoteTrue(n)'
    BY DEF NotesAreTrue
  <2>1. NoteTrue(n) /\ UNCHANGED <<platform, lock, file, cut>>
    BY <1>2, OpeningUnits DEF NotesAreTrue
  <2>2. run.verb = "none"
    BY <1>2, OpeningIdle, IdleRun, NoRunFacts
  <2>3. ~Overtaken(n)
    BY <2>2 DEF Overtaken
  <2> QED BY <2>1, <2>3, NotesStill
<1>3. CASE Closing
  <2>1. EndApply => run.pc = "pick"
    BY DEF EndApply
  <2> QED BY <1>3, <2>1, ClosingNotes, ApplyNotes
<1> QED BY <1>1, <1>2, <1>3, NextSteps

(***************************************************************************)
(* A service that an apply is done with stays as it was left.              *)
(***************************************************************************)
\* What makes a service current, backend by backend.
CurrentAt(n, f, l, r, s) ==
  LET u == U(n) d == spec[n]
  IN /\ B(n) = "launchd" => u # NoId /\ f[u] = FromTemplate(d.plist) /\ l[u] = f[u]
     /\ B(n) = "systemd" => f[u] = FromTemplate(d.unit) /\ l[u] = f[u] /\ r[u] \in StartOf(f[u])
     /\ B(n) = "task" => s[n] = d.task.action /\ f[u] = TaskXml(d.task) /\ l[u] = f[u]
     /\ B(n) \in {"generated systemd", "generated launchd"} => f[u] # Absent /\ SameText(f[u], Generated(d))

LEMMA CurrentIs == ASSUME NEW n PROVE Current(n) <=> CurrentAt(n, file, loaded, running, script)
<1>1. PICK b : b = Backend(spec[n])
  OBVIOUS
<1>2. PICK u : u = UnitOf(n, spec[n])
  OBVIOUS
<1>3. CASE b = "launchd"
  BY <1>1, <1>2, <1>3 DEF Current, CurrentAt, U, B
<1>4. CASE b = "systemd"
  BY <1>1, <1>2, <1>4 DEF Current, CurrentAt, U, B, StartOf
<1>5. CASE b = "task"
  BY <1>1, <1>2, <1>5 DEF Current, CurrentAt, U, B
<1>6. CASE b \in {"generated systemd", "generated launchd"}
  BY <1>1, <1>2, <1>6 DEF Current, CurrentAt, U, B
<1>7. CASE b \notin {"launchd", "systemd", "task", "generated systemd", "generated launchd"}
  BY <1>1, <1>2, <1>7 DEF Current, CurrentAt, U, B
<1> QED BY <1>3, <1>4, <1>5, <1>6, <1>7

LEMMA CurrentBecomes ==
    ASSUME Kept, NEW n
    PROVE  Current(n)' <=> CurrentAt(n, file', loaded', running', script')
<1>1. /\ U(n)' = U(n) /\ B(n)' = B(n) /\ spec' = spec
      /\ \A d : Generated(d)' = Generated(d)
      /\ \A s : FromTemplate(s)' = FromTemplate(s)
      /\ \A t : TaskXml(t)' = TaskXml(t)
  BY KeptNames, KeptTexts, KeptUnits
<1>2. Current(n)' <=> CurrentAt(n, file, loaded, running, script)'
  BY CurrentIs, PTL
<1>3. \A f, g : SameText(f, g)' <=> SameText(f, g)
  BY DEF SameText
<1> QED BY <1>1, <1>2, <1>3 DEF CurrentAt

\* The other services of an apply, when the step is not about their unit.
LEMMA TwinStays ==
    ASSUME Kept, NEW n
    PROVE  (Twin(n)' <=> Twin(n)) /\ (Scripted(n)' <=> (B(n) = "task" => script'[n] = spec[n].task.action))
<1>1. Declared' = Declared /\ spec' = spec /\ \A m : U(m)' = U(m) /\ B(m)' = B(m)
  BY KeptNames, KeptUnits
<1>2. Twin(n)' <=> Twin(n)
  BY <1>1 DEF Twin, U
<1> QED BY <1>1, <1>2 DEF Scripted, B

\* A service that was current, and whose unit the step is not about.
LEMMA StillCurrent ==
    ASSUME Kept, NEW n \in Names, UnitWords(n), Current(n), script'[n] = script[n],
           U(n) \in UnitIds => Left(U(n))
    PROVE  Current(n)'
<1>1. CurrentAt(n, file, loaded, running, script)
  BY CurrentIs
<1>2. U(n) = NoId => B(n) \in {"launchd", "elsewhere"}
  BY IdFacts DEF UnitWords
<1>3. U(n) \in UnitIds \/ U(n) = NoId
  BY IdFacts DEF UnitWords
<1>4. CASE U(n) = NoId
  <2>1. B(n) = "elsewhere"
    BY <1>1, <1>2, <1>4 DEF CurrentAt
  <2> QED BY <2>1, CurrentBecomes DEF CurrentAt
<1>5. CASE U(n) \in UnitIds
  <2>1. Left(U(n))
    BY <1>5
  <2>2. B(n) \in {"launchd", "task"} => ~Systemd
    BY DEF UnitWords
  <2>3. CurrentAt(n, file', loaded', running', script')
    BY <1>1, <2>1, <2>2 DEF CurrentAt, Left
  <2> QED BY <2>3, CurrentBecomes
<1> QED BY <1>3, <1>4, <1>5

LEMMA SweptStays ==
    ASSUME Typed, Positions, TurnFacts, CommandStep, run.verb = "apply", NEW n \in Declared \ {Subject},
           Swept(n), U(n) # Touched
    PROVE  Swept(n)'
<1>1. U(n)' = U(n) /\ spec' = spec /\ lock' = lock /\ Declared' = Declared
      /\ \A m, l : RemovalId(m, l)' = RemovalId(m, l)
  BY KeptNames, KeptUnits, KeptRemovals DEF TurnFacts, Sparing
<1>2. U(n)[1] = "own"
  BY DEF Swept, U
<1>3. PICK m \in Names \ Declared : /\ RemovalId(m, lock[m]) = U(n)
                                    /\ m \in run.failed \/ (run.pc = "unloaded" /\ m = Subject)
  BY DEF Swept, U
<1>4. run.pc = "unloaded" => Touched = RemovalId(Subject, lock[Subject])
  BY DEF TurnFacts, AtUnit, SubjectWords
<1>5. m \in run.failed
  BY <1>3, <1>4
<1>6. m \in run'.failed
  BY <1>5, SameCommand DEF Ended, On
<1> QED BY <1>1, <1>2, <1>3, <1>6 DEF Swept, U

\* A unit that two services share is worked on for the other one.
LEMMA SharedStays ==
    ASSUME Typed, Positions, TurnFacts, CommandStep, run.verb = "apply", NEW n \in Declared \ {Subject},
           FineOrSwept(n), U(n) = Touched, Touched \in UnitIds
    PROVE  Current(n)' \/ Excused(n)' \/ Swept(n)'
<1>0. Kept /\ Placed /\ ~Idle /\ run.queue # <<>> /\ n \in Names /\ U(n)' = U(n) /\ spec' = spec /\ lock' = lock
      /\ Declared' = Declared /\ \A m, l : RemovalId(m, l)' = RemovalId(m, l)
  BY KeptNames, KeptUnits, KeptRemovals DEF TurnFacts, Sparing, Positions, Declared
<1>1. /\ U(n)[1] \in {"own", "brew"}
      /\ IF Removing THEN RemovalId(Subject, lock[Subject]) = U(n) ELSE Subject \in Declared /\ U(Subject) = U(n)
  BY <1>0, TouchesItsOwn
<1>2. UnitWords(n)
  BY <1>0, UnitLemma, TypedInputs DEF UnitVocab
<1>3. CASE U(n)[1] = "brew"
  <2>1. B(n) = "brew"
    BY <1>2, <1>3, IdFacts DEF UnitWords
  <2> QED BY <1>0, <2>1, CurrentBecomes DEF CurrentAt
<1>4. CASE U(n)[1] = "own" /\ ~Removing
  <2>1. Twin(n)
    BY <1>1, <1>4 DEF Twin, U
  <2> QED BY <1>0, <2>1, TwinStays DEF Excused
<1>5. CASE U(n)[1] = "own" /\ Removing
  <2>1. Subject \in Names \ Declared /\ RemovalId(Subject, lock[Subject]) = U(n) /\ Gone = U(n)
    BY <1>1, <1>5 DEF TurnFacts, SubjectWords
  <2>2. (Subject \in run'.failed \/ (run'.pc = "unloaded" /\ Subject' = Subject)) => Swept(n)'
    BY <1>0, <1>5, <2>1 DEF Swept, U
  <2>3. Ended({Subject}) => Swept(n)'
    BY <2>2 DEF Ended
  <2>4. Unload \/ DeleteFile
    <3>1. run.pc \notin {"written", "out", "enabled", "script"}
      BY <1>5 DEF TurnFacts, AtUnit
    <3>2. Way # "elsewhere"
      BY <1>5, <2>1, <1>2, IdFacts, RemovalLemma, TypedInputs DEF TurnFacts, SubjectWords, RemovalVocab, RemovalWords
    <3> QED BY <1>5, <3>1, <3>2, SkipEffect, ElsewhereEffect, StartsEffect, WriteUnitEffect, BootoutEffect, BootstrapEffect,
               EnableNowEffect, RestartChangedEffect, WriteScriptEffect, WriteXmlEffect, RegisterEffect,
               RestartLaunchdEffect, RestartSystemdEffect, RestartOtherEffect DEF CommandStep
  <2>5. CASE Unload
    <3>1. Way = RemovalWay(lock[Subject]) /\ RemovalWords(Subject)
      BY <2>5, UnloadEffect
    <3>2. Way \notin {"brew", "raw"}
      BY <1>5, <2>1, <3>1, IdFacts DEF RemovalWords
    <3>3. On("unloaded", FALSE, FALSE) \/ Ended({Subject})
      BY <2>5, <3>2, UnloadEffect
    <3> QED BY <2>2, <2>3, <3>3 DEF On
  <2>6. CASE DeleteFile
    <3>1. Claimed(Touched)
      BY DEF Claimed, U
    <3>2. Touched \in cut' \/ Ended({Subject})
      BY <2>6, <3>1, DeleteFileEffect
    <3>3. Touched \in cut' => Excused(n)'
      BY <1>0 DEF Excused, U
    <3> QED BY <2>3, <3>2, <3>3
  <2> QED BY <2>4, <2>5, <2>6
<1> QED BY <1>1, <1>3, <1>4, <1>5

LEMMA OthersStay ==
    ASSUME Typed, Positions, CommandStep, run.verb = "apply", NEW n \in Declared \ {Subject}, FineOrSwept(n)
    PROVE  FineOrSwept(n)'
<1>1. TurnFacts
  BY TurnFactsLemma
<1>2. Kept /\ n \in Names /\ script'[n] = script[n] /\ U(n)' = U(n) /\ spec' = spec
  BY <1>1, KeptNames, KeptUnits DEF TurnFacts, Sparing, Declared
<1>3. UnitWords(n)
  BY <1>2, UnitLemma, TypedInputs DEF UnitVocab
<1>4. Scripted(n)'
  BY <1>2, TwinStays DEF FineOrSwept, Scripted, B
<1>5. U(n) \in UnitIds \/ U(n) = NoId
  BY <1>2, UnitKind, TypedInputs
<1>6. CASE U(n) \in UnitIds /\ U(n) = Touched
  BY <1>1, <1>4, <1>6, SharedStays DEF FineOrSwept
<1>7. CASE ~(U(n) \in UnitIds /\ U(n) = Touched)
  <2>1. U(n) \in UnitIds => Left(U(n)) /\ (U(n) \in cut => U(n) \in cut')
    BY <1>1, <1>7 DEF TurnFacts, Sparing
  <2>2. Current(n) => Current(n)'
    BY <1>2, <1>3, <2>1, StillCurrent
  <2>3. U(n) \in cut => U(n) \in cut'
    BY <2>1 DEF Typed
  <2>4. Excused(n) => Excused(n)'
    BY <1>2, <2>3, TwinStays DEF Excused, U
  <2>5. Swept(n) => Swept(n)'
    <3>1. Swept(n) => U(n) \in UnitIds
      <4>1. NoId[1] = ""
        BY DEF NoId
      <4>2. Swept(n) => U(n)[1] = "own"
        BY DEF Swept, U
      <4> QED BY <1>5, <4>1, <4>2
    <3> QED BY <1>1, <1>7, <3>1, SweptStays
  <2> QED BY <1>4, <2>2, <2>4, <2>5 DEF FineOrSwept
<1> QED BY <1>6, <1>7

(***************************************************************************)
(* A service whose turn ends without a failure is current, or its unit is  *)
(* one the supervisor is known to be behind on.                            *)
(***************************************************************************)
\* The service whose turn it is, with what the end of its turn has to show.
TurnEnds(s) ==
  /\ Kept /\ s = Subject /\ s \in Names /\ s \in Declared /\ ~Removing /\ run.queue # <<>> /\ ~Idle
  /\ D = spec[s] /\ Now = U(s) /\ Way = B(s) /\ UnitWords(s) /\ WayWords(s) /\ ValueWords(s) /\ NowWords
  /\ U(s)' = U(s) /\ spec' = spec /\ Declared' = Declared

LEMMA TurnEndsLemma ==
    ASSUME Typed, Positions, TurnFacts, run.verb = "apply" \/ (~Removing /\ Way \in Ways), Subject \in Declared,
           NEW s, s = Subject
    PROVE  TurnEnds(s)
<1>1. Kept /\ ~Idle /\ run.queue # <<>> /\ s \in Names
  BY DEF TurnFacts, Sparing
<1>2. ~Removing
  BY DEF TurnFacts, SubjectWords
<1>3. D = spec[s] /\ Now = U(s) /\ Way = B(s) /\ UnitWords(s) /\ WayWords(s) /\ ValueWords(s) /\ NowWords
  BY <1>1, <1>2 DEF TurnFacts, SubjectWords, NowWords
<1>4. U(s)' = U(s) /\ spec' = spec /\ Declared' = Declared
  BY <1>1, KeptNames, KeptUnits
<1> QED BY <1>1, <1>2, <1>3, <1>4 DEF TurnEnds

\* What is enough for the service to be fine afterwards.
LEMMA FineAfter ==
    ASSUME NEW s, TurnEnds(s), B(s) = "task" => script'[s] = spec[s].task.action,
           CurrentAt(s, file', loaded', running', script') \/ U(s) \in cut'
    PROVE  Fine(s)'
<1>1. Scripted(s)'
  BY TwinStays DEF TurnEnds
<1>2. CurrentAt(s, file', loaded', running', script') => Current(s)'
  BY CurrentBecomes DEF TurnEnds
<1>3. U(s) \in cut' => Excused(s)'
  BY DEF TurnEnds, Excused, U
<1> QED BY <1>1, <1>2, <1>3 DEF Fine

\* A plain command that is skipped has the unit that the lock notes.
LEMMA SkipEnds ==
    ASSUME Typed, Positions, NotesAreTrue, Skip, run.verb = "apply", NEW s, TurnEnds(s)
    PROVE  Fine(s)'
<1>1. Kind(s) = "ok" /\ ~Supervised(spec[s]) /\ Unaltered /\ UNCHANGED <<script, cut>>
  BY SkipEffect DEF TurnEnds
<1>2. B(s) \in {"brew", "generated systemd", "generated launchd", "raw"}
  BY <1>1 DEF TurnEnds, WayWords
<1>3. CASE B(s) \in {"brew", "raw"}
  BY <1>3, FineAfter DEF CurrentAt
<1>4. CASE B(s) \in {"generated systemd", "generated launchd"}
  <2>1. spec[s] # Undeclared
    BY DEF TurnEnds, Declared
  <2>2. lock[s] # Unlocked /\ Same(spec[s], lock[s])
    BY <1>1, <2>1 DEF Kind
  <2>3. spec[s].brew = "" /\ (Systemd \/ Launchd) /\ U(s) = GenId(s)
    BY <1>4 DEF TurnEnds, UnitWords
  <2>4. PlainNote(lock[s])
    BY <1>1, <2>2, <2>3 DEF PlainNote, Same, Supervised, Templated, Tasked
  <2>5. ~Overtaken(s)
    BY <2>2 DEF Overtaken, TurnEnds
  <2>6. HasText(file[U(s)], lock[s]) \/ U(s) \in cut
    BY <2>3, <2>4, <2>5 DEF NotesAreTrue, NoteTrue, TurnEnds
  <2>7. U(s) \in UnitIds /\ file[U(s)] \in Definitions
    BY <2>3, IdFacts, TypedUnits DEF TurnEnds
  <2>8. HasText(file[U(s)], lock[s]) => file[U(s)] # Absent /\ SameText(file[U(s)], Generated(spec[s]))
    BY <2>2, <2>4, <2>7, SameNoted DEF TurnEnds
  <2>9. HasText(file[U(s)], lock[s]) => CurrentAt(s, file', loaded', running', script')
    BY <1>1, <1>4, <2>8 DEF CurrentAt, Unaltered
  <2> QED BY <1>1, <1>4, <2>6, <2>9, FineAfter
<1> QED BY <1>2, <1>3, <1>4

\* The other ways to end a turn.
CurrentAfter(s) == B(s) # "task" /\ (CurrentAt(s, file', loaded', running', script') \/ U(s) \in cut')

LEMMA BootoutEnds ==
    ASSUME Typed, Positions, Supervision, Bootout, NEW s, TurnEnds(s), run'.pc = "pick"
    PROVE  CurrentAfter(s)
<1>1. Way = "launchd" /\ ~run.changed /\ loaded[U(s)] # Absent /\ Unaltered /\ UNCHANGED <<script, cut>> /\ run.pc = "written"
      /\ U(s) \in UnitIds /\ Touched = U(s)
  <2>1. ~\E w \in BOOLEAN : On("out", run.changed, w)
    BY DEF On
  <2> QED BY <2>1, BootoutEffect DEF TurnEnds
<1>2. Renderable /\ file[U(s)] = Wanted
  BY <1>1 DEF Positions, AtWritten, TurnEnds
<1>3. Wanted = FromTemplate(spec[s].plist) /\ Wanted # Absent /\ Launchd
  BY <1>1 DEF TurnEnds, NowWords, WritingWays, UnitWords
<1>4. ~Pending(U(s))
  BY <1>1 DEF Pending
<1>5. loaded[U(s)] = file[U(s)] \/ U(s) \in cut
  <2>1. UnitFine(U(s))
    BY <1>1 DEF Supervision
  <2>2. loaded[U(s)] # file[U(s)] => Behind(U(s))
    BY <1>1, <1>2, <1>3 DEF Behind
  <2> QED BY <1>3, <1>4, <2>1, <2>2 DEF UnitFine, NotBehind
<1>6. U(s) # NoId
  BY <1>1, IdFacts
<1>7. loaded[U(s)] = file[U(s)] => CurrentAt(s, file', loaded', running', script')
  BY <1>1, <1>2, <1>3, <1>6 DEF CurrentAt, Unaltered, TurnEnds
<1> QED BY <1>1, <1>5, <1>7 DEF TurnEnds, CurrentAfter

LEMMA BootstrapEnds ==
    ASSUME Typed, Positions, Bootstrap, run.verb # "restart", NEW s, TurnEnds(s),
           NEW r, Becomes(file[Touched], file[Touched], r)
    PROVE  CurrentAfter(s)
<1>0. run.verb \in {"apply", "start"}
  BY DEF Typed, Runs, Positions, Placed, TurnEnds
<1>1. /\ run.pc = "out" /\ Touched = U(s) /\ U(s) \in UnitIds /\ UNCHANGED script
      /\ file'[U(s)] = file[U(s)] /\ loaded'[U(s)] = file[U(s)]
  BY BootstrapEffect DEF TurnEnds, Becomes
<1>2. Way \in {"launchd", "generated launchd"} /\ Renderable /\ file[U(s)] # Absent /\ file[U(s)] = Wanted
  BY <1>1, <1>0 DEF Positions, AtOut, TurnEnds
<1>3. U(s) # NoId
  BY <1>1, IdFacts
<1>4. CASE Way = "launchd"
  <2>1. Wanted = FromTemplate(spec[s].plist)
    BY <1>4 DEF TurnEnds, NowWords
  <2>2. CurrentAt(s, file', loaded', running', script')
    BY <1>1, <1>2, <1>3, <1>4, <2>1 DEF CurrentAt, TurnEnds
  <2> QED BY <1>4, <2>2 DEF TurnEnds, CurrentAfter
<1>5. CASE Way = "generated launchd"
  <2>1. Wanted = Generated(spec[s])
    BY <1>5 DEF TurnEnds, NowWords
  <2>2. CurrentAt(s, file', loaded', running', script')
    BY <1>1, <1>2, <1>5, <2>1, SameSelf DEF CurrentAt, TurnEnds
  <2> QED BY <1>5, <2>2 DEF TurnEnds, CurrentAfter
<1> QED BY <1>2, <1>4, <1>5

LEMMA RestartChangedEnds ==
    ASSUME Typed, Positions, Supervision, RestartChanged, NEW s, TurnEnds(s)
    PROVE  CurrentAfter(s)
<1>1. /\ run.pc = "enabled" /\ Touched = U(s) /\ U(s) \in UnitIds /\ UNCHANGED <<file, loaded, script>>
      /\ \/ /\ Way = "systemd" /\ run.changed /\ run.was
            /\ \/ running'[U(s)] \in StartOf(loaded[U(s)]) /\ (loaded[U(s)] = file[U(s)] \/ UNCHANGED cut)
               \/ U(s) \in cut'
         \/ ~(Way = "systemd" /\ run.changed /\ run.was) /\ UNCHANGED <<running, cut>>
  BY RestartChangedEffect DEF TurnEnds
<1>2. /\ Way \in {"systemd", "generated systemd"} /\ file[U(s)] = Wanted
      /\ loaded[U(s)] = file[U(s)] \/ U(s) \in cut
  BY <1>1 DEF Positions, AtEnabled, TurnEnds
<1>3. CASE Way = "generated systemd"
  <2>1. Wanted = Generated(spec[s]) /\ Wanted # Absent
    BY <1>3 DEF TurnEnds, NowWords, WritingWays
  <2>2. CurrentAt(s, file', loaded', running', script')
    BY <1>1, <1>2, <1>3, <2>1, SameSelf DEF CurrentAt, TurnEnds
  <2> QED BY <1>3, <2>2 DEF TurnEnds, CurrentAfter
<1>4. CASE Way = "systemd"
  <2>1. Wanted = FromTemplate(spec[s].unit) /\ Wanted.command = <<>> /\ Wanted # Absent /\ Systemd
    BY <1>4 DEF TurnEnds, NowWords, WritingWays, UnitWords
  <2>2. loaded'[U(s)] = file'[U(s)] /\ running'[U(s)] \in StartOf(file'[U(s)]) => CurrentAt(s, file', loaded', running', script')
    BY <1>1, <1>2, <1>4, <2>1 DEF CurrentAt, TurnEnds
  <2>3. (loaded'[U(s)] = file'[U(s)] /\ running'[U(s)] \in StartOf(file'[U(s)])) \/ U(s) \in cut'
    <3>1. CASE running'[U(s)] \in StartOf(loaded[U(s)]) /\ (loaded[U(s)] = file[U(s)] \/ UNCHANGED cut)
      BY <1>1, <1>2, <3>1
    <3>2. CASE U(s) \in cut'
      BY <3>2
    <3>3. CASE ~(Way = "systemd" /\ run.changed /\ run.was) /\ UNCHANGED <<running, cut>>
      <4>1. UnitFine(U(s)) /\ ~Pending(U(s)) /\ ~Restarting(U(s))
        BY <1>1, <1>4, <3>3 DEF Supervision, Pending, Restarting
      <4>2. Old(running[U(s)], U(s)) => U(s) \in cut
        BY <1>2, <2>1, <4>1 DEF UnitFine, NotOld
      <4> QED BY <1>1, <1>2, <2>1, <3>3, <4>2 DEF Old, StartOf
    <3> QED BY <1>1, <3>1, <3>2, <3>3
  <2> QED BY <1>4, <2>2, <2>3 DEF TurnEnds, CurrentAfter
<1> QED BY <1>2, <1>3, <1>4

LEMMA RegisterEnds ==
    ASSUME Typed, Positions, Supervision, Register, NEW s, TurnEnds(s),
           \/ loaded'[Touched] = file[Touched]
           \/ /\ ~run.changed /\ UNCHANGED loaded /\ cut \subseteq cut'
              /\ loaded[Touched] = Absent => Touched \in cut'
    PROVE  Fine(s)'
<1>1. /\ run.pc = "written" /\ Way = "task" /\ Touched = U(s) /\ U(s) \in UnitIds /\ UNCHANGED <<file, script>>
      /\ \/ loaded'[U(s)] = file[U(s)]
         \/ /\ ~run.changed /\ UNCHANGED loaded /\ cut \subseteq cut'
            /\ loaded[U(s)] = Absent => U(s) \in cut'
  BY RegisterEffect DEF TurnEnds
<1>2. script[s] = spec[s].task.action /\ file[U(s)] = TaskXml(spec[s].task)
  BY <1>1 DEF Positions, AtWritten, TurnEnds, WritingWays
<1>3. Schtasks /\ file[U(s)] # Absent
  BY <1>1, <1>2 DEF TurnEnds, UnitWords, ValueWords
<1>4. loaded'[U(s)] = file[U(s)] => CurrentAt(s, file', loaded', running', script')
  BY <1>1, <1>2 DEF CurrentAt, TurnEnds
<1>5. loaded'[U(s)] = file[U(s)] \/ U(s) \in cut'
  <2> SUFFICES ASSUME ~run.changed, UNCHANGED loaded, cut \subseteq cut', loaded[U(s)] # Absent, loaded[U(s)] # file[U(s)]
               PROVE  U(s) \in cut
    BY <1>1
  <2>1. Behind(U(s)) /\ ~Pending(U(s)) /\ UnitFine(U(s))
    BY <1>1, <1>3 DEF Behind, Pending, Supervision
  <2> QED BY <1>3, <2>1 DEF UnitFine, NotBehind
<1>6. script'[s] = spec[s].task.action
  BY <1>1, <1>2
<1> QED BY <1>4, <1>5, <1>6, FineAfter

LEMMA SubjectEnds ==
    ASSUME Typed, Positions, Supervision, NotesAreTrue, CommandStep, run.verb = "apply", NEW s, s = Subject, s \in Declared,
           s \notin ToSet(run'.queue), s \notin run'.failed
    PROVE  Fine(s)'
<1>1. TurnFacts /\ TurnEnds(s)
  BY TurnFactsLemma, TurnEndsLemma
<1>0. CurrentAfter(s) => Fine(s)'
  BY <1>1, FineAfter DEF CurrentAfter
<1>2. s \in ToSet(run.queue) /\ ~Removing
  BY <1>1 DEF TurnFacts, SubjectWords, TurnEnds
<1>3. Ended({}) /\ ~Ended({s}) /\ \A st \in Steps : \A c, w : ~On(st, c, w)
  BY <1>1, <1>2, SameCommand DEF Ended, On, TurnEnds
<1>4. run'.pc = "pick"
  BY <1>3 DEF Ended
<1>5. CASE Skip
  BY <1>1, <1>5, SkipEnds
<1>6. CASE Elsewhere
  <2>1. B(s) = "elsewhere"
    BY <1>1, <1>6, ElsewhereEffect DEF TurnEnds
  <2> QED BY <1>1, <2>1, FineAfter DEF CurrentAt
<1>7. CASE Starts
  <2>1. B(s) \in {"brew", "raw"}
    BY <1>1, <1>7, StartsEffect DEF TurnEnds
  <2> QED BY <1>1, <2>1, FineAfter DEF CurrentAt
<1>8. CASE Bootout
  BY <1>0, <1>1, <1>4, <1>8, BootoutEnds
<1>9. CASE Bootstrap
  <2>1. PICK r : Becomes(file[Touched], file[Touched], r)
    BY <1>1, <1>3, <1>9, BootstrapEffect DEF TurnEnds
  <2> QED BY <1>0, <1>1, <1>9, <2>1, BootstrapEnds
<1>10. CASE RestartChanged
  BY <1>0, <1>1, <1>10, RestartChangedEnds
<1>11. CASE Register
  <2>1. \/ loaded'[Touched] = file[Touched]
        \/ /\ ~run.changed /\ UNCHANGED loaded /\ cut \subseteq cut'
           /\ loaded[Touched] = Absent => Touched \in cut'
    BY <1>1, <1>3, <1>11, RegisterEffect DEF TurnEnds
  <2> QED BY <1>1, <1>11, <2>1, RegisterEnds
<1>12. ~WriteUnit /\ ~EnableNow /\ ~WriteScript /\ ~WriteXml
  BY <1>1, <1>3, StepsFacts, WriteUnitEffect, EnableNowEffect, WriteScriptEffect, WriteXmlEffect DEF TurnEnds
<1>13. ~Unload /\ ~DeleteFile
  BY <1>2, UnloadEffect, DeleteFileEffect
<1>14. ~RestartLaunchd /\ ~RestartSystemd /\ ~RestartOther
  BY RestartLaunchdEffect, RestartSystemdEffect, RestartOtherEffect
<1> QED BY <1>5, <1>6, <1>7, <1>8, <1>9, <1>10, <1>11, <1>12, <1>13, <1>14 DEF CommandStep

(***************************************************************************)
(* What a command answers.                                                 *)
(***************************************************************************)
Reply(n, verb) ==
  B(n) \in {"launchd", "systemd"} =>
    IF verb = "start" THEN Current(n) \/ U(n) \in cut
    ELSE running[U(n)] \in StartOf(loaded[U(n)]) /\ (Launchd => loaded[U(n)] = file[U(n)])

LEMMA AnsweredAs ==
    Answered <=> (run.verb \in {"start", "restart"} /\ run.queue = <<>> /\ run.failed = {} => Reply(run.name, run.verb))
  BY DEF Answered, Reply, B, U

\* The service of a command whose turn is over without a failure has what it asked for.
LEMMA AnsweredTurn ==
    ASSUME Typed, Positions, Supervision, CommandStep, run.verb \in {"start", "restart"},
           run'.queue = <<>>, run'.failed = {}, NEW s, s = Subject, B(s) \in {"launchd", "systemd"}
    PROVE  IF run.verb = "start" THEN CurrentAfter(s)
           ELSE running'[U(s)] \in StartOf(loaded'[U(s)]) /\ (Launchd => loaded'[U(s)] = file'[U(s)])
<1>1. TurnFacts /\ Placed
  BY TurnFactsLemma DEF Positions
<1>2. ~Removing /\ Now = U(s) /\ UnitWords(s) /\ run.verb # "apply" /\ D = spec[s] /\ s \in Declared
  BY <1>1 DEF TurnFacts, SubjectWords, NowWords
<1>3. Supervised(D)
  BY <1>2 DEF UnitWords, Supervised, Templated
<1>4. /\ Way \notin {"brew", "elsewhere", "task", "generated systemd", "generated launchd"} \cup CommandWays
      /\ Way \in {"launchd", "systemd", "refused"}
  BY <1>1, <1>2, <1>3 DEF TurnFacts, SubjectWords, Ways, CommandWays
<1>5. Touched = U(s)
  BY <1>2, <1>4 DEF Touched
<1>6. ~Ended({Subject}) /\ \A st, c, w : ~On(st, c, w)
  BY <1>1 DEF Ended, On, TurnFacts
<1>7. ~Skip /\ ~Elsewhere /\ ~WriteScript /\ ~Unload /\ ~DeleteFile /\ ~Register /\ ~WriteXml /\ ~Starts /\ ~RestartOther
  <2>1. ~Skip /\ ~Elsewhere /\ ~WriteScript /\ ~Unload /\ ~DeleteFile
    BY <1>2, SkipEffect, ElsewhereEffect, WriteScriptEffect, UnloadEffect, DeleteFileEffect
  <2>2. ~Register /\ ~Starts /\ ~RestartOther
    BY <1>4, RegisterEffect, StartsEffect, RestartOtherEffect DEF CommandWays
  <2>3. ~WriteXml
    BY <1>6, WriteXmlEffect
  <2> QED BY <2>1, <2>2, <2>3
<1>8. ~WriteUnit /\ ~RestartLaunchd /\ ~EnableNow
  BY <1>6, WriteUnitEffect, RestartLaunchdEffect, EnableNowEffect
<1>9. Way \in Ways => TurnEnds(s)
  BY <1>1, <1>2, TurnEndsLemma
<1>10. CASE Bootout
  <2>1. run.pc = "written" /\ Way = "launchd" /\ run'.pc = "pick"
    BY <1>6, <1>10, BootoutEffect DEF Ended
  <2>2. run.verb = "start"
    BY <1>2, <2>1 DEF Positions, AtWritten
  <2> QED BY <1>9, <1>10, <2>1, <2>2, BootoutEnds DEF Ways
<1>11. CASE Bootstrap
  <2>1. PICK r \in StartOf(file[Touched]) : Becomes(file[Touched], file[Touched], r)
    BY <1>6, <1>11, BootstrapEffect
  <2>2. run.pc = "out" /\ Way \in Ways
    BY <1>11, BootstrapEffect DEF Positions, AtOut, Ways
  <2>3. CASE run.verb = "start"
    BY <1>9, <1>11, <2>1, <2>2, <2>3, BootstrapEnds
  <2>4. CASE run.verb = "restart"
    BY <1>5, <2>1, <2>4 DEF Becomes
  <2> QED BY <2>3, <2>4
<1>12. CASE RestartChanged
  <2>1. run.pc = "enabled"
    BY <1>12, RestartChangedEffect
  <2>2. run.verb = "start" /\ Way \in Ways
    BY <1>2, <2>1 DEF Positions, AtEnabled, Ways
  <2> QED BY <1>9, <1>12, <2>2, RestartChangedEnds
<1>13. CASE RestartSystemd
  <2>1. run.verb = "restart" /\ Way = "systemd"
    BY <1>13, RestartSystemdEffect
  <2>2. PICK held : \E r \in StartOf(held) : Becomes(file[Touched], held, r)
    BY <1>6, <1>13, RestartSystemdEffect
  <2>3. ~Launchd
    BY <1>1, <1>2, <2>1 DEF TurnFacts, SubjectWords, UnitWords, Ways
  <2> QED BY <1>5, <2>1, <2>2, <2>3 DEF Becomes
<1> QED BY <1>7, <1>8, <1>10, <1>11, <1>12, <1>13 DEF CommandStep

LEMMA AnsweredStep == ASSUME Typed, Positions, Supervision, Answered, ServicesNext PROVE Answered'
<1>1. CASE CommandStep
  <2>1. Kept /\ ~Idle /\ run.queue # <<>> /\ SubjectWords
    BY <1>1, CommandStepTurn, SubjectLemma DEF Positions, Turn, Sparing
  <2>2. run'.verb = run.verb /\ run'.name = run.name
    BY <1>1, SameCommand DEF Ended, On
  <2>9. Answered' <=> (run.verb \in {"start", "restart"} /\ run.queue = <<>> /\ run.failed = {} => Reply(run.name, run.verb))'
    BY AnsweredAs, PTL
  <2> SUFFICES ASSUME run.verb \in {"start", "restart"}, run'.queue = <<>>, run'.failed = {}
               PROVE  Reply(run.name, run.verb)'
    BY <2>2, <2>9
  <2>3. PICK n : n = run.name
    OBVIOUS
  <2>4. n = Subject
    BY <2>1, <2>3 DEF SubjectWords
  <2>5. B(n)' = B(n) /\ U(n)' = U(n) /\ (Launchd' <=> Launchd)
    BY <2>1, KeptUnits, KeptNames
  <2>6. B(n) \in {"launchd", "systemd"} =>
           IF run.verb = "start" THEN CurrentAfter(n)
           ELSE running'[U(n)] \in StartOf(loaded'[U(n)]) /\ (Launchd => loaded'[U(n)] = file'[U(n)])
    BY <1>1, <2>4, AnsweredTurn
  <2>7. CurrentAfter(n) => Current(n)' \/ U(n) \in cut'
    BY <2>1, CurrentBecomes DEF CurrentAfter
  <2>8. \A m, v : m = run.name /\ v = run.verb => Reply(m, v)'
    BY <2>3, <2>5, <2>6, <2>7 DEF Reply
  <2> QED BY <2>2, <2>8
<1>2. CASE Closing
  BY <1>2, ClosingFacts, NoRunFacts DEF Answered
<1>3. CASE Opening
  <2>1. run = NoRun
    BY <1>3, OpeningIdle, IdleRun
  <2>2. ~(run'.verb \in {"start", "restart"} /\ run'.queue = <<>>)
    <3>1. StartApply => run'.verb = "apply"
      BY NoRunFacts DEF StartApply, NoRun
    <3>2. \A n \in Names, v \in {"start", "restart"} :
            run' = [NoRun EXCEPT !.verb = v, !.name = n, !.pc = "pick", !.queue = <<n>>] => run'.queue # <<>>
      BY DEF NoRun
    <3>3. \A n \in Names : StartService(n) \/ RestartService(n) => run'.queue # <<>> \/ run' = NoRun
      BY <2>1, <3>2 DEF StartService, RestartService
    <3>4. \A n \in Names : StopService(n) => run' = NoRun
      BY <2>1 DEF StopService
    <3>5. Environment => run' = NoRun
      BY <2>1 DEF Environment, EditSpec, EditTemplate, NewDay, Ends, Unregistered, Around
    <3> QED BY <1>3, <3>1, <3>3, <3>4, <3>5, NoRunFacts DEF Opening
  <2> QED BY <2>2 DEF Answered
<1> QED BY <1>1, <1>2, <1>3, NextSteps

\* The answer that a step gives is true once it has been made.
TrueAnswer ==
  \A n \in Names : said' # said /\ said'.result = "ok" /\ said'.name = n =>
    LET u == UnitOf(n, spec[n])
    IN Backend(spec[n]) \in {"launchd", "systemd"} =>
         CASE said'.verb = "stop"    -> running'[u] = Absent
           [] said'.verb = "start"   -> Current(n)' \/ u \in cut'
           [] said'.verb = "restart" -> /\ running'[u] \in StartOf(loaded'[u])
                                        /\ Launchd => loaded'[u] = file'[u]

\* What a stop answers.
LEMMA StopAnswer ==
    ASSUME Typed, Positions, NEW n \in Names, StopService(n), said'.result = "ok"
    PROVE  said'.verb = "stop" /\ said'.name = n /\ (B(n) \in {"launchd", "systemd"} => running'[U(n)] = Absent)
<1>1. /\ StopWay(n) # "refused" /\ StoppedUnit(n) # NoId
      /\ Put(StoppedUnit(n), file[StoppedUnit(n)], IF StopWay(n) = "launchd" THEN Absent ELSE loaded[StoppedUnit(n)], Absent)
      /\ Answer("stop", n, "ok")
  <2>1. ASSUME \E r \in {"refused", "failed"} : Answer("stop", n, r) PROVE FALSE
    BY <2>1 DEF Answer
  <2> QED BY <2>1, StopServiceParts
<1>2. said'.verb = "stop" /\ said'.name = n
  BY <1>1 DEF Answer
<1>3. ASSUME B(n) \in {"launchd", "systemd"} PROVE running'[U(n)] = Absent
  <2>1. UnitWords(n) /\ U(n) \in UnitIds \cup {NoId}
    BY UnitLemma, UnitKind, TypedInputs DEF UnitVocab
  <2>2. PICK d : d = [spec[n] EXCEPT !.start = spec[n].stop]
    OBVIOUS
  <2>3. d.brew = spec[n].brew /\ d.plist = spec[n].plist /\ d.unit = spec[n].unit
    BY <2>2, TypedInputs DEF InputsOK, Forms
  <2>4. StopWay(n) = StartWay(d)
    BY <2>2 DEF StopWay
  <2>5. StartWay(d) \in {"launchd", "systemd", "refused"}
    BY <1>3, <2>1, <2>3 DEF UnitWords, StartWay
  <2>6. StoppedUnit(n) = U(n)
    BY <1>1, <2>4, <2>5 DEF StoppedUnit, U
  <2>7. U(n) \in UnitIds
    BY <1>1, <2>1, <2>6
  <2> QED BY <1>1, <2>6, <2>7, TypedUnits DEF Put
<1> QED BY <1>2, <1>3

LEMMA TrueAnswerStep == ASSUME Typed, Positions, Answered, ServicesNext PROVE TrueAnswer
<1>1. CASE CommandStep
  BY <1>1, CommandStepTurn DEF Turn, Sparing, TrueAnswer
<1>2. CASE EndApply \/ Killed
  BY <1>2 DEF EndApply, Killed, TrueAnswer
<1>3. CASE Refused
  BY <1>3 DEF Refused, Answer, TrueAnswer
<1>4. CASE EndCommand
  <2> SUFFICES ASSUME NEW n \in Names, said'.result = "ok", said'.name = n, B(n) \in {"launchd", "systemd"}
               PROVE  CASE said'.verb = "stop"    -> running'[U(n)] = Absent
                        [] said'.verb = "start"   -> Current(n)' \/ U(n) \in cut'
                        [] said'.verb = "restart" -> /\ running'[U(n)] \in StartOf(loaded'[U(n)])
                                                     /\ Launchd => loaded'[U(n)] = file'[U(n)]
    BY DEF TrueAnswer, U, B
  <2>1. /\ run.verb \in {"start", "restart"} /\ run.queue = <<>> /\ Unaltered /\ Kept /\ UNCHANGED script /\ cut \subseteq cut'
        /\ Answer(run.verb, run.name, IF run.failed = {} THEN "ok" ELSE "failed")
    BY <1>4 DEF EndCommand, supervisor, Unaltered, Kept
  <2>2. said'.verb = run.verb /\ run.name = n /\ run.failed = {}
    BY <2>1 DEF Answer
  <2>3. Reply(n, run.verb)
    BY <2>1, <2>2, AnsweredAs
  <2>4. Current(n) => Current(n)'
    BY <2>1, CurrentIs, CurrentBecomes DEF CurrentAt, Unaltered
  <2>5. CASE run.verb = "start"
    BY <2>1, <2>2, <2>3, <2>4, <2>5 DEF Reply
  <2>6. CASE run.verb = "restart"
    BY <2>1, <2>2, <2>3, <2>6 DEF Reply, Unaltered
  <2> QED BY <2>1, <2>5, <2>6
<1>5. CASE StartApply \/ Environment
  <2>1. said' = said \/ said' = Nothing
    BY <1>5, StartApplyFacts DEF Environment, EditSpec, EditTemplate, NewDay, Ends, Unregistered, Around
  <2>2. Nothing.result # "ok"
    BY DEF Nothing
  <2>3. said' = Nothing => TrueAnswer
    BY <2>2 DEF TrueAnswer
  <2>4. said' = said => TrueAnswer
    BY DEF TrueAnswer
  <2> QED BY <2>1, <2>3, <2>4
<1>6. ASSUME NEW n \in Names, StartService(n) \/ RestartService(n) PROVE TrueAnswer
  <2>1. PICK why : why = "dependency down"
    OBVIOUS
  <2>2. why # "ok"
    BY <2>1
  <2>3. said' = Nothing \/ Answer("restart", n, why)
    BY <1>6, <2>1 DEF StartService, RestartService
  <2>4. Nothing.result # "ok"
    BY DEF Nothing
  <2>5. Answer("restart", n, why) => said'.result # "ok"
    BY <2>2 DEF Answer
  <2> QED BY <2>3, <2>4, <2>5 DEF TrueAnswer
<1>7. ASSUME NEW n \in Names, StopService(n) PROVE TrueAnswer
  <2> SUFFICES ASSUME said'.result = "ok" PROVE TrueAnswer
    BY DEF TrueAnswer
  <2>1. said'.verb = "stop" /\ said'.name = n /\ (B(n) \in {"launchd", "systemd"} => running'[U(n)] = Absent)
    BY <1>7, StopAnswer
  <2> QED BY <2>1 DEF TrueAnswer, B, U
<1> QED BY <1>1, <1>2, <1>3, <1>4, <1>5, <1>6, <1>7, NextSteps DEF Opening, Closing

LEMMA VisitedStep ==
    ASSUME Typed, Positions, Supervision, NotesAreTrue, Visited, ServicesNext
    PROVE  Visited'
<1> SUFFICES ASSUME run'.verb = "apply", NEW n \in Declared', n \notin ToSet(run'.queue), n \notin run'.failed
             PROVE  FineOrSwept(n)'
  BY DEF Visited, ToSet
<1>1. CASE CommandStep
  <2>1. TurnFacts
    BY <1>1, TurnFactsLemma
  <2>2. Declared' = Declared /\ n \in Declared
    BY <2>1, KeptNames DEF TurnFacts, Sparing
  <2>3. run.verb = "apply"
    BY <1>1, SameCommand
  <2>4. CASE n = Subject
    <3>1. Fine(n)'
      BY <1>1, <2>2, <2>3, <2>4, SubjectEnds
    <3> QED BY <3>1 DEF Fine, FineOrSwept
  <2>5. CASE n # Subject
    <3>1. n \notin ToSet(run.queue) /\ n \notin run.failed
      BY <1>1, <2>5, SameCommand DEF Ended, On
    <3>2. FineOrSwept(n)
      BY <2>2, <2>3, <3>1 DEF Visited
    <3> QED BY <1>1, <2>2, <2>3, <2>5, <3>2, OthersStay
  <2> QED BY <2>4, <2>5
<1>2. CASE Opening
  <2>1. Idle /\ run = NoRun
    BY <1>2, OpeningIdle, IdleRun
  <2>2. StartApply
    <3>1. run.verb # "apply"
      BY <2>1, NoRunFacts
    <3>2. ASSUME NEW m \in Names, StartService(m) PROVE FALSE
      BY <3>2, StartedRun DEF StartService, Commanded, inputs
    <3>3. ASSUME NEW m \in Names, RestartService(m) PROVE FALSE
      BY <3>1, <3>3, StartedRun DEF RestartService, Commanded, inputs
    <3>4. ASSUME NEW m \in Names, StopService(m) PROVE FALSE
      BY <3>1, <3>4, StopServiceParts
    <3>5. Environment => run' = run
      BY DEF Environment, EditSpec, EditTemplate, NewDay, Ends, Unregistered, Around
    <3> QED BY <1>2, <3>1, <3>2, <3>3, <3>4, <3>5 DEF Opening
  <2>3. spec' = spec /\ ToSet(run'.queue) = {m \in Names : spec[m] # Undeclared \/ lock[m] # Unlocked}
    BY <2>2, StartApplyFacts DEF inputs
  <2> QED BY <2>3 DEF Declared
<1>3. CASE Closing
  BY <1>3, ClosingFacts, NoRunFacts
<1> QED BY <1>1, <1>2, <1>3, NextSteps

(***************************************************************************)
(* Between a complete apply and the end of the next one nothing has to be  *)
(* done.                                                                   *)
(***************************************************************************)
\* How a unit is named does not depend on the date, nor on the lock.
LEMMA SameUnits ==
    ASSUME UNCHANGED <<platform, template>>
    PROVE  /\ (Launchd' <=> Launchd) /\ (Systemd' <=> Systemd) /\ (Schtasks' <=> Schtasks)
           /\ \A d : Backend(d)' = Backend(d)
           /\ \A n, d : UnitOf(n, d)' = UnitOf(n, d)
           /\ \A d : Generated(d)' = Generated(d)
           /\ \A s : FromTemplate(s)' = FromTemplate(s)
           /\ \A n, d : SpecToLock(n, d)' = SpecToLock(n, d)
<1>1. (Launchd' <=> Launchd) /\ (Systemd' <=> Systemd) /\ (Schtasks' <=> Schtasks)
  BY DEF Launchd, Systemd, Schtasks
<1>2. \A d : Backend(d)' = Backend(d)
  BY <1>1 DEF Backend
<1>3. \A s : FromTemplate(s)' = FromTemplate(s) /\ (HasLabel(s)' <=> HasLabel(s))
  BY DEF FromTemplate, HasLabel, Renders
<1>4. \A n, d : UnitOf(n, d)' = UnitOf(n, d)
  BY <1>2, <1>3 DEF UnitOf, SystemdId
<1>5. \A d : Generated(d)' = Generated(d)
  BY <1>1 DEF Generated
<1>6. \A n, d : SpecToLock(n, d)' = SpecToLock(n, d)
  BY <1>3 DEF SpecToLock, Noted, SystemdId
<1> QED BY <1>1, <1>2, <1>3, <1>4, <1>5, <1>6

\* A step that touches no unit leaves what is fine as it is.
LEMMA FineKept ==
    ASSUME UNCHANGED <<platform, spec, template, today, file, loaded, running, script>>, cut \subseteq cut',
           NEW n, Fine(n)
    PROVE  Fine(n)'
<1>1. /\ Declared' = Declared /\ U(n)' = U(n) /\ B(n)' = B(n)
      /\ \A m : UnitOf(m, spec[m])' = UnitOf(m, spec[m])
  BY SameUnits DEF Declared, U, B
<1>2. Scripted(n)' <=> Scripted(n)
  BY <1>1 DEF Scripted, B
<1>3. Excused(n) => Excused(n)'
  BY <1>1 DEF Excused, Twin
<1>4. Current(n)' <=> CurrentAt(n, file, loaded, running, script)'
  BY CurrentIs, PTL
<1>5. \A f, g : SameText(f, g)' <=> SameText(f, g)
  BY DEF SameText
<1>6. \A t : TaskXml(t)' = TaskXml(t)
  BY DEF TaskXml
<1>7. CurrentAt(n, file, loaded, running, script)' <=> CurrentAt(n, file, loaded, running, script)
  BY <1>1, <1>5, <1>6, SameUnits DEF CurrentAt
<1>8. Current(n)' <=> Current(n)
  BY <1>4, <1>7, CurrentIs
<1> QED BY <1>2, <1>3, <1>8 DEF Fine

\* What a lock that follows the spec says of a declared service.
LEMMA FollowedLock ==
    ASSUME Typed, NEW n \in Names, lock[n] = SpecToLock(n, spec[n])
    PROVE  /\ n \in Declared => Kind(n) = "ok" /\ lock[n] # Unlocked
           /\ n \notin Declared => Kind(n) = "ok" /\ lock[n] = Unlocked
<1>1. CASE n \in Declared
  <2>1. spec[n] # Undeclared /\ DeclarationOk(spec[n])
    BY <1>1 DEF Declared, Typed, Valid
  <2>2. PICK l : l = lock[n]
    OBVIOUS
  <2>3. l = Noted(n, spec[n])
    BY <2>1, <2>2 DEF SpecToLock
  <2>4. /\ l.brew = spec[n].brew /\ l.plist = spec[n].plist /\ l.unit = spec[n].unit /\ l.task = spec[n].task
        /\ l.start = spec[n].start /\ l.stop = spec[n].stop /\ l.restart = spec[n].restart /\ l.status = spec[n].status
    BY <2>3 DEF Noted
  <2>5. spec[n].start # <<>> \/ spec[n].brew # "" \/ spec[n].plist # "" \/ spec[n].unit # "" \/ spec[n].task.action # ""
    BY <2>1 DEF DeclarationOk, Supervised, Templated, Tasked
  <2>6. l # Unlocked
    <3>1. Unlocked.brew = "" /\ Unlocked.plist = "" /\ Unlocked.unit = "" /\ Unlocked.task.action = "" /\ Unlocked.start = <<>>
      BY DEF Unlocked, NoTask
    <3> QED BY <2>4, <2>5, <3>1
  <2>7. Same(spec[n], l)
    BY <2>4 DEF Same
  <2> QED BY <1>1, <2>1, <2>2, <2>6, <2>7 DEF Kind
<1>2. CASE n \notin Declared
  <2>1. spec[n] = Undeclared
    BY <1>2 DEF Declared
  <2>2. lock[n] = Unlocked
    BY <2>1 DEF SpecToLock
  <2> QED BY <1>2, <2>1, <2>2 DEF Kind
<1> QED BY <1>1, <1>2

\* Where the lock follows the spec, no unit has to be taken down.
LEMMA NothingSwept ==
    ASSUME Typed, lock = [m \in Names |-> SpecToLock(m, spec[m])], NEW n
    PROVE  ~Swept(n)
<1> SUFFICES ASSUME NEW m \in Names \ Declared, RemovalId(m, lock[m])[1] = "own" PROVE FALSE
  BY DEF Swept
<1>1. lock[m] = Unlocked
  BY FollowedLock
<1>2. RemovalId(m, Unlocked) \in {GenId(m), NoId}
  <2>1. RemovalWay(Unlocked) \in {"systemd", "launchd", "elsewhere"}
    BY DEF RemovalWay, Unlocked
  <2>2. Unlocked.label = NoId /\ Unlocked.base = NoId
    BY DEF Unlocked
  <2> QED BY <2>1, <2>2 DEF RemovalId
<1>3. NoId[1] = "" /\ GenId(m)[1] = "genv"
  BY DEF NoId, GenId
<1> QED BY <1>1, <1>2, <1>3

\* The service whose turn it is, in an apply that has nothing to do.
LEMMA AgainTurn ==
    ASSUME Typed, Positions, AgainIn, run.again, TurnFacts, NEW s, s = Subject
    PROVE  /\ TurnEnds(s) /\ Fine(s) /\ Kind(s) = "ok" /\ (Due => Supervised(spec[s])) /\ Touched = U(s)
           /\ \A n \in Names : lock[n] = SpecToLock(n, spec[n])
<1>1. run.verb = "apply" /\ InOrder
  BY DEF AgainIn
<1>2. \A n \in Names : lock[n] = SpecToLock(n, spec[n])
  BY <1>1 DEF InOrder
<1>3. s \in Names /\ s \in ToSet(run.queue) /\ run.queue # <<>> /\ ~Idle
  BY DEF TurnFacts, SubjectWords
<1>4. spec[s] # Undeclared \/ lock[s] # Unlocked
  BY <1>1, <1>3 DEF Positions, Placed
<1>5. s \in Declared
  BY <1>2, <1>3, <1>4, FollowedLock DEF Declared
<1>6. TurnEnds(s) /\ Kind(s) = "ok" /\ Fine(s)
  BY <1>1, <1>2, <1>3, <1>5, TurnEndsLemma, FollowedLock DEF InOrder
<1>7. Due => Supervised(spec[s])
  BY <1>1, <1>6 DEF Due, TurnEnds
<1>8. Touched = U(s)
  BY <1>6 DEF Touched, TurnEnds, UnitWords, Ways, CommandWays
<1> QED BY <1>2, <1>6, <1>7, <1>8

\* What such a turn may do to its service.
Calm(s) ==
  /\ UNCHANGED script /\ Fine(s)'
  /\ \/ Excused(s)
     \/ U(s) \in UnitIds => /\ file'[U(s)] = file[U(s)]
                            /\ running'[U(s)] # running[U(s)] => Systemd /\ running[U(s)] = Absent
                            /\ Systemd \/ loaded'[U(s)] = loaded[U(s)]
  /\ run'.pc \in {"written", "enabled", "script"} => Supervised(spec[s])
  /\ run'.pc \in {"written", "enabled", "script"} /\ run'.changed => Excused(s)'
  /\ run'.pc = "out" => Supervised(spec[s]) /\ (Excused(s)' \/ loaded'[U(s)] # Absent)

\* The turn of a service that is fine.
AgainAt(s) ==
  /\ TurnEnds(s) /\ Fine(s) /\ (Due => Supervised(spec[s])) /\ Touched = U(s)
  /\ run.pc \in {"written", "enabled", "script"} => Supervised(spec[s])
  /\ run.pc \in {"written", "enabled", "script"} /\ run.changed => Excused(s)
  /\ run.pc = "out" => Supervised(spec[s]) /\ (Excused(s) \/ loaded[U(s)] # Absent)

LEMMA ExcusedStays ==
    ASSUME NEW s, TurnEnds(s), Excused(s), U(s) \in cut => U(s) \in cut'
    PROVE  Excused(s)'
  BY TwinStays DEF TurnEnds, Excused, U

LEMMA UnitStays ==
    ASSUME NEW s, TurnEnds(s), Fine(s), script'[s] = script[s],
           U(s) \in UnitIds => file'[U(s)] = file[U(s)] /\ running'[U(s)] = running[U(s)] /\ loaded'[U(s)] = loaded[U(s)],
           U(s) \in cut => U(s) \in cut'
    PROVE  Fine(s)'
<1>1. Scripted(s)'
  BY TwinStays DEF TurnEnds, Fine, Scripted, B
<1>2. Excused(s) => Excused(s)'
  BY ExcusedStays
<1>3. ASSUME Current(s) PROVE Current(s)'
  <2>1. CurrentAt(s, file, loaded, running, script) /\ Kept
    BY <1>3, CurrentIs DEF TurnEnds
  <2>2. U(s) \in UnitIds \/ (U(s) = NoId /\ B(s) \in {"launchd", "elsewhere"})
    BY IdFacts DEF UnitWords, TurnEnds
  <2>3. B(s) \in {"launchd", "task"} => ~Systemd
    BY DEF UnitWords, TurnEnds
  <2>4. CurrentAt(s, file', loaded', running', script')
    <3>1. CASE U(s) \in UnitIds
      BY <2>1, <2>3, <3>1 DEF CurrentAt
    <3>2. CASE U(s) = NoId /\ B(s) \in {"launchd", "elsewhere"}
      BY <2>1, <3>2 DEF CurrentAt
    <3> QED BY <2>2, <3>1, <3>2
  <2> QED BY <2>1, <2>4, CurrentBecomes
<1> QED BY <1>1, <1>2, <1>3 DEF Fine

\* A turn that ends and touches nothing.
LEMMA CalmEnd ==
    ASSUME NEW s, AgainAt(s), Unaltered, UNCHANGED script, run'.pc = "pick", U(s) \in cut => U(s) \in cut'
    PROVE  Calm(s)
<1>1. Fine(s)'
  BY UnitStays DEF AgainAt, Unaltered
<1> QED BY <1>1 DEF Calm, Unaltered

\* The steps of a turn that has nothing to do.
LEMMA WriteUnitCalm ==
    ASSUME Typed, Positions, NEW s, AgainAt(s), WriteUnit
    PROVE  Calm(s)
<1>1. /\ Due /\ Way \in WritingWays /\ UNCHANGED <<loaded, running, script, cut>>
      /\ \/ On("written", Templated(D) => file[Touched] # Wanted, FALSE) /\ file'[Touched] = Wanted
         \/ Ended({Subject}) /\ Unaltered
  BY WriteUnitEffect DEF Becomes
<1>2. Supervised(spec[s]) /\ Way \in {"launchd", "systemd"} /\ Templated(D)
  BY <1>1 DEF AgainAt, TurnEnds, UnitWords, WritingWays, Templated
<1>3. CASE Ended({Subject}) /\ Unaltered
  BY <1>1, <1>3, CalmEnd DEF Ended
<1>4. CASE On("written", Templated(D) => file[Touched] # Wanted, FALSE) /\ file'[Touched] = Wanted
  <2>1. run'.pc = "written" /\ (run'.changed => file[U(s)] # Wanted) /\ file'[U(s)] = Wanted
    BY <1>2, <1>4 DEF On, AgainAt
  <2>2. Current(s) => file[U(s)] = Wanted
    BY <1>2, CurrentIs DEF CurrentAt, AgainAt, TurnEnds, NowWords
  <2>3. Excused(s) => Excused(s)'
    BY <1>1, ExcusedStays DEF AgainAt
  <2>4. Current(s) \/ Excused(s)
    BY DEF AgainAt, Fine
  <2>5. Fine(s)'
    <3>1. CASE Current(s)
      BY <1>1, <2>1, <2>2, <3>1, UnitStays DEF AgainAt
    <3>2. CASE Excused(s)
      <4>1. Scripted(s)'
        BY <1>1, TwinStays DEF AgainAt, TurnEnds, Fine, Scripted, B
      <4> QED BY <2>3, <3>2, <4>1 DEF Fine
    <3> QED BY <2>4, <3>1, <3>2
  <2> QED BY <1>1, <1>2, <2>1, <2>2, <2>3, <2>4, <2>5 DEF Calm
<1> QED BY <1>1, <1>3, <1>4

LEMMA BootoutCalm ==
    ASSUME Typed, Positions, NEW s, AgainAt(s), Bootout
    PROVE  Calm(s)
<1>1. /\ run.pc = "written" /\ Way \in {"launchd", "generated launchd"} /\ UNCHANGED <<script, cut>>
      /\ \/ Ended({}) /\ Unaltered
         \/ /\ \E w \in BOOLEAN : On("out", run.changed, w)
            /\ Way = "generated launchd" \/ run.changed \/ Unaltered
  BY BootoutEffect
<1>2. Supervised(spec[s]) /\ Way = "launchd" /\ B(s) = "launchd"
  BY <1>1 DEF AgainAt, TurnEnds, UnitWords
<1>3. CASE Ended({}) /\ Unaltered
  BY <1>1, <1>3, CalmEnd DEF Ended
<1>4. CASE /\ \E w \in BOOLEAN : On("out", run.changed, w)
           /\ Way = "generated launchd" \/ run.changed \/ Unaltered
  <2>1. run'.pc = "out"
    BY <1>4 DEF On
  <2>2. CASE Excused(s)
    <3>1. Excused(s)' /\ Scripted(s)'
      BY <1>1, <1>2, <2>2, ExcusedStays, TwinStays DEF AgainAt, TurnEnds
    <3> QED BY <1>1, <1>2, <2>1, <2>2, <3>1 DEF Calm, Fine
  <2>3. CASE ~Excused(s)
    <3>1. Unaltered
      BY <1>1, <1>2, <1>4, <2>3 DEF AgainAt
    <3>2. FromTemplate(spec[s].plist) # Absent
      BY <1>2 DEF AgainAt, TurnEnds, NowWords, WritingWays
    <3>3. loaded[U(s)] # Absent
      BY <1>2, <2>3, <3>2, CurrentIs DEF CurrentAt, AgainAt, Fine
    <3>4. Fine(s)'
      BY <1>1, <3>1, UnitStays DEF AgainAt, Unaltered
    <3> QED BY <1>1, <1>2, <2>1, <3>1, <3>3, <3>4 DEF Calm, Unaltered
  <2> QED BY <2>2, <2>3
<1> QED BY <1>1, <1>3, <1>4

LEMMA BootstrapCalm ==
    ASSUME Typed, Positions, run.verb = "apply", NEW s, AgainAt(s), Bootstrap
    PROVE  Calm(s)
<1>1. /\ run.pc = "out" /\ UNCHANGED script
      /\ \/ /\ Ended({}) /\ loaded[Touched] = Absent
            /\ \E r \in StartOf(file[Touched]) : Becomes(file[Touched], file[Touched], r)
         \/ Ended({Subject}) /\ Unaltered /\ cut \subseteq cut'
  BY BootstrapEffect
<1>2. run'.pc = "pick" /\ Touched = U(s)
  BY <1>1 DEF AgainAt, Ended
<1>3. CASE /\ loaded[Touched] = Absent
           /\ \E r \in StartOf(file[Touched]) : Becomes(file[Touched], file[Touched], r)
  <2>1. CurrentAfter(s)
    BY <1>3, BootstrapEnds DEF AgainAt
  <2>2. Fine(s)'
    BY <2>1, FineAfter DEF AgainAt, CurrentAfter
  <2>3. Excused(s)
    BY <1>1, <1>2, <1>3 DEF AgainAt
  <2> QED BY <1>1, <1>2, <2>2, <2>3 DEF Calm
<1>4. CASE Unaltered /\ cut \subseteq cut'
  BY <1>1, <1>2, <1>4, CalmEnd
<1> QED BY <1>1, <1>3, <1>4

LEMMA EnableNowCalm ==
    ASSUME Typed, Positions, NEW s, AgainAt(s), EnableNow
    PROVE  Calm(s)
<1>1. /\ run.pc = "written" /\ Way \in {"systemd", "generated systemd"} /\ UNCHANGED <<file, script>> /\ cut \subseteq cut'
      /\ run'.pc = "pick" \/ (run'.pc = "enabled" /\ run'.changed = run.changed)
      /\ \/ running'[Touched] = running[Touched]
         \/ running[Touched] = Absent /\ running'[Touched] \in StartOf(loaded'[Touched])
      /\ loaded'[Touched] = file[Touched] \/ Touched \in cut'
  BY EnableNowEffect DEF Ended, On
<1>2. Supervised(spec[s]) /\ B(s) = "systemd" /\ Systemd /\ Touched = U(s)
  BY <1>1 DEF AgainAt, TurnEnds, UnitWords
<1>3. Excused(s) => Excused(s)'
  BY <1>1, ExcusedStays DEF AgainAt
<1>4. Current(s) \/ Excused(s)
  BY DEF AgainAt, Fine
<1>5. Scripted(s)'
  BY <1>2, TwinStays DEF AgainAt, TurnEnds
<1>6. U(s) \in cut' => Excused(s)'
  BY DEF AgainAt, TurnEnds, Excused, U
<1>7. ASSUME Current(s), loaded'[U(s)] = file[U(s)] PROVE Current(s)'
  <2>1. CurrentAt(s, file, loaded, running, script) /\ Kept
    BY <1>7, CurrentIs DEF AgainAt, TurnEnds
  <2>2. CurrentAt(s, file', loaded', running', script')
    BY <1>1, <1>2, <1>7, <2>1 DEF CurrentAt
  <2> QED BY <2>1, <2>2, CurrentBecomes
<1>8. Fine(s)'
  BY <1>1, <1>2, <1>3, <1>4, <1>5, <1>6, <1>7 DEF Fine
<1> QED BY <1>1, <1>2, <1>3, <1>8 DEF Calm, AgainAt

LEMMA RestartChangedCalm ==
    ASSUME Typed, Positions, Supervision, NEW s, AgainAt(s), RestartChanged
    PROVE  Calm(s)
<1>1. /\ run.pc = "enabled" /\ run'.pc = "pick" /\ UNCHANGED <<file, loaded, script>> /\ (run.changed \/ UNCHANGED running)
  BY RestartChangedEffect DEF Ended
<1>2. Fine(s)'
  BY RestartChangedEnds, FineAfter DEF AgainAt, CurrentAfter
<1>3. run.changed => Excused(s)
  BY <1>1 DEF AgainAt
<1> QED BY <1>1, <1>2, <1>3 DEF Calm

LEMMA WriteScriptCalm ==
    ASSUME Typed, Typed', Positions, TurnFacts, NEW s, AgainAt(s), WriteScript
    PROVE  Calm(s)
<1>1. /\ Due /\ Way = "task" /\ Unaltered /\ UNCHANGED cut
      /\ \/ /\ script'[Subject] = D.task.action
            /\ On("script", script[Subject] # D.task.action \/ file[Touched] # TaskXml(D.task), FALSE)
         \/ script[Subject] # D.task.action /\ UNCHANGED script
  BY WriteScriptEffect
<1>2. Supervised(spec[s]) /\ B(s) = "task" /\ script[s] = spec[s].task.action /\ s = Subject /\ D = spec[s]
  BY <1>1 DEF AgainAt, TurnEnds, Fine, Scripted, B
<1>3. script' = script
  <2>1. \A n \in Names : script'[n] = script[n]
    BY <1>1, <1>2 DEF TurnFacts, Sparing
  <2>2. script \in [Names -> Texts] /\ script' \in [Names -> Texts]
    BY DEF Typed
  <2> QED BY <2>1, <2>2
<1>4. run'.pc = "script" /\ (run'.changed => file[U(s)] # TaskXml(spec[s].task))
  BY <1>1, <1>2 DEF On, AgainAt
<1>5. Current(s) => file[U(s)] = TaskXml(spec[s].task)
  BY <1>2, CurrentIs DEF CurrentAt
<1>6. Excused(s) => Excused(s)'
  BY <1>1, ExcusedStays DEF AgainAt
<1>7. Fine(s)'
  BY <1>1, <1>3, UnitStays DEF AgainAt, Unaltered
<1>8. Current(s) \/ Excused(s)
  BY DEF AgainAt, Fine
<1> QED BY <1>1, <1>2, <1>3, <1>4, <1>5, <1>6, <1>7, <1>8 DEF Calm, Unaltered

LEMMA WriteXmlCalm ==
    ASSUME Typed, Positions, NEW s, AgainAt(s), WriteXml
    PROVE  Calm(s)
<1>1. /\ run.pc = "script" /\ UNCHANGED <<loaded, running, script, cut>>
      /\ \/ file'[Touched] = TaskXml(D.task) /\ On("written", run.changed, FALSE)
         \/ Ended({Subject}) /\ Unaltered
  BY WriteXmlEffect
<1>2. /\ Way = "task" /\ script[s] = spec[s].task.action /\ Supervised(spec[s]) /\ B(s) = "task"
      /\ ~run.changed => file[U(s)] = TaskXml(D.task)
  BY <1>1 DEF Positions, AtScript, AgainAt, TurnEnds
<1>3. CASE Ended({Subject}) /\ Unaltered
  BY <1>1, <1>3, CalmEnd DEF Ended
<1>4. CASE file'[Touched] = TaskXml(D.task) /\ On("written", run.changed, FALSE)
  <2>1. run'.pc = "written" /\ run'.changed = run.changed
    BY <1>4 DEF On
  <2>2. Excused(s) => Excused(s)'
    BY <1>1, ExcusedStays DEF AgainAt
  <2>3. run.changed => Excused(s)
    BY <1>1 DEF AgainAt
  <2>4. ~run.changed => file'[U(s)] = file[U(s)]
    BY <1>2, <1>4 DEF AgainAt
  <2>5. Fine(s)'
    <3>1. CASE ~run.changed
      BY <1>1, <2>4, <3>1, UnitStays DEF AgainAt
    <3>2. CASE run.changed
      <4>1. Scripted(s)'
        BY <1>1, <1>2, TwinStays DEF AgainAt, TurnEnds
      <4> QED BY <2>2, <2>3, <3>2, <4>1 DEF Fine
    <3> QED BY <3>1, <3>2
  <2> QED BY <1>1, <1>2, <2>1, <2>2, <2>3, <2>4, <2>5 DEF Calm
<1> QED BY <1>1, <1>3, <1>4

LEMMA RegisterCalm ==
    ASSUME Typed, Positions, Supervision, NEW s, AgainAt(s), Register
    PROVE  Calm(s)
<1>1. /\ run.pc = "written" /\ Way = "task" /\ UNCHANGED <<file, running, script>> /\ run'.pc = "pick"
      /\ \/ /\ run.changed \/ loaded[Touched] = Absent
            /\ loaded'[Touched] = file[Touched]
         \/ UNCHANGED loaded /\ cut \subseteq cut' /\ Ended({Subject})
         \/ /\ ~run.changed /\ UNCHANGED loaded /\ cut \subseteq cut'
            /\ loaded[Touched] = Absent => Touched \in cut'
  BY RegisterEffect DEF Ended
<1>2. TaskXml(spec[s].task) # Absent /\ B(s) = "task"
  BY <1>1 DEF AgainAt, TurnEnds, UnitWords, ValueWords
<1>3. Current(s) => loaded[U(s)] # Absent
  BY <1>2, CurrentIs DEF CurrentAt
<1>4. run.changed => Excused(s)
  BY <1>1 DEF AgainAt
<1>5. CASE /\ run.changed \/ loaded[Touched] = Absent
           /\ loaded'[Touched] = file[Touched]
  <2>1. Fine(s)'
    BY <1>5, RegisterEnds DEF AgainAt
  <2>2. Excused(s)
    BY <1>3, <1>4, <1>5 DEF AgainAt, Fine
  <2> QED BY <1>1, <2>1, <2>2 DEF Calm
<1>6. CASE UNCHANGED loaded /\ cut \subseteq cut'
  BY <1>1, <1>6, CalmEnd DEF Unaltered
<1> QED BY <1>1, <1>5, <1>6

LEMMA CalmTurn ==
    ASSUME Typed, Positions, Supervision, AgainIn, run.again, CommandStep, NEW s, s = Subject
    PROVE  Calm(s) /\ TurnEnds(s) /\ Touched = U(s)
<1>1. TurnFacts /\ Typed'
  BY TurnFactsLemma DEF TurnFacts
<1>2. AgainAt(s)
  BY <1>1, AgainTurn DEF AgainIn, AgainAt, TurnEnds
<1>3. run.verb = "apply" /\ ~Removing
  BY <1>2 DEF AgainIn, AgainAt, TurnEnds
<1>4. CASE Skip
  <2>1. Unaltered /\ UNCHANGED <<script, cut>> /\ run'.pc = "pick"
    BY <1>4, SkipEffect DEF Ended
  <2> QED BY <1>2, <2>1, CalmEnd DEF AgainAt
<1>5. CASE Elsewhere
  <2>1. Unaltered /\ UNCHANGED <<script, cut>> /\ run'.pc = "pick"
    BY <1>5, ElsewhereEffect DEF Ended
  <2> QED BY <1>2, <2>1, CalmEnd DEF AgainAt
<1>6. ~Starts
  <2>1. ASSUME Starts PROVE Supervised(spec[s]) /\ B(s) \in {"brew", "raw"}
    BY <1>2, <2>1, StartsEffect DEF AgainAt, TurnEnds
  <2> QED BY <1>2, <2>1 DEF AgainAt, TurnEnds, UnitWords, WayWords
<1>7. ~Unload /\ ~DeleteFile /\ ~RestartLaunchd /\ ~RestartSystemd /\ ~RestartOther
  BY <1>3, UnloadEffect, DeleteFileEffect, RestartLaunchdEffect, RestartSystemdEffect, RestartOtherEffect
<1>8. Calm(s)
  BY <1>1, <1>2, <1>3, <1>4, <1>5, <1>6, <1>7, WriteUnitCalm, BootoutCalm, BootstrapCalm, EnableNowCalm, RestartChangedCalm,
     WriteScriptCalm, WriteXmlCalm, RegisterCalm DEF CommandStep
<1> QED BY <1>2, <1>8 DEF AgainAt

LEMMA InOrderTurn ==
    ASSUME Typed, Positions, Supervision, AgainIn, run.again, CommandStep
    PROVE  InOrder'
<1>1. TurnFacts
  BY TurnFactsLemma
<1>2. /\ lock' = lock /\ spec' = spec /\ Declared' = Declared /\ run.verb = "apply" /\ Subject \in Names
      /\ \A n, d : SpecToLock(n, d)' = SpecToLock(n, d)
      /\ lock = [n \in Names |-> SpecToLock(n, spec[n])]
  BY <1>1, KeptNames, SameUnits DEF TurnFacts, Sparing, AgainIn, InOrder
<1>3. lock' = [n \in Names |-> SpecToLock(n, spec[n])']
  BY <1>2
<1>4. ASSUME NEW n \in Declared PROVE Fine(n)'
  <2>1. CASE n = Subject
    BY <2>1, CalmTurn DEF Calm
  <2>2. CASE n # Subject
    <3>1. Fine(n)
      BY DEF AgainIn, InOrder
    <3>2. FineOrSwept(n)
      BY <3>1 DEF Fine, FineOrSwept
    <3>3. FineOrSwept(n)'
      BY <1>2, <2>2, <3>2, OthersStay
    <3>4. ~Swept(n)'
      <4>1. Typed' /\ lock' = [m \in Names |-> SpecToLock(m, spec[m])']
        BY <1>1, <1>3 DEF TurnFacts
      <4> SUFFICES ASSUME NEW m \in Names \ Declared, RemovalId(m, lock[m])'[1] = "own" PROVE FALSE
        BY <1>2 DEF Swept
      <4>2. lock[m] = Unlocked
        BY <1>2, FollowedLock
      <4>3. RemovalId(m, lock[m])' = RemovalId(m, Unlocked)
        BY <1>1, <1>2, <4>2, KeptRemovals DEF TurnFacts, Sparing
      <4>4. RemovalId(m, Unlocked) \in {GenId(m), NoId}
        <5>1. RemovalWay(Unlocked) \in {"systemd", "launchd", "elsewhere"}
          BY DEF RemovalWay, Unlocked
        <5>2. Unlocked.label = NoId /\ Unlocked.base = NoId
          BY DEF Unlocked
        <5> QED BY <5>1, <5>2 DEF RemovalId
      <4>5. NoId[1] = "" /\ GenId(m)[1] = "genv"
        BY DEF NoId, GenId
      <4> QED BY <4>3, <4>4, <4>5
    <3> QED BY <3>3, <3>4 DEF Fine, FineOrSwept
  <2> QED BY <2>1, <2>2
<1> QED BY <1>2, <1>3, <1>4 DEF InOrder

LEMMA AgainStep ==
    ASSUME Typed, Positions, Supervision, SettledIn, AgainIn, ServicesNext
    PROVE  AgainIn'
<1>1. CASE CommandStep
  <2>1. CASE run.again
    <3>1. InOrder' /\ Calm(Subject) /\ TurnEnds(Subject) /\ run'.verb = "apply"
      <4>1. PICK s : s = Subject
        OBVIOUS
      <4>2. Calm(s) /\ TurnEnds(s)
        BY <1>1, <2>1, <4>1, CalmTurn
      <4> QED BY <1>1, <2>1, <4>1, <4>2, InOrderTurn, SameCommand DEF AgainIn
    <3>2. \/ run'.pc = "pick"
          \/ \E st \in Steps \ {"idle", "pick"} : \E c, w : On(st, c, w)
      BY <1>1, SameCommand DEF Ended
    <3>3. CASE run'.pc = "pick"
      BY <3>1, <3>3 DEF AgainIn
    <3>4. CASE \E st \in Steps \ {"idle", "pick"} : \E c, w : On(st, c, w)
      <4>1. PICK s : s = Subject
        OBVIOUS
      <4>2. Subject' = s /\ D' = spec[s] /\ Now' = U(s)
        BY <3>1, <3>4, <4>1 DEF On, TurnEnds
      <4>3. \A d : Supervised(d)' <=> Supervised(d)
        BY DEF Supervised, Templated, Tasked
      <4>4. Calm(s)
        BY <3>1, <4>1
      <4>5. Supervised(D)' <=> Supervised(spec[s])
        BY <4>2 DEF Supervised, Templated, Tasked
      <4>6. Excused(Subject)' <=> Excused(s)'
        BY <4>2 DEF Excused, Twin
      <4>7. loaded[Now]' = loaded'[U(s)]
        BY <4>2
      <4> QED BY <3>1, <4>4, <4>5, <4>6, <4>7 DEF AgainIn, Calm
    <3> QED BY <3>2, <3>3, <3>4
  <2>2. CASE ~run.again
    <3>1. ~run'.again
      BY <1>1, <2>2, SameCommand
    <3> QED BY <3>1 DEF AgainIn
  <2> QED BY <2>1, <2>2
<1>2. CASE Opening
  <2>1. Idle /\ run = NoRun
    BY <1>2, OpeningIdle, IdleRun
  <2>2. CASE StartApply
    <3>1. /\ UNCHANGED <<inputs, lock, supervisor, cut>> /\ run'.pc = "pick" /\ run'.verb = "apply"
          /\ run'.again = (clean /\ quiet)
      BY <2>2, StartApplyFacts
    <3>2. /\ UNCHANGED <<platform, spec, template, today, file, loaded, running, script, lock>> /\ cut \subseteq cut'
      BY <3>1 DEF inputs, supervisor
    <3> SUFFICES ASSUME clean /\ quiet PROVE InOrder'
      BY <3>1 DEF AgainIn
    <3>3. InOrder
      BY DEF SettledIn
    <3>4. Declared' = Declared /\ \A n \in Declared : Fine(n)'
      BY <3>2, <3>3, FineKept DEF InOrder, Declared
    <3>5. \A n, d : SpecToLock(n, d)' = SpecToLock(n, d)
      BY <3>2, SameUnits
    <3>6. lock' = [n \in Names |-> SpecToLock(n, spec[n])']
      BY <3>2, <3>3, <3>5 DEF InOrder
    <3> QED BY <3>2, <3>4, <3>6 DEF InOrder
  <2>3. CASE ~StartApply
    <3>1. ~run.again
      BY <2>1, NoRunFacts
    <3>2. ASSUME NEW m \in Names, StartService(m) PROVE ~run'.again
      BY <3>2, StartedRun DEF StartService, Commanded, inputs
    <3>3. ASSUME NEW m \in Names, RestartService(m) PROVE ~run'.again
      BY <3>1, <3>3, StartedRun DEF RestartService, Commanded, inputs
    <3>4. ASSUME NEW m \in Names, StopService(m) PROVE ~run'.again
      BY <3>1, <3>4, StopServiceParts
    <3>5. Environment => run' = run
      BY DEF Environment, EditSpec, EditTemplate, NewDay, Ends, Unregistered, Around
    <3>6. ~run'.again
      BY <1>2, <2>3, <3>1, <3>2, <3>3, <3>4, <3>5 DEF Opening
    <3> QED BY <3>6 DEF AgainIn
  <2> QED BY <2>2, <2>3
<1>3. CASE Closing
  <2>1. ~run'.again
    BY <1>3, ClosingFacts, NoRunFacts
  <2> QED BY <2>1 DEF AgainIn
<1> QED BY <1>1, <1>2, <1>3, NextSteps

LEMMA SettledStep ==
    ASSUME Typed, Positions, Visited, SettledIn, ServicesNext
    PROVE  SettledIn'
<1>1. CASE CommandStep
  <2>1. UNCHANGED <<quiet, clean>> /\ ~Idle
    BY <1>1, TurnFactsLemma DEF TurnFacts, Sparing
  <2> QED BY <2>1 DEF SettledIn
<1>2. CASE Opening
  <2>1. ~(clean' /\ quiet')
    BY <1>2, StartApplyFacts DEF Opening, StartService, RestartService, StopService, Commanded, Environment, EditSpec,
       EditTemplate, NewDay, Ends, Unregistered, Around
  <2> QED BY <2>1 DEF SettledIn
<1>3. CASE Closing /\ ~EndApply
  <2>1. ~Idle /\ quiet' = quiet
    BY <1>3, ClosingFacts
  <2>2. clean' = clean
    BY <1>3 DEF Closing, Killed, Refused, EndCommand, history
  <2> QED BY <2>1, <2>2 DEF SettledIn
<1>4. CASE EndApply
  <2> SUFFICES ASSUME clean' PROVE Idle' /\ InOrder'
    BY DEF SettledIn
  <2>1. /\ run.pc = "pick" /\ run.queue = <<>> /\ run.verb = "apply" /\ run.failed = {} /\ run' = NoRun
        /\ lock' = [n \in Names |-> SpecToLock(n, spec[n])] /\ cut \subseteq cut'
        /\ UNCHANGED <<platform, spec, template, today, file, loaded, running, script>>
    BY <1>4 DEF EndApply, inputs, supervisor
  <2>2. Idle'
    BY <2>1, NoRunFacts DEF Idle
  <2>3. Declared' = Declared /\ \A n, d : SpecToLock(n, d)' = SpecToLock(n, d)
    BY <2>1, SameUnits DEF Declared
  <2>4. lock' = [n \in Names |-> SpecToLock(n, spec[n])']
    BY <2>1, <2>3
  <2>5. ASSUME NEW n \in Declared PROVE Fine(n)'
    <3>1. ToSet(run.queue) = {}
      BY <2>1 DEF ToSet
    <3>2. FineOrSwept(n)
      BY <2>1, <3>1 DEF Visited
    <3>3. ~Swept(n)
      BY <2>1 DEF Swept
    <3>4. Fine(n)
      BY <3>2, <3>3 DEF Fine, FineOrSwept
    <3> QED BY <2>1, <3>4, FineKept
  <2> QED BY <2>1, <2>2, <2>3, <2>4, <2>5 DEF InOrder
<1> QED BY <1>1, <1>2, <1>3, <1>4, NextSteps DEF Closing

\* What a second apply may do to a unit: start one that is down.
LeftAgain(u) == /\ file'[u] = file[u]
                /\ running'[u] # running[u] => Systemd /\ running[u] = Absent
                /\ Systemd \/ loaded'[u] = loaded[u]
\* It does more only to a unit that is excused, and to none where no unit is shared.
Settling ==
  run.again /\ run'.again /\ (\A n \in Declared : ~Shares(n))
    => UNCHANGED script /\ \A u \in UnitIds \ cut : LeftAgain(u)

LEMMA TwinShares == ASSUME NEW n \in Names, Twin(n) PROVE Shares(n)
  BY DEF Twin, Shares, Declared

LEMMA SettlingStep ==
    ASSUME Typed, Positions, Supervision, AgainIn, ServicesNext
    PROVE  Settling
<1>1. CASE CommandStep
  <2> SUFFICES ASSUME run.again, \A n \in Declared : ~Shares(n)
               PROVE  UNCHANGED script /\ \A u \in UnitIds \ cut : LeftAgain(u)
    BY DEF Settling
  <2>1. PICK s : s = Subject
    OBVIOUS
  <2>2. Calm(s) /\ TurnEnds(s) /\ Touched = U(s)
    BY <1>1, <2>1, CalmTurn
  <2>3. ASSUME NEW u \in UnitIds \ cut, u # Touched
        PROVE  LeftAgain(u)
    <3>1. Left(u)
      BY <1>1, <2>3, TurnFactsLemma DEF TurnFacts, Sparing
    <3> QED BY <3>1 DEF Left, LeftAgain
  <2>4. ASSUME NEW u \in UnitIds \ cut, u = Touched
        PROVE  LeftAgain(u)
    <3>1. ~Excused(s)
      <4>1. ~Twin(s)
        BY <2>2, TwinShares DEF TurnEnds, Declared
      <4> QED BY <2>2, <2>4, <4>1 DEF Excused, U
    <3> QED BY <2>2, <2>4, <3>1 DEF Calm, LeftAgain
  <2> QED BY <2>2, <2>3, <2>4 DEF Calm
<1>2. CASE Opening
  BY <1>2, OpeningIdle, IdleRun, NoRunFacts DEF Settling
<1>3. CASE Closing
  BY <1>3, ClosingFacts, NoRunFacts DEF Settling
<1> QED BY <1>1, <1>2, <1>3, NextSteps

(***************************************************************************)
(* Nothing that genv installed is forgotten.                               *)
(***************************************************************************)
\* What the lock and the spec say of a unit, where neither changes.
LEMMA SameClaims ==
    ASSUME UNCHANGED <<platform, template, spec, lock>>
    PROVE  /\ Declared' = Declared
           /\ \A u : Claimed(u)' <=> Claimed(u)
           /\ \A n, l : RecordedUnit(n, l)' = RecordedUnit(n, l)
           /\ \A u : installed'[u] = installed[u] => (Held(u)' <=> Held(u))
<1>1. Declared' = Declared
  BY DEF Declared
<1>2. \A u : Claimed(u)' <=> Claimed(u)
  BY <1>1, SameUnits DEF Claimed
<1>3. \A l : RemovalWay(l)' = RemovalWay(l)
  BY SameUnits DEF RemovalWay
<1>4. \A n, l : RecordedUnit(n, l)' = RecordedUnit(n, l)
  BY <1>3, SameUnits DEF RecordedUnit
<1>5. \A u : installed'[u] = installed[u] => (Held(u)' <=> Held(u))
  BY <1>1, <1>4 DEF Held
<1> QED BY <1>1, <1>2, <1>4, <1>5

\* Units that are not touched are accounted for as before.
LEMMA AccountedKept ==
    ASSUME UNCHANGED <<platform, template, spec, lock>>, loose \subseteq loose',
           NEW u, AccountedFor(u), installed'[u] = installed[u], Present(u)' => Present(u)
    PROVE  AccountedFor(u)'
  BY SameClaims DEF AccountedFor

\* A command notes an installation for its own service's unit only.
LEMMA InstallsOwn ==
    ASSUME Typed, Positions, TurnFacts, CommandStep, NEW u \in UnitIds, installed'[u] # installed[u]
    PROVE  ~Removing /\ Subject \in Declared /\ u = U(Subject) /\ u = Touched /\ installed'[u] = Subject
           /\ UnitWords(Subject)
<1>1. u = Touched
  BY DEF TurnFacts, Sparing, Left
<1>2. installed'[u] = Subject
  BY DEF TurnFacts, Sparing
<1>3. Starts \/ WriteUnit \/ WriteScript
  BY SkipEffect, ElsewhereEffect, BootoutEffect, BootstrapEffect, EnableNowEffect, RestartChangedEffect, WriteXmlEffect,
     RegisterEffect, UnloadEffect, DeleteFileEffect, RestartLaunchdEffect, RestartSystemdEffect, RestartOtherEffect
     DEF CommandStep
<1>4. ~Removing /\ Touched = Now
  BY <1>1, <1>3, StartsEffect, WriteUnitEffect, WriteScriptEffect
<1>5. Subject \in Declared /\ Now = U(Subject) /\ UnitWords(Subject)
  BY <1>4 DEF TurnFacts, SubjectWords, NowWords
<1> QED BY <1>1, <1>2, <1>4, <1>5

LEMMA RawTurn ==
    ASSUME Typed, Positions, TurnFacts, CommandStep, RawInstalled
    PROVE  RawInstalled'
<1> SUFFICES ASSUME Systemd \/ Launchd, NEW n \in Names PROVE installed'[RawId(n)] = ""
  BY DEF RawInstalled, TurnFacts
<1>1. installed[RawId(n)] = "" /\ RawId(n) \in UnitIds /\ RawId(n)[1] = "raw"
  BY IdFacts DEF RawInstalled
<1>2. ASSUME installed'[RawId(n)] # installed[RawId(n)] PROVE FALSE
  <2>1. RawId(n) = U(Subject) /\ UnitWords(Subject)
    BY <1>1, <1>2, InstallsOwn
  <2>2. B(Subject) = "raw"
    <3>1. U(Subject)[1] = "raw" /\ U(Subject) # NoId
      BY <1>1, <2>1, IdFacts
    <3>2. GenId(Subject)[1] = "genv" /\ \A o \in Owns : o[1] = "own"
      BY IdFacts
    <3> QED BY <2>1, <3>1, <3>2 DEF UnitWords
  <2> QED BY <2>1, <2>2 DEF UnitWords
<1> QED BY <1>1, <1>2

\* What a step of a command makes of a unit.
LEMMA UnitTurn ==
    ASSUME Typed, Positions, TurnFacts, CommandStep, RawInstalled', NEW u \in UnitIds
    PROVE  \/ Claimed(u)
           \/ installed'[u] = ""
           \/ installed'[u] = installed[u] /\ (Present(u)' => Present(u))
<1>1. CASE u # Touched
  <2>1. Left(u)
    BY <1>1 DEF TurnFacts, Sparing
  <2> QED BY <2>1 DEF Left, Present
<1>2. CASE u = Touched /\ Removing
  <2>1. installed'[u] = installed[u]
    BY <1>2, InstallsOwn
  <2>2. Elsewhere \/ Unload \/ DeleteFile
    <3>1. run.pc \notin {"written", "out", "enabled", "script"}
      BY <1>2 DEF TurnFacts, AtUnit
    <3> QED BY <1>2, <3>1, SkipEffect, StartsEffect, WriteUnitEffect, BootoutEffect, BootstrapEffect,
               EnableNowEffect, RestartChangedEffect, WriteScriptEffect, WriteXmlEffect, RegisterEffect,
               RestartLaunchdEffect, RestartSystemdEffect, RestartOtherEffect DEF CommandStep
  <2>3. file'[u] \in {file[u], Absent} /\ loaded'[u] \in {loaded[u], Absent} /\ running'[u] \in {running[u], Absent}
    <3>1. CASE Elsewhere
      BY <3>1, ElsewhereEffect DEF Unaltered
    <3>2. CASE Unload
      <4>1. Unaltered \/ Becomes(file[Touched], IF Way = "systemd" THEN loaded[Touched] ELSE Absent, Absent)
        BY <3>2, UnloadEffect
      <4> QED BY <1>2, <4>1 DEF Unaltered, Becomes
    <3>3. CASE DeleteFile
      <4>1. UNCHANGED running
            /\ (Unaltered \/ \E l \in {Absent, loaded[Touched]} : Becomes(Absent, l, running[Touched]))
        BY <3>3, DeleteFileEffect
      <4> QED BY <1>2, <4>1 DEF Unaltered, Becomes
    <3> QED BY <2>2, <3>1, <3>2, <3>3
  <2> QED BY <2>1, <2>3 DEF Present
<1>3. CASE u = Touched /\ ~Removing
  <2>1. Subject \in Declared /\ Subject \in Names /\ Now = U(Subject) /\ UnitWords(Subject) /\ WayWords(Subject)
    BY <1>3 DEF TurnFacts, SubjectWords, NowWords
  <2>2. CASE Touched = Now
    BY <1>3, <2>1, <2>2 DEF Claimed, U
  <2>3. CASE Touched # Now
    <3>1. Way \in CommandWays /\ Touched = RawId(Subject)
      BY <1>3, <2>3 DEF Touched
    <3>2. ~Supervised(spec[Subject]) /\ spec[Subject].brew = ""
      BY <1>3, <3>1 DEF TurnFacts, SubjectWords, NowWords
    <3>3. B(Subject) \in {"generated systemd", "generated launchd", "raw"}
      BY <2>1, <3>2 DEF WayWords, UnitWords
    <3>4. B(Subject) # "raw"
      BY <2>1, <2>3, <3>1 DEF UnitWords
    <3>5. Systemd \/ Launchd
      BY <2>1, <3>3, <3>4 DEF UnitWords
    <3>6. installed'[RawId(Subject)] = ""
      BY <2>1, <3>5 DEF RawInstalled, TurnFacts
    <3> QED BY <1>3, <3>1, <3>6
  <2> QED BY <2>2, <2>3
<1> QED BY <1>1, <1>2, <1>3

\* The turn of a service that left the spec, when it ends without a failure.
LEMMA GoneTurn ==
    ASSUME Typed, Positions, Supervision, TurnFacts, CommandStep, run.verb = "apply", NEW s, s = Subject, s \notin Declared,
           s \notin ToSet(run'.queue), s \notin run'.failed
    PROVE  Down(s)'
<1>1. Removing /\ Subject \in Names /\ s \in ToSet(run.queue) /\ Gone = RemovalId(s, lock[s]) /\ Way = RemovalWay(lock[s])
  BY DEF TurnFacts, SubjectWords
<1>2. ~Ended({s}) /\ \A st \in Steps : \A c, w : ~On(st, c, w)
  BY <1>1 DEF Ended, On
<1>3. RemovalWords(s)
  BY <1>1, RemovalLemma, TypedInputs DEF RemovalVocab
<1>4. /\ Kept /\ lock' = lock /\ UNCHANGED <<platform, template, spec, lock>>
      /\ \A n, l : RecordedUnit(n, l)' = RecordedUnit(n, l)
  BY KeptNames, KeptRemovals DEF TurnFacts, Sparing
<1> SUFFICES ASSUME NEW u \in UnitIds, u = RecordedUnit(s, lock[s]), Present(u)' PROVE u \in loose'
  BY <1>4 DEF Down
<1>5. u = Gone /\ Way # "elsewhere" /\ u = Touched
  BY <1>1, <1>3 DEF RemovalWords, Touched
<1>6. Unload \/ DeleteFile
  <2>1. run.pc \notin {"written", "out", "enabled", "script"}
    BY <1>1 DEF TurnFacts, AtUnit
  <2> QED BY <1>1, <1>5, <2>1, SkipEffect, ElsewhereEffect, StartsEffect, WriteUnitEffect, BootoutEffect, BootstrapEffect,
             EnableNowEffect, RestartChangedEffect, WriteScriptEffect, WriteXmlEffect, RegisterEffect,
             RestartLaunchdEffect, RestartSystemdEffect, RestartOtherEffect DEF CommandStep
<1>7. CASE Unload
  <2>1. Way \in {"brew", "raw"} /\ Becomes(file[Touched], IF Way = "systemd" THEN loaded[Touched] ELSE Absent, Absent)
    BY <1>2, <1>7, StepsFacts, UnloadEffect
  <2>2. u[1] \in {"brew", "raw"}
    BY <1>1, <1>3, <1>5, <2>1, IdFacts DEF RemovalWords
  <2>3. file[u] = Absent
    BY <2>2 DEF Supervision, UnitFine, OnlyRun
  <2> QED BY <1>5, <2>1, <2>3 DEF Becomes, Present
<1>8. CASE DeleteFile
  <2>1. /\ run.pc = "unloaded" /\ loose \subseteq loose'
        /\ \/ Becomes(Absent, IF Systemd THEN Absent ELSE loaded[Touched], running[Touched])
           \/ Touched \in loose'
    BY <1>2, <1>8, DeleteFileEffect
  <2>2. Gone \in loose \/ (running[Gone] = Absent /\ (Systemd \/ loaded[Gone] = Absent))
    BY <2>1 DEF Positions, AtUnloaded
  <2> QED BY <1>5, <2>1, <2>2 DEF Becomes, Present
<1> QED BY <1>6, <1>7, <1>8

LEMMA OrphansTurn ==
    ASSUME Typed, Positions, Supervision, Orphans, CommandStep
    PROVE  Orphans'
<1>1. TurnFacts
  BY TurnFactsLemma
<1>2. RawInstalled'
  BY <1>1, RawTurn DEF Orphans
<1>3. UNCHANGED <<platform, template, spec, lock>> /\ loose \subseteq loose' /\ Declared' = Declared
      /\ \A n, l : RecordedUnit(n, l)' = RecordedUnit(n, l)
      /\ \A u : Claimed(u)' <=> Claimed(u)
  BY <1>1, KeptNames, SameClaims DEF TurnFacts, Sparing
<1>4. Accounted'
  <2> SUFFICES ASSUME NEW u \in UnitIds PROVE AccountedFor(u)'
    BY DEF Accounted
  <2>1. AccountedFor(u)
    BY DEF Orphans, Accounted
  <2>2. Claimed(u) => AccountedFor(u)'
    BY <1>3 DEF AccountedFor
  <2>3. installed'[u] = "" => AccountedFor(u)'
    BY DEF AccountedFor
  <2> QED BY <1>1, <1>2, <1>3, <2>1, <2>2, <2>3, UnitTurn, AccountedKept
<1>5. TakenDown'
  <2> SUFFICES ASSUME run'.verb = "apply", NEW n \in Names \ Declared, n \notin ToSet(run'.queue), n \notin run'.failed
               PROVE  Down(n)'
    BY <1>3 DEF TakenDown, ToSet
  <2>1. run.verb = "apply"
    BY SameCommand
  <2>2. CASE n = Subject
    BY <1>1, <2>1, <2>2, GoneTurn
  <2>3. CASE n # Subject
    <3>1. n \notin ToSet(run.queue) /\ n \notin run.failed
      BY <2>3, SameCommand DEF Ended, On
    <3>2. Down(n)
      BY <2>1, <3>1 DEF Orphans, TakenDown
    <3> SUFFICES ASSUME lock[n] # Unlocked, NEW u \in UnitIds, installed'[u] = n, u = RecordedUnit(n, lock[n]), Present(u)'
                 PROVE  u \in loose' \/ Claimed(u)
      BY <1>3 DEF Down
    <3>3. n # ""
      BY NamesFacts
    <3>4. CASE installed'[u] = installed[u] /\ (Present(u)' => Present(u))
      BY <1>3, <3>2, <3>4 DEF Down
    <3> QED BY <1>1, <1>2, <3>3, <3>4, UnitTurn
  <2> QED BY <2>2, <2>3
<1> QED BY <1>2, <1>4, <1>5 DEF Orphans

\* Where no apply is under way, only the first two parts say something.
LEMMA OrphansElse ==
    ASSUME RawInstalled, UNCHANGED <<platform, installed>>, Accounted', run'.verb # "apply"
    PROVE  Orphans'
<1>1. RawInstalled'
  BY DEF RawInstalled, Systemd, Launchd
<1>2. TakenDown'
  BY DEF TakenDown
<1> QED BY <1>1, <1>2 DEF Orphans

\* An edit that changes what the spec reaches.
LEMMA LoosenedStep ==
    ASSUME UNCHANGED <<lock, file, loaded, running, installed>>, Loosened
    PROVE  Accounted'
<1> SUFFICES ASSUME NEW u \in UnitIds, installed'[u] # "", Present(u)', u \notin loose' PROVE Claimed(u)' \/ Held(u)'
  BY DEF Accounted, AccountedFor
<1>1. Present(u)
  BY DEF Present
<1>2. Reached(u)'
  BY <1>1 DEF Loosened
<1> QED BY <1>2 DEF Reached, Claimed, Held, Declared

\* The steps that begin and end a command.
LEMMA OrphansOpening ==
    ASSUME Typed, Positions, Orphans, Opening
    PROVE  Orphans'
<1>1. /\ UNCHANGED <<platform, lock, file, installed>>
      /\ \A u \in UnitIds : loaded'[u] \in {loaded[u], Absent} /\ running'[u] \in {running[u], Absent}
  BY OpeningUnits
<1>2. \A u \in UnitIds : Present(u)' => Present(u)
  BY <1>1 DEF Present
<1>3. ASSUME UNCHANGED <<template, spec, loose>> PROVE Accounted'
  <2>1. UNCHANGED <<platform, template, spec, lock>> /\ loose \subseteq loose'
    BY <1>1, <1>3
  <2> SUFFICES ASSUME NEW u \in UnitIds PROVE AccountedFor(u)'
    BY DEF Accounted
  <2>2. AccountedFor(u) /\ installed'[u] = installed[u]
    BY <1>1 DEF Orphans, Accounted
  <2> QED BY <1>2, <2>1, <2>2, AccountedKept
<1>4. Idle /\ run = NoRun /\ run.verb # "apply"
  BY OpeningIdle, IdleRun, NoRunFacts
<1>5. CASE StartApply
  <2>1. UNCHANGED <<platform, spec, template, lock, loose>> /\ ToSet(run'.queue) = {n \in Names : spec[n] # Undeclared \/ lock[n] # Unlocked}
    BY <1>5, StartApplyFacts DEF inputs
  <2>2. TakenDown'
    BY <2>1 DEF TakenDown, Down, ToSet
  <2>3. RawInstalled'
    BY <1>1, <2>1 DEF Orphans, RawInstalled, Systemd, Launchd
  <2> QED BY <1>3, <2>1, <2>2, <2>3 DEF Orphans
<1>6. CASE ~StartApply /\ ~Environment
  <2>1. UNCHANGED <<inputs, loose>>
    BY <1>6, OpeningUnits
  <2>2. ASSUME NEW m \in Names, StartService(m) PROVE run'.verb # "apply"
    BY <2>2, StartedRun DEF StartService, Commanded, inputs
  <2>3. ASSUME NEW m \in Names, RestartService(m) PROVE run'.verb # "apply"
    BY <1>4, <2>3, StartedRun DEF RestartService, Commanded, inputs
  <2>4. ASSUME NEW m \in Names, StopService(m) PROVE run'.verb # "apply"
    BY <1>4, <2>4, StopServiceParts
  <2>5. run'.verb # "apply"
    BY <1>6, <2>2, <2>3, <2>4 DEF Opening
  <2> QED BY <1>1, <1>3, <2>1, <2>5, OrphansElse DEF inputs, Orphans
<1>7. CASE Environment
  <2>1. run'.verb # "apply"
    BY <1>4, <1>7 DEF Environment, EditSpec, EditTemplate, NewDay, Ends, Unregistered, Around
  <2>2. UNCHANGED <<template, spec, loose>> \/ (UNCHANGED <<loaded, running>> /\ Loosened)
    BY <1>7 DEF Environment, EditSpec, EditTemplate, NewDay, Ends, Unregistered
  <2>3. Accounted'
    BY <1>1, <1>3, <2>2, LoosenedStep
  <2> QED BY <1>1, <2>1, <2>3, OrphansElse DEF Orphans
<1> QED BY <1>5, <1>6, <1>7

LEMMA OrphansClosing ==
    ASSUME Typed, Positions, Orphans, Closing
    PROVE  Orphans'
<1>1. /\ run' = NoRun /\ UNCHANGED <<platform, spec, template, file, loaded, running, installed, loose>>
      /\ EndApply \/ UNCHANGED lock
  BY ClosingFacts DEF Unaltered
<1>2. run'.verb # "apply" /\ loose \subseteq loose'
  BY <1>1, NoRunFacts
<1>3. Accounted'
  <2> SUFFICES ASSUME NEW u \in UnitIds PROVE AccountedFor(u)'
    BY DEF Accounted
  <2>1. AccountedFor(u) /\ installed'[u] = installed[u] /\ (Present(u)' <=> Present(u))
    BY <1>1 DEF Orphans, Accounted, Present
  <2>2. CASE UNCHANGED lock
    BY <1>1, <1>2, <2>1, <2>2, AccountedKept
  <2>3. CASE EndApply /\ ~UNCHANGED lock
    <3>1. run.verb = "apply" /\ run.queue = <<>> /\ run.failed = {}
      BY <2>3 DEF EndApply
    <3>2. Claimed(u)' <=> Claimed(u)
      <4>1. Declared' = Declared
        BY <1>1 DEF Declared
      <4> QED BY <1>1, <4>1, SameUnits DEF Claimed
    <3>3. ASSUME installed[u] # "", Present(u), Held(u) PROVE u \in loose \/ Claimed(u)
      <4>1. PICK n \in Names \ Declared : installed[u] = n /\ lock[n] # Unlocked /\ u = RecordedUnit(n, lock[n])
        BY <3>3 DEF Held
      <4>2. ToSet(run.queue) = {}
        BY <3>1 DEF ToSet
      <4>3. Down(n)
        BY <3>1, <4>1, <4>2 DEF Orphans, TakenDown
      <4> QED BY <3>3, <4>1, <4>3 DEF Down
    <3> QED BY <1>2, <2>1, <3>2, <3>3 DEF AccountedFor
  <2> QED BY <1>1, <2>2, <2>3
<1> QED BY <1>1, <1>2, <1>3, OrphansElse DEF Orphans

LEMMA OrphansStep ==
    ASSUME Typed, Positions, Supervision, Orphans, ServicesNext
    PROVE  Orphans'
  BY OrphansTurn, OrphansOpening, OrphansClosing, NextSteps

(***************************************************************************)
(* The inductive invariant.                                                *)
(***************************************************************************)
LEMMA SInvInit == ServicesInit => SInv
<1> SUFFICES ASSUME ServicesInit PROVE SInv
  OBVIOUS
<1>1. Typed /\ Positions
  BY TypedInit
<1>2. /\ run = NoRun /\ clean = FALSE /\ lock = [n \in Names |-> Unlocked]
      /\ \A u \in UnitIds : file[u] = Absent /\ loaded[u] = Absent /\ running[u] = Absent /\ installed[u] = ""
  BY DEF ServicesInit
<1>3. run.verb = "none" /\ run.again = FALSE
  BY <1>2, NoRunFacts
<1>4. Answered /\ Visited /\ SettledIn /\ AgainIn
  BY <1>2, <1>3 DEF Answered, Visited, SettledIn, AgainIn
<1>5. Supervision
  BY <1>2 DEF Supervision, UnitFine, OnlyRun, FileIsInstalled, TaskNeverRuns, NotBehind, Behind, NotOld, Old
<1>6. NotesAreTrue
  <2>1. \A n \in Names : ~PlainNote(lock[n])
    BY <1>2 DEF PlainNote
  <2> QED BY <2>1 DEF NotesAreTrue, NoteTrue
<1>7. Orphans
  <2>1. \A n \in Names : installed[RawId(n)] = ""
    BY <1>2, IdFacts
  <2> QED BY <1>2, <1>3, <2>1 DEF Orphans, RawInstalled, Accounted, AccountedFor, TakenDown
<1> QED BY <1>1, <1>4, <1>5, <1>6, <1>7 DEF SInv

\* A step that changes nothing.
LEMMA StillInOrder == ASSUME UNCHANGED servicesVars, InOrder PROVE InOrder'
<1>1. UNCHANGED <<platform, spec, template, today, lock, file, loaded, running, script, cut>>
  BY DEF servicesVars, inputs, supervisor, history
<1>2. Declared' = Declared /\ \A n, d : SpecToLock(n, d)' = SpecToLock(n, d)
  BY <1>1, SameUnits DEF Declared
<1>3. \A n \in Declared : Fine(n)'
  BY <1>1, FineKept DEF InOrder
<1>4. lock' = [n \in Names |-> SpecToLock(n, spec[n])']
  BY <1>1, <1>2 DEF InOrder
<1> QED BY <1>1, <1>2, <1>3, <1>4 DEF InOrder

LEMMA SInvStutter == ASSUME SInv, UNCHANGED servicesVars PROVE SInv'
<1>1. /\ UNCHANGED <<platform, spec, template, today, lock, file, loaded, running, script, run, installed, cut, loose, quiet, clean>>
      /\ Kept
  BY DEF servicesVars, inputs, supervisor, history, Kept
<1>2. Typed' /\ Positions'
  BY TypedStep DEF SInv
<1>3. /\ Declared' = Declared /\ Subject' = Subject /\ D' = D /\ Now' = Now
      /\ (Launchd' <=> Launchd) /\ (Systemd' <=> Systemd) /\ (Schtasks' <=> Schtasks)
      /\ \A d : Backend(d)' = Backend(d)
      /\ \A n, d : UnitOf(n, d)' = UnitOf(n, d)
      /\ \A n, l : RemovalId(n, l)' = RemovalId(n, l) /\ RecordedUnit(n, l)' = RecordedUnit(n, l)
      /\ \A d : Written(d)' = Written(d)
  BY <1>1, KeptNames, KeptTexts, KeptUnits, KeptRemovals, GoesNames
<1>4. Answered'
  <2>1. \A n : Current(n)' <=> Current(n)
    BY <1>1, CurrentIs, CurrentBecomes DEF CurrentAt
  <2>2. \A n, v : Reply(n, v)' <=> Reply(n, v)
    BY <1>1, <1>3, <2>1 DEF Reply, B, U
  <2>3. Answered' <=> (run.verb \in {"start", "restart"} /\ run.queue = <<>> /\ run.failed = {} => Reply(run.name, run.verb))'
    BY AnsweredAs, PTL
  <2> QED BY <1>1, <2>2, <2>3, AnsweredAs DEF SInv
<1>5. Supervision'
  <2>1. \A u : /\ (Pending(u)' <=> Pending(u)) /\ (Restarting(u)' <=> Restarting(u))
               /\ (Behind(u)' <=> Behind(u)) /\ (Old(running[u], u)' <=> Old(running[u], u))
               /\ (Old(loaded[u], u)' <=> Old(loaded[u], u))
    BY <1>1, <1>3 DEF Pending, Restarting, Behind, Old
  <2>2. \A u : UnitFine(u)' <=> UnitFine(u)
    BY <1>1, <1>3, <2>1 DEF UnitFine, OnlyRun, FileIsInstalled, TaskNeverRuns, NotBehind, NotOld
  <2> QED BY <2>2 DEF SInv, Supervision
<1>6. NotesAreTrue'
  <2>1. \A n : Overtaken(n)' <=> Overtaken(n)
    BY <1>1, <1>3 DEF Overtaken, Same
  <2>2. \A f, l : HasText(f, l)' <=> HasText(f, l)
    BY <1>3 DEF HasText, NotedText
  <2>3. \A n : PlainNote(lock[n])' <=> PlainNote(lock[n])
    BY <1>1 DEF PlainNote, Unlocked
  <2>4. \A n : NoteTrue(n)' <=> NoteTrue(n)
    BY <1>1, <1>3, <2>1, <2>2, <2>3 DEF NoteTrue
  <2> QED BY <2>4 DEF SInv, NotesAreTrue
<1>7. Visited'
  <2>1. \A n : Fine(n) => Fine(n)'
    BY <1>1, FineKept
  <2>2. \A n : Swept(n) => Swept(n)'
    BY <1>1, <1>3 DEF Swept
  <2>3. \A n : FineOrSwept(n) <=> (Fine(n) \/ (Scripted(n) /\ Swept(n)))
    BY DEF FineOrSwept, Fine
  <2>4. \A n : Scripted(n) => Scripted(n)'
    BY <1>1, <1>3 DEF Scripted
  <2>5. \A n : FineOrSwept(n) => FineOrSwept(n)'
    BY <2>1, <2>2, <2>3, <2>4 DEF FineOrSwept, Fine
  <2> QED BY <1>1, <1>3, <2>5 DEF SInv, Visited, ToSet
<1>8. SettledIn'
  BY <1>1, StillInOrder DEF SInv, SettledIn, Idle
<1>9. AgainIn'
  <2>1. Excused(Subject)' <=> Excused(Subject)
    BY <1>1, <1>3 DEF Excused, Twin
  <2>2. Supervised(D)' <=> Supervised(D)
    BY <1>3 DEF Supervised, Templated, Tasked
  <2>3. loaded[Now]' = loaded[Now]
    BY <1>1, <1>3
  <2> QED BY <1>1, <2>1, <2>2, <2>3, StillInOrder DEF SInv, AgainIn
<1>10. Orphans'
  <2>1. Accounted'
    BY <1>1, AccountedKept DEF SInv, Orphans, Accounted, Present
  <2>2. TakenDown'
    <3>1. \A n : Down(n)' <=> Down(n)
      BY <1>1, <1>3, SameClaims DEF Down, Present, Unlocked
    <3> QED BY <1>1, <1>3, <3>1 DEF SInv, Orphans, TakenDown, ToSet
  <2>3. RawInstalled'
    BY <1>1, <1>3 DEF SInv, Orphans, RawInstalled
  <2> QED BY <2>1, <2>2, <2>3 DEF Orphans
<1> QED BY <1>2, <1>4, <1>5, <1>6, <1>7, <1>8, <1>9, <1>10 DEF SInv

LEMMA SInvStep == SInv /\ [ServicesNext]_servicesVars => SInv'
<1> SUFFICES ASSUME SInv, [ServicesNext]_servicesVars PROVE SInv'
  OBVIOUS
<1>1. CASE ServicesNext
  BY <1>1, TypedStep, AnsweredStep, SupervisionStep, NotesStep, VisitedStep, SettledStep, AgainStep, OrphansStep DEF SInv
<1>2. CASE UNCHANGED servicesVars
  BY <1>2, SInvStutter
<1> QED BY <1>1, <1>2

\* What holds of every state of the services, whatever names, templates, declarations,
\* failures and edits there are.
THEOREM ServicesInvariance == ServicesSpec => []SInv
  BY SInvInit, SInvStep, PTL DEF ServicesSpec

\* What the invariant says, property by property.
LEMMA UnitsFacts == ASSUME Typed PROVE UnitsOK
<1>1. ToSet(run.queue) \subseteq Names
  BY TypedUnits, SeqElements DEF ToSet
<1>2. runs <= MaxRuns /\ failures <= MaxFailures /\ edits <= MaxEdits
  <2>1. MaxRuns \in Nat /\ MaxFailures \in Nat /\ MaxEdits \in Nat
    BY MaximaAssumption
  <2>2. runs \in 0..MaxRuns /\ failures \in 0..MaxFailures /\ edits \in 0..MaxEdits
    BY DEF Typed
  <2> QED BY <2>1, <2>2
<1> QED BY <1>1, <1>2, TypedUnits DEF Typed, UnitsOK

LEMMA SweptShares == ASSUME NEW n \in Declared, Swept(n) PROVE Shares(n)
  BY DEF Swept, Shares

LEMMA VisitedIsCurrent == ASSUME Visited PROVE AppliedIsCurrent
<1> SUFFICES ASSUME run.verb = "apply", run.queue = <<>>, NEW n \in Declared \ run.failed
             PROVE  Current(n) \/ UnitOf(n, spec[n]) \in cut \/ Shares(n)
  BY DEF AppliedIsCurrent
<1>1. ToSet(run.queue) = {} /\ n \in Names
  BY DEF ToSet, Declared
<1>2. FineOrSwept(n)
  BY <1>1 DEF Visited
<1> QED BY <1>1, <1>2, TwinShares, SweptShares DEF FineOrSwept, Excused

LEMMA SettledIsAccounted == ASSUME Typed, SettledIn, Accounted PROVE NoOrphan /\ StatusAgrees
<1> SUFFICES ASSUME Settled
             PROVE  /\ \A u \in UnitIds : installed[u] # "" /\ Present(u) /\ u \notin loose
                                            => \E n \in Declared : UnitOf(n, spec[n]) = u
                    /\ \A n \in Names : Kind(n) = "ok"
  BY DEF NoOrphan, StatusAgrees
<1>1. \A n \in Names : lock[n] = SpecToLock(n, spec[n])
  BY DEF Settled, SettledIn, InOrder
<1>2. \A n \in Names : Kind(n) = "ok" /\ (n \notin Declared => lock[n] = Unlocked)
  BY <1>1, FollowedLock
<1> QED BY <1>2 DEF Accounted, AccountedFor, Claimed, Held

\* ApplyIsTrue, as the runs check it: after an apply, files, supervisor and lock are what the
\* spec declares, and what genv installed and has not knowingly let go (loose) is found again
\* by way of the spec (service.go, lock.go).
THEOREM ServicesApplyIsTrue == ServicesSpec => []ApplyIsTrue
<1>1. SInv => ApplyIsTrue
  BY UnitsFacts, VisitedIsCurrent, SettledIsAccounted DEF SInv, Orphans, ApplyIsTrue
<1> QED BY <1>1, ServicesInvariance, PTL

\* A second apply with nothing changed in between bounces no service, and starts at most a
\* systemd unit that has gone down; no command touches a service it is not about (main.go,
\* service.go, supervisor.go).
THEOREM ServicesTouchOnlyWhatIsDue == ServicesSpec => TouchesOnlyWhatIsDue
<1>1. SInv /\ [ServicesNext]_servicesVars => [Settling]_servicesVars
  BY SettlingStep DEF SInv
<1>2. SInv /\ [ServicesNext]_servicesVars => [Spared]_servicesVars
  BY SparedStep DEF SInv
<1>3. ServicesSpec => [][Settling]_servicesVars
  BY <1>1, ServicesInvariance, PTL DEF ServicesSpec
<1>4. ServicesSpec => [][Spared]_servicesVars
  BY <1>2, ServicesInvariance, PTL DEF ServicesSpec
<1>5. [][Settling]_servicesVars => AppliesSettle
  <2>1. ASSUME Settling
        PROVE  run.again /\ run'.again /\ (\A n \in Declared : ~Shares(n))
                 => /\ UNCHANGED script
                    /\ \A u \in UnitIds \ cut : /\ file'[u] = file[u]
                                                /\ running'[u] # running[u] => Systemd /\ running[u] = Absent
                                                /\ Systemd \/ loaded'[u] = loaded[u]
    BY <2>1 DEF Settling, LeftAgain
  <2> QED BY <2>1, PTL DEF AppliesSettle
<1>6. [][Spared]_servicesVars => SparesTheOthers
  BY DEF SparesTheOthers, Spared
<1> QED BY <1>3, <1>4, <1>5, <1>6 DEF TouchesOnlyWhatIsDue

\* An answer of genv service start, stop or restart is true when it is given: what was stopped
\* is down, what was started is what its template says, or its unit is known to be behind (cut),
\* and what was restarted runs, if it runs, from what its supervisor holds (restart.go).
THEOREM ServicesAnswersAreTrue == ServicesSpec => AnswersAreTrue
<1>1. SInv /\ [ServicesNext]_servicesVars => [TrueAnswer]_servicesVars
  BY TrueAnswerStep DEF SInv
<1>2. ServicesSpec => [][TrueAnswer]_servicesVars
  BY <1>1, ServicesInvariance, PTL DEF ServicesSpec
<1>3. [][TrueAnswer]_servicesVars => AnswersAreTrue
  BY DEF AnswersAreTrue, TrueAnswer
<1> QED BY <1>2, <1>3

(***************************************************************************)
(* The restart phase of an upgrade. The inductive invariant, loop by loop. *)
(***************************************************************************)
\* No package of the service was replaced under it.
Clean(s) == \A p \in Pkgs : <<s, p>> \notin stale
\* Its restart has been put on record, or could not be and was reported.
OnRecord(s) == s \in unrecorded \/ {s} \X triggers[s] \subseteq pending

\* The restart phase: what Decide decides on, until EndRun.
InPhase == {"record", "stop", "start", "probe", "clear"}

\* Versions only rise, and the run's copies lie between what the lock said
\* before it and what is installed.
VersionsInOrder ==
  \A p \in Pkgs : before[p] <= mem[p] /\ mem[p] <= binary[p] /\ before[p] <= lockVer[p]

\* Outside the phase there is nothing of it.
NothingBetweenRuns ==
  pc \notin InPhase =>
    /\ decision = NoDecision /\ triggers = NoTriggers /\ queue = {}
    /\ errs = {} /\ unready = {} /\ unrecorded = {}

\* What is decided has its reason.
Justified ==
  \A s \in Services :
    /\ decision[s] # "none" => InPlan(s)
    /\ decision[s] = "restart" => \E p \in Watch[s] : before[p] # 0 /\ binary[p] # before[p]
    /\ decision[s] = "start" => s \in IfRunning
    /\ triggers[s] \subseteq Watch[s]

\* A loop visits the services that the phase acts on.
QueueOfThePhase == queue \subseteq ToAct /\ (pc = "stop" => queue \subseteq ToStop)

\* The record loop: whom it has visited is on record, and nothing is stopped
\* before it has visited everybody.
Recording ==
  /\ pc = "record" => errs = {} /\ \A s \in ToAct \ queue : OnRecord(s)
  /\ pc = "stop" => \A s \in ToAct : OnRecord(s)

\* The stop loop: whom it has visited is down or has failed; who was down is.
Stopping ==
  /\ pc \in {"record", "stop"} => \A s \in ToAct \ ToStop : s \notin up
  /\ pc = "stop" => \A s \in ToStop \ queue : s \in errs \/ s \notin up

\* The start loop: nobody it acts on runs anything old, but who has failed; whom
\* it has visited, and who is being probed, runs or has failed.
Starting ==
  /\ pc \in {"start", "probe", "clear"} => \A s \in ToAct : s \in errs \/ Clean(s)
  /\ pc \in {"start", "probe"} => \A s \in ToAct \ queue : s \in errs \/ s \in up
  /\ pc = "probe" => \A s \in queue : IsNext(s) => s \in up
  /\ pc = "clear" => \A s \in ToAct : s \in errs \/ s \in up

\* What is reported as done is done; nothing is reported before the last loop.
Reported ==
  /\ pc \notin {"idle", "clear"} => \A s \in Services : outcome[s] \in {"none", "skip", "defer"}
  /\ \A s \in Services : outcome[s] = "done" => s \in up /\ Clean(s)

Probing == pc = "probe" => probes # 0

Ind ==
  /\ TypeOK /\ VersionsInOrder /\ NothingBetweenRuns /\ Justified /\ QueueOfThePhase
  /\ Recording /\ Stopping /\ Starting /\ Reported /\ Probing

-----------------------------------------------------------------------------
(* Lemmas.                                                                 *)

\* The number of faults stays within its bound.
LEMMA FaultsBound ==
  ASSUME TypeOK, NEW kinds, IsFiniteSet(kinds), Faults(kinds)
  PROVE  faults' \in 0..MaxFaults
<1>1. Cardinality(kinds) \in Nat
  BY FS_CardinalityType
<1> QED BY <1>1, BoundsAssumption DEF TypeOK, ReportOK, Faults

LEMMA FaultBound ==
  ASSUME TypeOK, NEW kind, Fault(kind) \/ NoFault
  PROVE  faults' \in 0..MaxFaults
BY FaultsBound, FS_EmptySet, FS_Singleton DEF Fault, NoFault

LEMMA ActsOnServices == ToStop \subseteq ToAct /\ ToAct \subseteq Services
BY DEF ToStop, ToAct, Actionable

LEMMA Initially == Init => Ind
<1> SUFFICES ASSUME Init PROVE Ind
  OBVIOUS
<1>1. TypeOK
  <2>1. MachineOK /\ LockOK
    BY BoundsAssumption DEF Init, MachineOK, LockOK, Versions
  <2>2. RunOK
    <3>1. lockVer \in [Pkgs -> Versions]
      BY BoundsAssumption DEF Init, Versions
    <3> QED BY <3>1 DEF Init, RunOK, Modes
  <2>3. PhaseOK
    BY BoundsAssumption DEF Init, PhaseOK, NoDecision, NoTriggers, Decisions
  <2>4. ReportOK
    BY BoundsAssumption DEF Init, ReportOK, NoDecision, Outcomes
  <2> QED BY <2>1, <2>2, <2>3, <2>4 DEF Init, TypeOK, Labels
<1>2. VersionsInOrder
  BY DEF Init, VersionsInOrder
<1>3. Justified
  BY DEF Init, Justified, NoDecision, NoTriggers
<1>4. NothingBetweenRuns /\ QueueOfThePhase /\ Recording /\ Stopping /\ Starting /\ Probing
  BY DEF Init, NothingBetweenRuns, QueueOfThePhase, Recording, Stopping, Starting, Probing
<1>5. Reported
  BY DEF Init, Reported, NoDecision
<1> QED BY <1>1, <1>2, <1>3, <1>4, <1>5 DEF Ind

LEMMA ReleaseKeeps == ASSUME Ind, NEW p \in Pkgs, Release(p) PROVE Ind'
<1>1. /\ UNCHANGED <<binary, up, stale, lockVer, pending, pc, mode, plan, mem, before, upgraded, cmdFailed>>
      /\ UNCHANGED <<decision, triggers, errs, unready, unrecorded, queue, probes, outcome, exit, faults>>
  BY DEF Release, lockFile, inMemory, phase, report
<1>2. TypeOK'
  <2>1. available' \in [Pkgs -> 1..MaxVersion] /\ \A q \in Pkgs : available[q] <= available'[q]
    BY BoundsAssumption DEF Release, Ind, TypeOK, MachineOK
  <2>2. MachineOK'
    BY <1>1, <2>1 DEF Ind, TypeOK, MachineOK, LockOK, Versions
  <2> QED BY <1>1, <2>2 DEF Ind, TypeOK, LockOK, RunOK, PhaseOK, ReportOK
<1>3. VersionsInOrder' /\ NothingBetweenRuns' /\ QueueOfThePhase' /\ Probing' /\ Reported'
  BY <1>1 DEF Ind, VersionsInOrder, NothingBetweenRuns, InPhase, QueueOfThePhase, ToAct, ToStop,
              Actionable, Probing, Reported, Clean
<1>4. Justified'
  BY <1>1 DEF Ind, Justified, InPlan
<1>5. Recording' /\ Stopping' /\ Starting'
  BY <1>1 DEF Ind, Recording, Stopping, Starting, ToAct, ToStop, Actionable, OnRecord, Clean, IsNext
<1> QED BY <1>2, <1>3, <1>4, <1>5 DEF Ind

\* A plan is made of commands, each for some of the packages.
UpgradeCommands == [cmd : SUBSET Pkgs, lps : (SUBSET Pkgs) \ {{}}]

LEMMA PlanOfPackages ==
  ASSUME NEW packages \in SUBSET Pkgs
  PROVE  PlanUpgrade(packages) \subseteq UpgradeCommands
<1> DEFINE group(m) == {p \in packages : ManagerOf[p] = m}
           batched == {m \in BatchManagers : Cardinality(group(m)) > 1}
<1>1. Cardinality({}) = 0
  BY FS_EmptySet
<1>2. \A m \in batched : group(m) # {} /\ group(m) \in SUBSET Pkgs
  BY <1>1
<1>3. \A m \in batched : [cmd |-> group(m), lps |-> group(m)] \in UpgradeCommands
  BY <1>2 DEF UpgradeCommands
<1>4. \A p \in packages : [cmd |-> {p}, lps |-> {p}] \in UpgradeCommands
  BY DEF UpgradeCommands
<1> QED BY <1>3, <1>4 DEF PlanUpgrade

LEMMA BeginKeeps ==
  ASSUME Ind, NEW m \in Modes, NEW selected \in SUBSET Pkgs, NEW keepAll \in SUBSET Managers,
         Begin(m, selected, keepAll)
  PROVE  Ind'
<1>1. /\ UNCHANGED <<available, binary, up, stale, lockVer, pending, upgraded, cmdFailed>>
      /\ UNCHANGED <<decision, triggers, errs, unready, unrecorded, queue, probes, faults>>
      /\ pc = "idle" /\ pc' = "upgrade" /\ mode' = m /\ mem' = lockVer /\ before' = lockVer
      /\ outcome' = NoDecision /\ exit' = "ok"
  BY DEF Begin, machine, lockFile, phase
<1>2. plan' \subseteq UpgradeCommands
  <2> DEFINE packages == FilterOutdated(selected, keepAll)
             actions == PlanUpgrade(packages)
  <2>1. packages \in SUBSET Pkgs
    BY DEF FilterOutdated
  <2>2. actions \subseteq UpgradeCommands
    BY <2>1, PlanOfPackages
  <2>3. ASSUME NEW drop PROVE ExcludeFromPlan(actions, drop) \subseteq UpgradeCommands
    BY <2>2 DEF ExcludeFromPlan, UpgradeCommands
  <2> QED BY <2>2, <2>3 DEF Begin
<1>3. TypeOK'
  BY <1>1, <1>2 DEF Ind, TypeOK, MachineOK, LockOK, RunOK, PhaseOK, ReportOK, Labels, NoDecision,
                    Outcomes, UpgradeCommands
<1>4. VersionsInOrder'
  BY <1>1 DEF Ind, TypeOK, MachineOK, LockOK, VersionsInOrder, Versions
<1>5. NothingBetweenRuns' /\ QueueOfThePhase' /\ Probing' /\ Reported'
  BY <1>1 DEF Ind, NothingBetweenRuns, InPhase, QueueOfThePhase, Probing, Reported, NoDecision
<1>6. Justified'
  BY <1>1 DEF Ind, NothingBetweenRuns, InPhase, Justified, NoDecision, NoTriggers
<1>7. Recording' /\ Stopping' /\ Starting'
  BY <1>1 DEF Recording, Stopping, Starting
<1> QED BY <1>3, <1>4, <1>5, <1>6, <1>7 DEF Ind

\* The end of a run that has left machine, lock and report well.
LEMMA EndKeeps ==
  ASSUME Ind, EndRun, MachineOK', LockOK', ReportOK',
         \A s \in Services : outcome'[s] = "done" => s \in up' /\ Clean(s)'
  PROVE  Ind'
<1>1. TypeOK'
  <2>1. RunOK'
    BY DEF EndRun, Ind, TypeOK, RunOK, LockOK
  <2>2. PhaseOK'
    BY BoundsAssumption DEF EndRun, PhaseOK, Decisions, NoDecision, NoTriggers
  <2> QED BY <2>1, <2>2 DEF EndRun, TypeOK, Labels
<1>2. VersionsInOrder'
  BY DEF EndRun, VersionsInOrder, Versions, MachineOK, LockOK
<1>3. Justified'
  BY DEF EndRun, Justified, NoDecision, NoTriggers
<1>4. NothingBetweenRuns' /\ QueueOfThePhase' /\ Recording' /\ Stopping' /\ Starting' /\ Probing'
  BY DEF EndRun, NothingBetweenRuns, QueueOfThePhase, Recording, Stopping, Starting, Probing
<1>5. Reported'
  BY DEF EndRun, Reported
<1> QED BY <1>1, <1>2, <1>3, <1>4, <1>5 DEF Ind

\* Declining and a failing hook.
LEMMA GiveUpKeeps == ASSUME Ind, Decline \/ HookFails PROVE Ind'
<1>1. /\ UNCHANGED <<available, binary, up, stale, lockVer, pending, outcome, faults>> /\ EndRun
      /\ exit' \in {"ok", "failed"}
  BY DEF Decline, HookFails, machine, lockFile, report, Ind, TypeOK, ReportOK
<1>2. MachineOK' /\ LockOK' /\ ReportOK'
  BY <1>1 DEF Ind, TypeOK, MachineOK, LockOK, ReportOK
<1> QED BY <1>1, <1>2, EndKeeps DEF Ind, Reported, Clean

\* Packages replaced by their newest versions.
LEMMA ReplaceKeeps ==
  ASSUME Ind, NEW S \in SUBSET Pkgs, Replace(S), lockVer' = lockVer
  PROVE  MachineOK' /\ available' = available /\ \A p \in Pkgs : binary[p] <= binary'[p]
<1>1. MachineOK /\ LockOK
  BY DEF Ind, TypeOK
<1>2. available' = available /\ up' = up
  BY DEF Replace
<1>3. /\ binary' \in [Pkgs -> 1..MaxVersion]
      /\ \A p \in Pkgs : binary[p] <= binary'[p] /\ binary'[p] <= available[p]
  BY <1>1, BoundsAssumption DEF Replace, MachineOK
<1>4. stale' \subseteq {pair \in up \X Pkgs : pair[2] \in Watch[pair[1]]}
  BY <1>1 DEF Replace, MachineOK
<1>5. \A p \in Pkgs : lockVer[p] <= binary'[p]
  BY <1>1, <1>3, BoundsAssumption DEF MachineOK, LockOK, Versions
<1> QED BY <1>1, <1>2, <1>3, <1>4, <1>5 DEF MachineOK

LEMMA CrashKeeps == ASSUME Ind, Crash PROVE Ind'
<1>1. faults' \in 0..MaxFaults
  BY FaultBound DEF Crash, Ind
<1>2. /\ lockVer' = lockVer /\ pending' = pending /\ EndRun
      /\ outcome' = NoDecision /\ exit' = "failed"
  BY DEF Crash, lockFile
<1>3. MachineOK'
  <2>1. CASE UNCHANGED machine
    BY <1>2, <2>1 DEF machine, Ind, TypeOK, MachineOK
  <2>2. CASE \E a \in plan : \E done \in SUBSET a.cmd : Replace(done)
    <3>1. \A a \in plan : a.cmd \subseteq Pkgs
      BY DEF Ind, TypeOK, RunOK
    <3> QED BY <1>2, <2>2, <3>1, ReplaceKeeps
  <2> QED BY <2>1, <2>2 DEF Crash
<1>4. LockOK' /\ ReportOK'
  BY <1>1, <1>2 DEF Ind, TypeOK, LockOK, ReportOK, NoDecision, Outcomes
<1>5. \A s \in Services : outcome'[s] # "done"
  BY <1>2 DEF NoDecision
<1> QED BY <1>2, <1>3, <1>4, <1>5, EndKeeps

-----------------------------------------------------------------------------
(* The upgrade.                                                            *)

LEMMA UpgradeActionKeeps == ASSUME Ind, NEW a \in plan, UpgradeAction(a) PROVE Ind'
<1>1. /\ UNCHANGED <<lockVer, pending, pc, mode, before, outcome, exit>>
      /\ UNCHANGED <<decision, triggers, errs, unready, unrecorded, queue, probes>>
      /\ pc = "upgrade" /\ plan' = plan \ {a}
  BY DEF UpgradeAction, lockFile, phase, report
<1>2. PICK failed \in SUBSET {"command", "versionQuery"} :
        /\ Faults(failed)
        /\ \E done \in SUBSET a.cmd : Replace(done)
        /\ \E read \in SUBSET a.lps : CollectVersions(a, read, "command" \notin failed)
        /\ cmdFailed' = (cmdFailed \/ "command" \in failed)
  <2>1. PICK failed \in SUBSET {"command", "versionQuery"} :
          /\ Faults(failed)
          /\ \E done \in IF "command" \in failed THEN SUBSET a.cmd ELSE {a.cmd} : Replace(done)
          /\ LET known == a.lps \ NoVersion
             IN  \E read \in IF "versionQuery" \in failed THEN SUBSET known ELSE {known} :
                   CollectVersions(a, read, "command" \notin failed)
          /\ cmdFailed' = (cmdFailed \/ "command" \in failed)
    BY DEF UpgradeAction
  <2>2. \E done \in SUBSET a.cmd : Replace(done)
    BY <2>1
  <2>3. \E read \in SUBSET a.lps : CollectVersions(a, read, "command" \notin failed)
    BY <2>1
  <2> QED BY <2>1, <2>2, <2>3
<1>3. a.cmd \in SUBSET Pkgs /\ a.lps \in SUBSET Pkgs
  BY DEF Ind, TypeOK, RunOK
<1>4. MachineOK' /\ available' = available /\ \A p \in Pkgs : binary[p] <= binary'[p]
  BY <1>1, <1>2, <1>3, ReplaceKeeps
<1>5. PICK read \in SUBSET Pkgs : CollectVersions(a, read, "command" \notin failed)
  BY <1>2, <1>3
<1>6. /\ mem' \in [Pkgs -> Versions] /\ upgraded' \subseteq Pkgs
      /\ \A p \in Pkgs : mem'[p] = mem[p] \/ mem'[p] = binary'[p]
  BY <1>3, <1>4, <1>5, BoundsAssumption DEF CollectVersions, Ind, TypeOK, RunOK, MachineOK, Versions
<1>7. TypeOK'
  <2>1. faults' \in 0..MaxFaults
    <3>1. IsFiniteSet({"command"} \cup {"versionQuery"})
      <4>1. IsFiniteSet({"command"})
        BY FS_Singleton
      <4> QED BY <4>1, FS_AddElement
    <3>2. failed \subseteq {"command"} \cup {"versionQuery"}
      OBVIOUS
    <3>3. IsFiniteSet(failed)
      BY <3>1, <3>2, FS_Subset
    <3> QED BY <1>2, <3>3, FaultsBound DEF Ind
  <2>2. RunOK'
    BY <1>1, <1>2, <1>6 DEF Ind, TypeOK, RunOK
  <2> QED BY <1>1, <1>4, <2>1, <2>2 DEF Ind, TypeOK, LockOK, PhaseOK, ReportOK
<1>8. VersionsInOrder'
  BY <1>1, <1>4, <1>6, BoundsAssumption DEF Ind, TypeOK, RunOK, MachineOK, LockOK, Versions, VersionsInOrder
<1>9. Justified'
  BY <1>1 DEF Ind, NothingBetweenRuns, InPhase, Justified, NoDecision, NoTriggers
<1>10. NothingBetweenRuns' /\ QueueOfThePhase' /\ Recording' /\ Stopping' /\ Starting' /\ Probing'
  BY <1>1 DEF Ind, NothingBetweenRuns, InPhase, QueueOfThePhase, Recording, Stopping, Starting, Probing
<1>11. Reported'
  BY <1>1 DEF Ind, Reported
<1> QED BY <1>7, <1>8, <1>9, <1>10, <1>11 DEF Ind

LEMMA SkipElevationKeeps == ASSUME Ind, NEW a \in plan, SkipElevation(a) PROVE Ind'
<1>1. /\ UNCHANGED <<available, binary, up, stale, lockVer, pending, pc, mode, mem, before, upgraded, cmdFailed>>
      /\ UNCHANGED <<decision, triggers, errs, unready, unrecorded, queue, probes, outcome, exit, faults>>
      /\ pc = "upgrade" /\ plan' = plan \ {a}
  BY DEF SkipElevation, machine, lockFile, phase, report
<1>2. TypeOK'
  BY <1>1 DEF Ind, TypeOK, MachineOK, LockOK, RunOK, PhaseOK, ReportOK
<1>3. VersionsInOrder' /\ Reported'
  BY <1>1 DEF Ind, VersionsInOrder, Reported
<1>4. Justified'
  BY <1>1 DEF Ind, NothingBetweenRuns, InPhase, Justified, NoDecision, NoTriggers
<1>5. NothingBetweenRuns' /\ QueueOfThePhase' /\ Recording' /\ Stopping' /\ Starting' /\ Probing'
  BY <1>1 DEF Ind, NothingBetweenRuns, InPhase, QueueOfThePhase, Recording, Stopping, Starting, Probing
<1> QED BY <1>2, <1>3, <1>4, <1>5 DEF Ind

LEMMA WriteLockKeeps == ASSUME Ind, WriteLockSucceeds \/ WriteLockFails PROVE Ind'
<1>1. PICK written \in BOOLEAN : WriteLock(written)
  BY DEF WriteLockSucceeds, WriteLockFails
<1>2. faults' \in 0..MaxFaults
  BY FaultBound DEF WriteLockSucceeds, WriteLockFails, Ind
<1>3. /\ UNCHANGED <<available, binary, up, stale, pending, outcome>>
      /\ pc = "upgrade" /\ lockVer' \in {lockVer, mem} /\ exit' \in {"ok", "failed"}
  BY <1>1 DEF WriteLock, machine
<1>4. MachineOK' /\ LockOK' /\ ReportOK'
  BY <1>2, <1>3 DEF Ind, TypeOK, MachineOK, LockOK, RunOK, ReportOK, VersionsInOrder
<1>5. \A s \in Services : outcome'[s] # "done"
  BY <1>3 DEF Ind, Reported
<1>6. CASE EndRun
  BY <1>4, <1>5, <1>6, EndKeeps
<1>7. CASE pc' = "evidence" /\ UNCHANGED <<inMemory, phase, queue, probes>>
  <2>1. /\ UNCHANGED <<mode, plan, mem, before, upgraded, cmdFailed>>
        /\ UNCHANGED <<decision, triggers, errs, unready, unrecorded, queue, probes>>
    BY <1>7 DEF inMemory, phase
  <2>2. TypeOK'
    BY <1>4, <1>7, <2>1 DEF Ind, TypeOK, RunOK, PhaseOK, Labels
  <2>3. VersionsInOrder'
    BY <1>3, <2>1 DEF Ind, VersionsInOrder
  <2>4. Justified'
    BY <1>3, <2>1 DEF Ind, NothingBetweenRuns, InPhase, Justified, NoDecision, NoTriggers
  <2>5. NothingBetweenRuns' /\ QueueOfThePhase' /\ Recording' /\ Stopping' /\ Starting' /\ Probing'
    BY <1>3, <1>7, <2>1 DEF Ind, NothingBetweenRuns, InPhase, QueueOfThePhase, Recording, Stopping, Starting, Probing
  <2>6. Reported'
    BY <1>3 DEF Ind, Reported
  <2> QED BY <2>2, <2>3, <2>4, <2>5, <2>6 DEF Ind
<1> QED BY <1>1, <1>6, <1>7 DEF WriteLock

-----------------------------------------------------------------------------
(* The decisions.                                                          *)

\* A service is restarted, started, skipped or deferred for a reason.
LEMMA DecisionHasReason ==
  ASSUME Ind, NEW s \in Services, NEW after \in [Pkgs -> Versions],
         \A p \in Pkgs : before[p] <= after[p] /\ after[p] <= binary[p]
  PROVE  /\ Decision(s, after) \in Decisions
         /\ Decision(s, after) # "none" => InPlan(s)
         /\ Decision(s, after) = "restart" =>
              s \in up /\ \E p \in Watch[s] : before[p] # 0 /\ binary[p] # before[p]
         /\ Decision(s, after) = "start" => s \in IfRunning /\ s \notin up
         /\ Changed(s, after) \subseteq Watch[s]
<1>1. Changed(s, after) \subseteq Watch[s]
  BY DEF Changed
<1>2. Decision(s, after) = "restart" => Changed(s, after) # {}
  BY DEF Decision
<1>3. Changed(s, after) # {} => \E p \in Watch[s] : before[p] # 0 /\ binary[p] # before[p]
  <2> SUFFICES ASSUME NEW p \in Changed(s, after)
               PROVE  before[p] # 0 /\ binary[p] # before[p]
    BY <1>1
  <2>1. p \in Pkgs
    BY <1>1, ServicesAssumption
  <2>2. before[p] # 0 /\ before[p] # after[p]
    BY DEF Changed, Evidence, EvidenceFromVersions
  <2>3. /\ before[p] \in Nat /\ after[p] \in Nat /\ binary[p] \in Nat
        /\ before[p] <= after[p] /\ after[p] <= binary[p]
    BY <2>1, BoundsAssumption DEF Ind, TypeOK, RunOK, MachineOK, Versions
  <2> QED BY <2>2, <2>3
<1>4. Decision(s, after) = "restart" => s \in up
  BY DEF Decision
<1>5. Decision(s, after) = "start" => s \in IfRunning /\ s \notin up
  BY DEF Decision
<1> QED BY <1>1, <1>2, <1>3, <1>4, <1>5 DEF Decision, Decisions

LEMMA DecideKeeps == ASSUME Ind, DecideFromLock \/ DecideFromMemory PROVE Ind'
<1>1. faults' \in 0..MaxFaults
  BY FaultBound DEF DecideFromLock, DecideFromMemory, Ind
<1>2. PICK after \in {lockVer, mem} : Decide(after)
  BY DEF DecideFromLock, DecideFromMemory
<1> DEFINE chosen == [s \in Services |-> Decision(s, after)]
           todo == {s \in Services : chosen[s] \in {"restart", "start"}}
<1>3. /\ after \in [Pkgs -> Versions]
      /\ \A p \in Pkgs : before[p] <= after[p] /\ after[p] <= binary[p]
  BY DEF Ind, TypeOK, MachineOK, LockOK, RunOK, VersionsInOrder
<1>4. /\ UNCHANGED <<available, binary, up, stale, lockVer, pending, exit>> /\ pc = "evidence"
      /\ outcome' = [s \in Services |-> IF chosen[s] \in {"skip", "defer"} THEN chosen[s] ELSE "none"]
  BY <1>2 DEF Decide, machine, lockFile
<1>5. \A s \in Services : outcome'[s] \in {"none", "skip", "defer"}
  BY <1>4
<1>6. MachineOK' /\ LockOK' /\ ReportOK'
  <2>1. outcome' \in [Services -> Outcomes]
    BY <1>4, <1>5 DEF Outcomes
  <2> QED BY <1>1, <1>4, <2>1 DEF Ind, TypeOK, MachineOK, LockOK, ReportOK
<1>7. CASE EndRun
  BY <1>5, <1>6, <1>7, EndKeeps
<1>8. CASE /\ pc' = "record" /\ decision' = chosen /\ queue' = todo
           /\ triggers' = [s \in Services |-> Changed(s, after)]
           /\ UNCHANGED <<inMemory, errs, unready, unrecorded, probes>>
  <2>1. /\ UNCHANGED <<mode, plan, mem, before, upgraded, cmdFailed>>
        /\ UNCHANGED <<errs, unready, unrecorded, probes>>
    BY <1>8 DEF inMemory
  <2>2. \A s \in Services :
          /\ decision'[s] \in Decisions
          /\ decision'[s] # "none" => InPlan(s)
          /\ decision'[s] = "restart" =>
               s \in up /\ \E p \in Watch[s] : before[p] # 0 /\ binary[p] # before[p]
          /\ decision'[s] = "start" => s \in IfRunning /\ s \notin up
          /\ triggers'[s] \subseteq Watch[s]
    BY <1>3, <1>8, DecisionHasReason
  <2>3. TypeOK'
    <3>1. decision' \in [Services -> Decisions] /\ triggers' \in [Services -> SUBSET Pkgs]
      BY <1>8, <2>2, ServicesAssumption
    <3>2. PhaseOK'
      BY <1>8, <2>1, <3>1 DEF Ind, TypeOK, PhaseOK
    <3> QED BY <1>6, <1>8, <2>1, <3>2 DEF Ind, TypeOK, RunOK, Labels
  <2>4. VersionsInOrder'
    BY <1>4, <2>1 DEF Ind, VersionsInOrder
  <2>5. Justified'
    BY <1>4, <2>1, <2>2 DEF Justified, InPlan
  <2>6. NothingBetweenRuns' /\ Probing' /\ Reported'
    BY <1>5, <1>8 DEF NothingBetweenRuns, InPhase, Probing, Reported
  <2>7. QueueOfThePhase' /\ ToAct' = queue'
    BY <1>8 DEF QueueOfThePhase, ToAct, Actionable
  <2>8. Recording' /\ Starting'
    BY <1>4, <1>8, <2>1, <2>7 DEF Ind, NothingBetweenRuns, InPhase, Recording, Starting
  <2>9. Stopping'
    BY <1>4, <1>8, <2>2 DEF Stopping, ToAct, ToStop, Actionable
  <2> QED BY <2>3, <2>4, <2>5, <2>6, <2>7, <2>8, <2>9 DEF Ind
<1> QED BY <1>2, <1>7, <1>8 DEF Decide

-----------------------------------------------------------------------------
(* The loops of the restart phase.                                         *)

\* What no loop changes.
LEMMA LoopFrame ==
  ASSUME Ind, pc \in InPhase, pc' \in InPhase,
         UNCHANGED <<available, binary, lockVer, inMemory, decision, triggers>>,
         up' \subseteq Services, stale' \subseteq {pair \in up' \X Pkgs : pair[2] \in Watch[pair[1]]},
         pending' \subseteq {pair \in Services \X Pkgs : pair[2] \in Watch[pair[1]]},
         queue' \subseteq Services, errs' \subseteq Services, unready' \subseteq Services,
         unrecorded' \subseteq Services, probes' \in 0..MaxProbes,
         outcome' \in [Services -> Outcomes], exit' \in {"ok", "failed"}, faults' \in 0..MaxFaults
  PROVE  /\ TypeOK' /\ VersionsInOrder' /\ NothingBetweenRuns' /\ Justified'
         /\ ToAct' = ToAct /\ ToStop' = ToStop
<1>1. UNCHANGED <<mode, plan, mem, before, upgraded, cmdFailed>>
  BY DEF inMemory
<1>2. TypeOK'
  <2>1. MachineOK' /\ LockOK'
    BY DEF Ind, TypeOK, MachineOK, LockOK
  <2>2. RunOK' /\ PhaseOK' /\ ReportOK'
    BY <1>1 DEF Ind, TypeOK, RunOK, PhaseOK, ReportOK
  <2> QED BY <2>1, <2>2 DEF TypeOK, InPhase, Labels
<1>3. VersionsInOrder' /\ NothingBetweenRuns'
  BY <1>1 DEF Ind, VersionsInOrder, NothingBetweenRuns
<1>4. Justified'
  BY <1>1 DEF Ind, Justified, InPlan
<1> QED BY <1>2, <1>3, <1>4 DEF ToAct, ToStop, Actionable

\* Where a visit leads: on with the loop, or to the next one with all its services.
LEMMA VisitCases ==
  ASSUME NEW s, NEW loop, NEW nextLoop, NEW services, NextVisit(s, loop, nextLoop, services), s \in queue
  PROVE  \/ pc' = loop /\ queue' = queue \ {s} /\ queue' # {}
         \/ pc' = nextLoop /\ queue' = services /\ queue \ {s} = {}
BY DEF NextVisit

LEMMA RecordKeeps == ASSUME Ind, NEW s \in Services, RecordPending(s) PROVE Ind'
<1>1. /\ pc = "record" /\ s \in queue
      /\ UNCHANGED <<available, binary, up, stale, lockVer, inMemory, decision, triggers, errs, unready, probes,
                     outcome, exit>>
  BY DEF RecordPending, IsNext, machine, report
<1>2. faults' \in 0..MaxFaults
  BY FaultBound DEF RecordPending, Ind
<1>3. \/ pending' = pending \cup Records(s) /\ unrecorded' = unrecorded
      \/ pending' = pending /\ unrecorded' = unrecorded \cup {s}
  BY DEF RecordPending
<1>4. \/ pc' = "record" /\ queue' = queue \ {s}
      \/ pc' = "start" /\ queue' = ToAct /\ queue \ {s} = {} /\ ToStop = {}
      \/ pc' = "stop" /\ queue' = ToStop /\ queue \ {s} = {}
  BY <1>1, VisitCases DEF RecordPending, Recorded
<1>5. /\ TypeOK' /\ VersionsInOrder' /\ NothingBetweenRuns' /\ Justified'
      /\ ToAct' = ToAct /\ ToStop' = ToStop
  <2>1. triggers[s] \subseteq Watch[s] /\ Watch[s] \subseteq Pkgs
    BY ServicesAssumption DEF Ind, Justified
  <2>2. Records(s) \subseteq {pair \in Services \X Pkgs : pair[2] \in Watch[pair[1]]}
    BY <2>1 DEF Records
  <2>3. /\ pending' \subseteq {pair \in Services \X Pkgs : pair[2] \in Watch[pair[1]]}
        /\ unrecorded' \subseteq Services
    BY <1>3, <2>2 DEF Ind, TypeOK, LockOK, PhaseOK
  <2>4. queue' \subseteq Services
    BY <1>4, ActsOnServices DEF Ind, TypeOK, PhaseOK
  <2>5. pc \in InPhase /\ pc' \in InPhase
    BY <1>1, <1>4 DEF InPhase
  <2>6. MachineOK /\ PhaseOK /\ ReportOK
    BY DEF Ind, TypeOK
  <2> QED BY <1>1, <1>2, <2>3, <2>4, <2>5, <2>6, LoopFrame DEF MachineOK, PhaseOK, ReportOK
<1>6. \A t \in ToAct : OnRecord(t) => OnRecord(t)'
  BY <1>1, <1>3 DEF OnRecord
<1>7. OnRecord(s)'
  BY <1>1, <1>3 DEF OnRecord, Records
<1>8. QueueOfThePhase'
  BY <1>4, <1>5, ActsOnServices DEF Ind, QueueOfThePhase
<1>9. Recording'
  BY <1>1, <1>4, <1>5, <1>6, <1>7 DEF Ind, Recording
<1>10. Stopping'
  BY <1>1, <1>4, <1>5 DEF Ind, Stopping
<1>11. Starting'
  <2>1. \A t \in ToAct \ ToStop : Clean(t)
    BY <1>1, ActsOnServices DEF Ind, Stopping, Clean, TypeOK, MachineOK
  <2> QED BY <1>1, <1>4, <1>5, <2>1 DEF Starting, Clean
<1>12. Reported' /\ Probing'
  BY <1>1, <1>4 DEF Ind, Reported, Probing, Clean
<1> QED BY <1>5, <1>8, <1>9, <1>10, <1>11, <1>12 DEF Ind

LEMMA StopKeeps == ASSUME Ind, NEW s \in Services, Stop(s) PROVE Ind'
<1>1. /\ pc = "stop" /\ s \in queue /\ s \in ToStop
      /\ UNCHANGED <<available, binary, lockVer, pending, inMemory, decision, triggers, unready, unrecorded,
                     probes, outcome, exit>>
  BY DEF Stop, IsNextToStop, lockFile, report, Ind, QueueOfThePhase
<1>2. faults' \in 0..MaxFaults
  BY FaultBound DEF Stop, Ind
<1>3. /\ up' \subseteq up /\ up \ {s} \subseteq up' /\ stale' \subseteq stale
      /\ errs \subseteq errs' /\ errs' \subseteq errs \cup {s}
      /\ s \in errs' \/ s \notin up'
      /\ \/ up' = up
         \/ s \notin up' /\ stale' = Fresh(s)
  BY DEF Stop, Failed, Fresh
<1>4. \/ pc' = "stop" /\ queue' = queue \ {s}
      \/ pc' = "start" /\ queue' = ToAct /\ queue \ {s} = {}
  BY <1>1, VisitCases DEF Stop, Stopped
<1>5. stale' \subseteq {pair \in up' \X Pkgs : pair[2] \in Watch[pair[1]]}
  BY <1>3 DEF Ind, TypeOK, MachineOK, Fresh
<1>6. /\ TypeOK' /\ VersionsInOrder' /\ NothingBetweenRuns' /\ Justified'
      /\ ToAct' = ToAct /\ ToStop' = ToStop
  <2>1. queue' \subseteq Services
    BY <1>4, ActsOnServices DEF Ind, TypeOK, PhaseOK
  <2>2. pc \in InPhase /\ pc' \in InPhase
    BY <1>1, <1>4 DEF InPhase
  <2>3. up' \subseteq Services /\ errs' \subseteq Services
    BY <1>3 DEF Ind, TypeOK, MachineOK, PhaseOK
  <2>4. LockOK /\ PhaseOK /\ ReportOK
    BY DEF Ind, TypeOK
  <2> QED BY <1>1, <1>2, <1>5, <2>1, <2>2, <2>3, <2>4, LoopFrame DEF LockOK, PhaseOK, ReportOK
<1>7. QueueOfThePhase'
  BY <1>1, <1>4, <1>6 DEF Ind, QueueOfThePhase
<1>8. Recording'
  BY <1>1, <1>4, <1>6 DEF Ind, Recording, OnRecord
<1>9. Stopping'
  BY <1>1, <1>3, <1>4, <1>6 DEF Ind, Stopping
<1>10. Starting'
  <2>1. ASSUME pc' # "stop" PROVE \A t \in ToAct : t \in errs' \/ t \notin up'
    <3>1. \A t \in ToStop \ queue : t \in errs \/ t \notin up
      BY <1>1 DEF Ind, Stopping
    <3>2. \A t \in ToAct \ ToStop : t \notin up
      BY <1>1 DEF Ind, Stopping
    <3>3. \A t \in ToStop \ {s} : t \notin queue
      BY <1>4, <2>1
    <3> QED BY <1>3, <3>1, <3>2, <3>3
  <2>2. pc' # "stop" => \A t \in ToAct : t \in errs' \/ Clean(t)'
    BY <1>5, <2>1 DEF Clean
  <2> QED BY <1>4, <1>6, <2>2 DEF Starting
<1>11. Reported' /\ Probing'
  BY <1>1, <1>4 DEF Ind, Reported, Probing, Clean
<1> QED BY <1>6, <1>7, <1>8, <1>9, <1>10, <1>11 DEF Ind

LEMMA StartKeeps == ASSUME Ind, NEW s \in Services, Start(s) PROVE Ind'
<1>1. /\ pc = "start" /\ IsNext(s) /\ s \in queue /\ s \in ToAct
      /\ UNCHANGED <<available, binary, stale, lockVer, pending, inMemory, decision, triggers, unready,
                     unrecorded, outcome, exit>>
  BY DEF Start, IsNext, lockFile, report, Ind, QueueOfThePhase
<1>2. faults' \in 0..MaxFaults
  BY FaultBound DEF Start, Ind, TypeOK, ReportOK
<1>3. /\ up \subseteq up' /\ up' \subseteq up \cup {s}
      /\ errs \subseteq errs' /\ errs' \subseteq errs \cup {s}
      /\ s \in errs' \/ s \in up'
  BY DEF Start, Failed
<1>4. \/ pc' = "start" /\ queue' = queue \ {s} /\ probes' = probes
      \/ pc' = "clear" /\ queue' = ToAct /\ queue \ {s} = {} /\ probes' = probes
      \/ pc' = "probe" /\ queue' = queue /\ probes' = MaxProbes /\ s \in up'
  BY <1>1, VisitCases DEF Start, Started
<1>5. /\ TypeOK' /\ VersionsInOrder' /\ NothingBetweenRuns' /\ Justified'
      /\ ToAct' = ToAct /\ ToStop' = ToStop
  <2>1. queue' \subseteq Services
    BY <1>4, ActsOnServices DEF Ind, TypeOK, PhaseOK
  <2>2. pc \in InPhase /\ pc' \in InPhase
    BY <1>1, <1>4 DEF InPhase
  <2>3. up' \subseteq Services /\ errs' \subseteq Services
    BY <1>3 DEF Ind, TypeOK, MachineOK, PhaseOK
  <2>4. stale' \subseteq {pair \in up' \X Pkgs : pair[2] \in Watch[pair[1]]}
    BY <1>1, <1>3 DEF Ind, TypeOK, MachineOK
  <2>5. probes' \in 0..MaxProbes
    BY <1>4, BoundsAssumption DEF Ind, TypeOK, PhaseOK
  <2>6. LockOK /\ PhaseOK /\ ReportOK
    BY DEF Ind, TypeOK
  <2> QED BY <1>1, <1>2, <2>1, <2>2, <2>3, <2>4, <2>5, <2>6, LoopFrame DEF LockOK, PhaseOK, ReportOK
<1>6. QueueOfThePhase'
  BY <1>1, <1>4, <1>5 DEF Ind, QueueOfThePhase
<1>7. Recording' /\ Stopping'
  BY <1>4 DEF Recording, Stopping
<1>8. Starting'
  <2>1. \A t \in ToAct : t \in errs' \/ Clean(t)'
    BY <1>1, <1>3 DEF Ind, Starting, Clean
  <2>2. \A t \in ToAct \ queue : t \in errs' \/ t \in up'
    BY <1>1, <1>3 DEF Ind, Starting
  <2>3. CASE pc' = "start"
    BY <1>3, <1>4, <1>5, <2>1, <2>2, <2>3 DEF Starting
  <2>4. CASE pc' = "clear"
    BY <1>3, <1>4, <1>5, <2>1, <2>2, <2>4 DEF Starting
  <2>5. CASE pc' = "probe"
    <3>1. \A t \in queue : IsNext(t)' => t = s
      BY <1>1, <1>4, <2>5, ServicesAssumption DEF IsNext, Ind, TypeOK, PhaseOK
    <3> QED BY <1>4, <1>5, <2>1, <2>2, <2>5, <3>1 DEF Starting
  <2> QED BY <1>4, <2>3, <2>4, <2>5
<1>9. Reported' /\ Probing'
  BY <1>1, <1>3, <1>4, BoundsAssumption DEF Ind, Reported, Probing, Clean
<1> QED BY <1>5, <1>6, <1>7, <1>8, <1>9 DEF Ind

\* A probe that is not the last of a failing check, and one that is.
LEMMA ProbeKeeps == ASSUME Ind, NEW s \in Services, ProbePasses(s) \/ ProbeFails(s) PROVE Ind'
<1>1. /\ pc = "probe" /\ IsNext(s) /\ s \in queue /\ s \in ToAct
      /\ UNCHANGED <<available, binary, up, stale, lockVer, pending, inMemory, decision, triggers, errs,
                     unrecorded, outcome, exit, faults>>
  BY DEF ProbePasses, ProbeFails, IsNext, machine, lockFile, report, Ind, QueueOfThePhase
<1>2. \/ pc' = "probe" /\ queue' = queue /\ unready' = unready /\ probes > 1 /\ probes' = probes - 1
      \/ Started(s) /\ probes' = 0 /\ unready' \subseteq unready \cup {s}
  BY DEF ProbePasses, ProbeFails
<1>3. \/ pc' = "probe" /\ queue' = queue
      \/ pc' = "start" /\ queue' = queue \ {s}
      \/ pc' = "clear" /\ queue' = ToAct /\ queue \ {s} = {}
  BY <1>1, <1>2, VisitCases DEF Started
<1>4. probes' \in 0..MaxProbes /\ (pc' = "probe" => probes' # 0)
  BY <1>1, <1>2, <1>3, VisitCases, BoundsAssumption DEF Started, Ind, TypeOK, PhaseOK
<1>5. /\ TypeOK' /\ VersionsInOrder' /\ NothingBetweenRuns' /\ Justified'
      /\ ToAct' = ToAct /\ ToStop' = ToStop
  <2>1. queue' \subseteq Services
    BY <1>3, ActsOnServices DEF Ind, TypeOK, PhaseOK
  <2>2. pc \in InPhase /\ pc' \in InPhase
    BY <1>1, <1>3 DEF InPhase
  <2>3. unready' \subseteq Services
    BY <1>2 DEF Ind, TypeOK, PhaseOK
  <2>4. MachineOK /\ LockOK /\ PhaseOK /\ ReportOK
    BY DEF Ind, TypeOK
  <2> QED BY <1>1, <1>4, <2>1, <2>2, <2>3, <2>4, LoopFrame DEF MachineOK, LockOK, PhaseOK, ReportOK
<1>6. QueueOfThePhase'
  BY <1>1, <1>3, <1>5 DEF Ind, QueueOfThePhase
<1>7. Recording' /\ Stopping'
  BY <1>3 DEF Recording, Stopping
<1>8. Starting'
  <2>1. \A t \in ToAct : t \in errs' \/ Clean(t)'
    BY <1>1 DEF Ind, Starting, Clean
  <2>2. \A t \in (ToAct \ queue) \cup {s} : t \in errs' \/ t \in up'
    BY <1>1 DEF Ind, Starting
  <2>3. pc' = "probe" => \A t \in queue : IsNext(t)' => t \in up'
    BY <1>1, <1>3 DEF IsNext, Ind, Starting
  <2> QED BY <1>3, <1>5, <2>1, <2>2, <2>3 DEF Starting
<1>9. Reported' /\ Probing'
  BY <1>1, <1>3, <1>4 DEF Ind, Reported, Probing, Clean
<1> QED BY <1>5, <1>6, <1>7, <1>8, <1>9 DEF Ind

LEMMA ClearKeeps == ASSUME Ind, NEW s \in Services, Clear(s) PROVE Ind'
<1>1. /\ pc = "clear" /\ s \in queue /\ s \in ToAct
      /\ UNCHANGED <<available, binary, up, stale, lockVer>>
  BY DEF Clear, IsNext, machine, Ind, QueueOfThePhase
<1>2. faults' \in 0..MaxFaults
  BY FaultBound DEF Clear, Ind
<1>3. pending' \subseteq pending /\ exit' \in {"ok", "failed"}
  BY DEF Clear, OtherRecords, Ind, TypeOK, ReportOK
<1>4. outcome' \in [Services -> Outcomes] /\ \A t \in Services : t # s => outcome'[t] = outcome[t]
  BY DEF Clear, Ind, TypeOK, ReportOK, Outcomes
<1>5. outcome'[s] = "done" => s \in up' /\ Clean(s)'
  <2>1. outcome'[s] = "done" => s \notin errs
    BY DEF Clear, Ind, TypeOK, ReportOK
  <2>2. s \notin errs => s \in up /\ Clean(s)
    BY <1>1 DEF Ind, Starting
  <2> QED BY <1>1, <2>1, <2>2 DEF Clean
<1>6. \A t \in Services : outcome'[t] = "done" => t \in up' /\ Clean(t)'
  BY <1>1, <1>4, <1>5 DEF Ind, Reported, Clean
<1>7. CASE EndRun
  <2>1. MachineOK' /\ LockOK' /\ ReportOK'
    BY <1>1, <1>2, <1>3, <1>4 DEF Ind, TypeOK, MachineOK, LockOK, ReportOK
  <2> QED BY <1>6, <1>7, <2>1, EndKeeps
<1>8. CASE queue' = queue \ {s} /\ UNCHANGED <<pc, inMemory, phase, probes>>
  <2>1. UNCHANGED <<decision, triggers, errs, unready, unrecorded>>
    BY <1>8 DEF phase
  <2>2. /\ TypeOK' /\ VersionsInOrder' /\ NothingBetweenRuns' /\ Justified'
        /\ ToAct' = ToAct /\ ToStop' = ToStop
    <3>1. pc \in InPhase /\ pc' \in InPhase
      BY <1>1, <1>8 DEF InPhase
    <3>2. pending' \subseteq {pair \in Services \X Pkgs : pair[2] \in Watch[pair[1]]}
      BY <1>3 DEF Ind, TypeOK, LockOK
    <3>3. MachineOK /\ PhaseOK /\ queue' \subseteq Services
      BY <1>8 DEF Ind, TypeOK, PhaseOK
    <3> QED BY <1>1, <1>2, <1>3, <1>4, <1>8, <2>1, <3>1, <3>2, <3>3, LoopFrame DEF MachineOK, PhaseOK
  <2>3. QueueOfThePhase'
    BY <1>1, <1>8, <2>2 DEF Ind, QueueOfThePhase
  <2>4. Recording' /\ Stopping' /\ Probing'
    BY <1>1, <1>8 DEF Recording, Stopping, Probing
  <2>5. Starting'
    BY <1>1, <1>8, <2>1, <2>2 DEF Ind, Starting, Clean
  <2>6. Reported'
    BY <1>1, <1>6, <1>8 DEF Reported
  <2> QED BY <2>2, <2>3, <2>4, <2>5, <2>6 DEF Ind
<1> QED BY <1>7, <1>8 DEF Clear

LEMMA StutterKeeps == ASSUME Ind, UNCHANGED vars PROVE Ind'
<1>1. /\ UNCHANGED <<available, binary, up, stale, lockVer, pending, pc, mode, plan, mem, before, upgraded, cmdFailed>>
      /\ UNCHANGED <<decision, triggers, errs, unready, unrecorded, queue, probes, outcome, exit, faults>>
  BY DEF vars, machine, lockFile, inMemory, phase, report
<1>2. TypeOK'
  BY <1>1 DEF Ind, TypeOK, MachineOK, LockOK, RunOK, PhaseOK, ReportOK
<1>3. VersionsInOrder' /\ NothingBetweenRuns' /\ QueueOfThePhase' /\ Probing' /\ Reported'
  BY <1>1 DEF Ind, VersionsInOrder, NothingBetweenRuns, QueueOfThePhase, ToAct, ToStop,
              Actionable, Probing, Reported, Clean
<1>4. Justified'
  BY <1>1 DEF Ind, Justified, InPlan
<1>5. Recording' /\ Stopping' /\ Starting'
  BY <1>1 DEF Ind, Recording, Stopping, Starting, ToAct, ToStop, Actionable, OnRecord, Clean, IsNext
<1> QED BY <1>2, <1>3, <1>4, <1>5 DEF Ind

LEMMA StepKeeps == ASSUME Ind, [Next]_vars PROVE Ind'
<1>1. CASE Next
  BY <1>1, ReleaseKeeps, BeginKeeps, GiveUpKeeps, CrashKeeps, UpgradeActionKeeps, SkipElevationKeeps,
     WriteLockKeeps, DecideKeeps, RecordKeeps, StopKeeps, StartKeeps, ProbeKeeps, ClearKeeps
     DEF Next, RunStep
<1> QED BY <1>1, StutterKeeps

\* The inductive invariant of the upgrade and its restart phase.
THEOREM Invariance == Spec => []Ind
BY Initially, StepKeeps, PTL DEF Spec

-----------------------------------------------------------------------------
(* What the invariant gives: states.                                       *)

\* What a run reports as done is done, in every well-formed state: a service that
\* is reported as restarted or started runs, on the binaries that are installed
\* (main_service_restart.go:206-228).
THEOREM DoneIsDone == Spec => []DoneIsTrue
<1>1. Ind => DoneIsTrue
  BY DEF Ind, Reported, Clean, DoneIsTrue, DoneIsFresh
<1> QED BY <1>1, Invariance, PTL

-----------------------------------------------------------------------------
(* What it gives for steps.                                                *)

\* Only a stop takes a service down, and only a start brings one up.
LEMMA OnlyStopsStop ==
  ASSUME Ind, [Next]_vars, NEW s \in up \ up'
  PROVE  s \in Services /\ Stop(s)
<1>1. ASSUME NEW S, Replace(S) PROVE up' = up
  BY <1>1 DEF Replace
<1>2. ASSUME NEW t \in Services, Stop(t), t # s PROVE FALSE
  BY <1>2 DEF Stop
<1>3. s \in Services
  BY DEF Ind, TypeOK, MachineOK
<1> QED
  BY <1>1, <1>2, <1>3 DEF Next, RunStep, vars, machine, Release, Begin, Decline, HookFails, Crash,
     UpgradeAction, SkipElevation, WriteLockSucceeds, WriteLockFails, WriteLock, DecideFromLock,
     DecideFromMemory, Decide, RecordPending, Start, ProbePasses, ProbeFails, Clear

LEMMA OnlyStartsStart ==
  ASSUME Ind, [Next]_vars, NEW s \in up' \ up
  PROVE  s \in Services /\ Start(s)
<1>1. ASSUME NEW S, Replace(S) PROVE up' = up
  BY <1>1 DEF Replace
<1>2. ASSUME NEW t \in Services, Start(t), t # s PROVE FALSE
  BY <1>2 DEF Start
<1>3. ASSUME NEW t \in Services, Stop(t) PROVE FALSE
  BY <1>3 DEF Stop
<1>4. s \in Services
  BY StepKeeps DEF Ind, TypeOK, MachineOK
<1> QED
  BY <1>1, <1>2, <1>3, <1>4 DEF Next, RunStep, vars, machine, Release, Begin, Decline, HookFails, Crash,
     UpgradeAction, SkipElevation, WriteLockSucceeds, WriteLockFails, WriteLock, DecideFromLock,
     DecideFromMemory, Decide, RecordPending, ProbePasses, ProbeFails, Clear

\* Only the last loop takes records away.
LEMMA OnlyClearsClear ==
  ASSUME Ind, [Next]_vars, NEW pair \in pending \ pending'
  PROVE  \E s \in Services : Clear(s)
BY DEF Next, RunStep, vars, lockFile, Release, Begin, Decline, HookFails, Crash,
   UpgradeAction, SkipElevation, WriteLockSucceeds, WriteLockFails, WriteLock, DecideFromLock,
   DecideFromMemory, Decide, RecordPending, Stop, Start, ProbePasses, ProbeFails

\* A pending record covers the whole time that a service may be down or on an old
\* binary: written before the stop, unless the write failed, and cleared after the
\* confirmed start, however many runs were killed in between
\* (main_service_restart.go:163-228).
THEOREM RecordsSpanTheGap == Spec => RecordSpansTheGap
<1>1. ASSUME Ind, [Next]_vars
      PROVE  \A s \in up \ up' : s \in unrecorded \/ {s} \X triggers[s] \subseteq pending
  <2> TAKE s \in up \ up'
  <2>1. Stop(s)
    BY <1>1, OnlyStopsStop
  <2>2. pc = "stop" /\ s \in ToAct
    BY <1>1, <2>1, ActsOnServices DEF Stop, IsNextToStop, Ind, QueueOfThePhase
  <2> QED BY <1>1, <2>2 DEF Ind, Recording, OnRecord
<1>2. ASSUME Ind, [Next]_vars
      PROVE  \A pair \in pending \ pending' :
               /\ pair[1] \in up \ unready
               /\ \A p \in Pkgs : <<pair[1], p>> \notin stale
  <2> TAKE pair \in pending \ pending'
  <2>1. PICK s \in Services : Clear(s)
    BY <1>2, OnlyClearsClear
  <2>2. Confirmed(s) /\ pair[1] = s
    BY <1>2, <2>1 DEF Clear, OtherRecords
  <2>3. pc = "clear" /\ s \in ToAct
    BY <1>2, <2>1 DEF Clear, IsNext, Ind, QueueOfThePhase
  <2> QED BY <1>2, <2>2, <2>3 DEF Confirmed, Ind, Starting, Clean
<1>3. Spec => StopIsOnRecord
  BY <1>1, Invariance, PTL DEF Spec, StopIsOnRecord
<1>4. Spec => ClearIsConfirmed
  BY <1>2, Invariance, PTL DEF Spec, ClearIsConfirmed
<1> QED BY <1>3, <1>4 DEF RecordSpansTheGap

\* A service is taken down only for a binary seen to change under it, and brought up
\* only if the run took it down or its policy says so (internal/service/changes.go:114).
THEOREM EveryRestartHasItsReason == Spec => RestartsForAReason
<1>1. ASSUME Ind, [Next]_vars
      PROVE  \A s \in up \ up' : \E p \in Watch[s] : before[p] # 0 /\ binary[p] # before[p]
  <2> TAKE s \in up \ up'
  <2>1. Stop(s) /\ s \in Services
    BY <1>1, OnlyStopsStop
  <2>2. decision[s] = "restart"
    BY <1>1, <2>1 DEF Stop, IsNextToStop, Ind, QueueOfThePhase, ToStop
  <2> QED BY <1>1, <2>1, <2>2 DEF Ind, Justified
<1>2. ASSUME Ind, [Next]_vars
      PROVE  \A s \in up' \ up : s \in IfRunning \/ decision[s] = "restart"
  <2> TAKE s \in up' \ up
  <2>1. Start(s) /\ s \in Services
    BY <1>2, OnlyStartsStart
  <2>2. decision[s] \in {"restart", "start"}
    BY <1>2, <2>1 DEF Start, IsNext, Ind, QueueOfThePhase, ToAct, Actionable
  <2> QED BY <1>2, <2>1, <2>2 DEF Ind, Justified
<1>3. Spec => NeverRestartsOnAGuess
  BY <1>1, Invariance, PTL DEF Spec, NeverRestartsOnAGuess
<1>4. Spec => LeavesStoppedAlone
  BY <1>2, Invariance, PTL DEF Spec, LeavesStoppedAlone
<1> QED BY <1>3, <1>4 DEF RestartsForAReason

-----------------------------------------------------------------------------
(* The order of stops and starts.                                          *)

\* What a service depends on, directly or not, comes before it.
LEMMA ChainComesFirst ==
  ASSUME NEW s \in Services, NEW d \in AllRequires(s)
  PROVE  d \in Services /\ d < s
<1> DEFINE C == {c \in Services : c < s}
<1>1. \A c \in Services : c \in Nat
  BY ServicesAssumption
<1>2. Requires[s] \subseteq C
  BY OrderAssumption, ServicesAssumption
<1>3. \A c \in C : Requires[c] \subseteq C
  <2> SUFFICES ASSUME NEW c \in C, NEW e \in Requires[c] PROVE e \in C
    OBVIOUS
  <2>1. e \in Services /\ e < c
    BY OrderAssumption, ServicesAssumption
  <2> QED BY <1>1, <2>1
<1> QED BY <1>2, <1>3 DEF AllRequires

\* A failure anywhere down the chain blocks, as long as the chain is followed.
LEMMA FailureBlocks ==
  ASSUME NEW s \in Services, NEW d \in AllRequires(s), d \in errs, \A t \in Services : InPlan(t)
  PROVE  s \in Blocked
<1> SUFFICES ASSUME NEW W \in SUBSET Services,
                    \A t \in Services : \A e \in Requires[t] : InPlan(e) /\ e \in errs \cup W => t \in W
             PROVE  s \in W
  BY DEF Blocked
<1> DEFINE C == {c \in Services : c \notin errs \cup W}
<1>1. \A c \in Services \ W : Requires[c] \subseteq C
  BY ServicesAssumption
<1> SUFFICES ASSUME s \notin W PROVE FALSE
  OBVIOUS
<1>2. Requires[s] \subseteq C /\ \A c \in C : Requires[c] \subseteq C
  BY <1>1
<1>3. d \in C
  BY <1>2 DEF AllRequires
<1> QED BY <1>3

LEMMA DirectFailureBlocks ==
  ASSUME NEW s \in Services, NEW d \in Requires[s], d \in errs, InPlan(d)
  PROVE  s \in Blocked
BY DEF Blocked

\* Stops go from clients to dependencies and starts the other way, along chains of
\* any length, and a dependency that did not come back holds its clients back
\* (main_service_restart.go:175-204, firstFailedDependency).
THEOREM OrderOfStopsAndStarts == Spec => StopsAndStartsInOrder
<1>1. ASSUME Ind, [Next]_vars
      PROVE  \A s \in up \ up' : \A t \in Services :
               (decision[t] = "restart" /\ s \in AllRequires(t)) => t \notin up \/ t \in errs
  <2> SUFFICES ASSUME NEW s \in up \ up', NEW t \in Services,
                      decision[t] = "restart", s \in AllRequires(t)
               PROVE  t \notin up \/ t \in errs
    OBVIOUS
  <2>1. Stop(s) /\ s \in Services
    BY <1>1, OnlyStopsStop
  <2>2. s < t
    BY <1>1, ChainComesFirst
  <2>3. t \notin queue
    BY <2>1, <2>2, ServicesAssumption DEF Stop, IsNextToStop
  <2> QED BY <1>1, <2>1, <2>3 DEF Stop, Ind, Stopping, ToStop
<1>2. ASSUME Ind, [Next]_vars
      PROVE  \A s \in up' \ up :
               \A d \in IF mode \in Interactive THEN AllRequires(s) ELSE Requires[s] :
                 Actionable(d) => d \in up \ errs
  <2> SUFFICES ASSUME NEW s \in up' \ up,
                      NEW d \in IF mode \in Interactive THEN AllRequires(s) ELSE Requires[s],
                      Actionable(d)
               PROVE  d \in up \ errs
    OBVIOUS
  <2>1. Start(s) /\ s \in Services
    BY <1>2, OnlyStartsStart
  <2>2. d \in Services /\ d < s
    BY <1>2, <2>1, ChainComesFirst, OrderAssumption, ServicesAssumption
  <2>3. d \in ToAct \ queue
    BY <1>2, <2>1, <2>2, ServicesAssumption DEF Start, IsNext, ToAct
  <2>4. d \in errs \/ d \in up
    BY <1>2, <2>1, <2>3 DEF Start, Ind, Starting
  <2>5. s \notin Blocked
    BY <1>2, <2>1 DEF Start
  <2>6. InPlan(d)
    BY <1>2, <2>2 DEF Actionable, Ind, Justified
  <2>7. d \notin errs
    <3>1. CASE mode \in Interactive
      BY <1>2, <2>1, <2>5, <3>1, FailureBlocks DEF InPlan
    <3>2. CASE mode \notin Interactive
      BY <1>2, <2>1, <2>5, <2>6, <3>2, DirectFailureBlocks
    <3> QED BY <3>1, <3>2
  <2> QED BY <2>4, <2>7
<1>3. Spec => StopsClientsFirst
  BY <1>1, Invariance, PTL DEF Spec, StopsClientsFirst
<1>4. Spec => StartsOverLiveDependencies
  BY <1>2, Invariance, PTL DEF Spec, StartsOverLiveDependencies
<1> QED BY <1>3, <1>4 DEF StopsAndStartsInOrder

-----------------------------------------------------------------------------
(* The exit status.                                                        *)

\* The run's reports of a service that did not come back.
Lost(s) == outcome[s] \in {"failed", "unready"}

\* When every record can be written, no failure is named only as an unwritten
\* record, and an interactive run that has lost a service will not exit with success.
LossIsTold ==
  /\ unrecorded = {}
  /\ pc \in {"idle", "clear"} /\ mode \in Interactive /\ (\E s \in Services : Lost(s)) => exit = "failed"

\* Outside the last loop a run has lost nobody.
LEMMA LostOnlyAtTheEnd ==
  ASSUME Ind, pc \notin {"idle", "clear"}
  PROVE  \A s \in Services : ~Lost(s)
BY DEF Ind, Reported, Lost

LEMMA ClearTells ==
  ASSUME Ind, LossIsTold, NEW s \in Services, Clear(s)
  PROVE  LossIsTold'
<1>1. pc = "clear" /\ unrecorded' = {} /\ mode' = mode
  BY DEF Clear, IsNext, EndRun, phase, inMemory, LossIsTold
<1>2. \A t \in Services : t # s => outcome'[t] = outcome[t]
  BY DEF Clear, Ind, TypeOK, ReportOK
<1>3. outcome'[s] \in {"failed", "unready"} => s \in errs \cup unready
  BY DEF Clear, Ind, TypeOK, ReportOK
<1>4. mode \in Interactive /\ s \in errs \cup unready => s \in Counted
  BY DEF LossIsTold, Counted, Interactive
<1>5. s \in Counted => exit' = "failed"
  BY DEF Clear
<1>6. exit = "failed" => exit' = "failed"
  BY DEF Clear
<1> QED BY <1>1, <1>2, <1>3, <1>4, <1>5, <1>6 DEF LossIsTold, Lost

LEMMA StepTells ==
  ASSUME "record" \notin FaultKinds, Ind, LossIsTold, [Next]_vars
  PROVE  LossIsTold'
<1>1. unrecorded' = {}
  BY DEF LossIsTold, Next, RunStep, vars, phase, Release, Begin, Decline, HookFails, Crash, EndRun,
     UpgradeAction, SkipElevation, WriteLockSucceeds, WriteLockFails, WriteLock, DecideFromLock,
     DecideFromMemory, Decide, RecordPending, Fault, Faults, Stop, Start, ProbePasses, ProbeFails, Clear
<1>2. CASE UNCHANGED <<pc, mode, outcome, exit>>
  BY <1>1, <1>2 DEF LossIsTold, Lost
<1>3. CASE \A s \in Services : ~Lost(s)'
  BY <1>1, <1>3 DEF LossIsTold
<1>4. CASE pc \notin {"idle", "clear"} /\ outcome' = outcome
  BY <1>1, <1>4, LostOnlyAtTheEnd DEF LossIsTold, Lost
<1>5. CASE \E s \in Services : Clear(s)
  BY <1>5, ClearTells
<1>6. CASE \E s \in Services : RecordPending(s) \/ Stop(s) \/ Start(s) \/ ProbePasses(s) \/ ProbeFails(s)
  BY <1>4, <1>6 DEF RecordPending, Stop, Start, ProbePasses, ProbeFails, report
<1>7. CASE \E a \in plan : UpgradeAction(a) \/ SkipElevation(a)
  BY <1>4, <1>7 DEF UpgradeAction, SkipElevation, report
<1>8. CASE WriteLockSucceeds \/ WriteLockFails \/ Decline \/ HookFails
  BY <1>4, <1>8 DEF WriteLockSucceeds, WriteLockFails, WriteLock, Decline, HookFails, report
<1>9. CASE DecideFromLock \/ DecideFromMemory
  BY <1>3, <1>9 DEF DecideFromLock, DecideFromMemory, Decide, Lost
<1>10. CASE Crash \/ \E m \in Modes, selected \in SUBSET Pkgs, keepAll \in SUBSET Managers :
              Begin(m, selected, keepAll)
  BY <1>3, <1>10 DEF Crash, Begin, Lost, NoDecision
<1>11. CASE (\E p \in Pkgs : Release(p)) \/ UNCHANGED vars
  BY <1>2, <1>11 DEF Release, inMemory, report, vars
<1> QED BY <1>5, <1>6, <1>7, <1>8, <1>9, <1>10, <1>11 DEF Next, RunStep

\* An interactive run that did not bring a service back does not exit with success
\* (SCHEMA.md:499) -- as long as every pending record can be written: the text report
\* names a record it could not write instead of the service's failure, and exits 0.
THEOREM FailuresAreTold ==
  ASSUME "record" \notin FaultKinds
  PROVE  Spec => []FailureExitsNonZero
<1>1. Init => LossIsTold
  BY DEF Init, LossIsTold, Lost, NoDecision
<1>2. LossIsTold => FailureExitsNonZero
  BY DEF LossIsTold, Lost, FailureExitsNonZero
<1>3. Ind /\ LossIsTold /\ [Next]_vars => LossIsTold'
  BY StepTells
<1> QED BY <1>1, <1>2, <1>3, Invariance, PTL DEF Spec

-----------------------------------------------------------------------------
(* The plan, and what an unattended run leaves alone.                      *)

\* Every service that watches p can be verified without a human.
Verifiable(p) == \A s \in Services : p \in Watch[s] => HealthCheck[s] # "interactive"

\* The commands left work on packages of their own, which no earlier command
\* upgraded; unattended, only packages that can be followed through count.
PlanInOrder ==
  /\ pc = "idle" => upgraded = {}
  /\ \A a \in plan : a.lps \subseteq a.cmd /\ a.cmd \cap upgraded = {}
  /\ \A a \in plan : \A b \in plan : a = b \/ a.cmd \cap b.cmd = {}
  /\ mode = "unattended" => \A p \in upgraded \cup UNION {a.lps : a \in plan} : Verifiable(p)

\* Without batches, a command works on the packages it counts for.
NoBatch == BatchManagers = {} => \A a \in plan : a.cmd = a.lps


\* The plan of a set of packages: every package belongs to one command.
LEMMA PlanIsDisjoint ==
  ASSUME NEW packages \in SUBSET Pkgs, NEW a \in PlanUpgrade(packages), NEW b \in PlanUpgrade(packages)
  PROVE  /\ a.cmd = a.lps /\ a.lps \subseteq packages
         /\ a = b \/ a.cmd \cap b.cmd = {}
<1> DEFINE group(m) == {p \in packages : ManagerOf[p] = m}
           batched == {m \in BatchManagers : Cardinality(group(m)) > 1}
           single(p) == [cmd |-> {p}, lps |-> {p}]
           batch(m) == [cmd |-> group(m), lps |-> group(m)]
<1>1. ASSUME NEW c \in PlanUpgrade(packages)
      PROVE  \/ \E m \in batched : c = batch(m)
             \/ \E p \in packages : ManagerOf[p] \notin batched /\ c = single(p)
  BY <1>1 DEF PlanUpgrade
<1>2. a.cmd = a.lps /\ a.lps \subseteq packages
  <2>1. CASE \E m \in batched : a = batch(m)
    BY <2>1
  <2>2. CASE \E p \in packages : a = single(p)
    BY <2>2
  <2> QED BY <1>1, <2>1, <2>2
<1>3. a = b \/ a.cmd \cap b.cmd = {}
  <2>1. ASSUME NEW m \in batched, a = batch(m) PROVE a = b \/ a.cmd \cap b.cmd = {}
    <3>1. ASSUME NEW n \in batched, b = batch(n) PROVE a = b \/ a.cmd \cap b.cmd = {}
      BY <2>1, <3>1
    <3>2. ASSUME NEW p \in packages, ManagerOf[p] \notin batched, b = single(p)
          PROVE  a.cmd \cap b.cmd = {}
      BY <2>1, <3>2
    <3> QED BY <1>1, <3>1, <3>2
  <2>2. ASSUME NEW p \in packages, ManagerOf[p] \notin batched, a = single(p)
        PROVE  a = b \/ a.cmd \cap b.cmd = {}
    <3>1. ASSUME NEW n \in batched, b = batch(n) PROVE a.cmd \cap b.cmd = {}
      BY <2>2, <3>1
    <3>2. ASSUME NEW q \in packages, b = single(q) PROVE a = b \/ a.cmd \cap b.cmd = {}
      BY <2>2, <3>2
    <3> QED BY <1>1, <3>1, <3>2
  <2> QED BY <1>1, <2>1, <2>2
<1> QED BY <1>2, <1>3

\* Without batches a command is for one package.
LEMMA PlanOfSingles ==
  ASSUME BatchManagers = {}, NEW packages, NEW a \in PlanUpgrade(packages)
  PROVE  \E p \in packages : a = [cmd |-> {p}, lps |-> {p}]
BY DEF PlanUpgrade

\* Excluding packages from a plan leaves its commands as they are.
LEMMA ExcludeKeepsCommands ==
  ASSUME NEW actions \in SUBSET UpgradeCommands, NEW drop, NEW x \in ExcludeFromPlan(actions, drop)
  PROVE  \E a \in actions : x = [cmd |-> a.cmd, lps |-> a.lps \ drop] /\ ~(a.lps \subseteq drop)
BY DEF ExcludeFromPlan, UpgradeCommands

\* What is excluded is whatever a run must not touch.
LEMMA NotDeferredIsVerifiable ==
  ASSUME NEW packages, NEW p \in packages, p \notin BackgroundDeferrals(packages)
  PROVE  Verifiable(p)
BY DEF BackgroundDeferrals, Verifiable

LEMMA BeginPlans ==
  ASSUME Ind, PlanInOrder, NEW m \in Modes, NEW selected \in SUBSET Pkgs, NEW keepAll \in SUBSET Managers,
         Begin(m, selected, keepAll)
  PROVE  PlanInOrder' /\ NoBatch'
<1> DEFINE packages == FilterOutdated(selected, keepAll)
           actions == PlanUpgrade(packages)
           drop == BackgroundDeferrals(packages)
<1>1. /\ pc' = "upgrade" /\ mode' = m /\ upgraded' = {}
      /\ plan' = IF m = "unattended" THEN ExcludeFromPlan(actions, drop) ELSE actions
  BY DEF Begin, PlanInOrder
<1>2. packages \in SUBSET Pkgs /\ actions \in SUBSET UpgradeCommands
  <2>1. packages \in SUBSET Pkgs
    BY DEF FilterOutdated
  <2> QED BY <2>1, PlanOfPackages
<1>3. \A a \in actions : \A b \in actions :
        a.cmd = a.lps /\ a.lps \subseteq packages /\ (a = b \/ a.cmd \cap b.cmd = {})
  BY <1>2, PlanIsDisjoint
<1>4. \A x \in ExcludeFromPlan(actions, drop) :
        \E a \in actions : x = [cmd |-> a.cmd, lps |-> a.lps \ drop] /\ ~(a.lps \subseteq drop)
  BY <1>2, ExcludeKeepsCommands
<1>5. CASE m # "unattended"
  BY <1>1, <1>3, <1>5 DEF PlanInOrder, NoBatch
<1>6. CASE m = "unattended"
  <2>1. \A x \in plan' : x.lps \subseteq x.cmd
    BY <1>1, <1>3, <1>4, <1>6
  <2>2. \A x \in plan' : \A y \in plan' : x = y \/ x.cmd \cap y.cmd = {}
    <3> SUFFICES ASSUME NEW x \in plan', NEW y \in plan' PROVE x = y \/ x.cmd \cap y.cmd = {}
      OBVIOUS
    <3>1. PICK a \in actions : x = [cmd |-> a.cmd, lps |-> a.lps \ drop]
      BY <1>1, <1>4, <1>6
    <3>2. PICK b \in actions : y = [cmd |-> b.cmd, lps |-> b.lps \ drop]
      BY <1>1, <1>4, <1>6
    <3> QED BY <1>3, <3>1, <3>2
  <2>3. \A x \in plan' : \A p \in x.lps : Verifiable(p)
    <3> SUFFICES ASSUME NEW x \in plan', NEW p \in x.lps PROVE Verifiable(p)
      OBVIOUS
    <3>1. PICK a \in actions : x = [cmd |-> a.cmd, lps |-> a.lps \ drop]
      BY <1>1, <1>4, <1>6
    <3>2. p \in packages /\ p \notin drop
      BY <1>3, <3>1
    <3> QED BY <3>2, NotDeferredIsVerifiable
  <2>4. BatchManagers = {} => \A x \in plan' : x.cmd = x.lps
    <3> SUFFICES ASSUME BatchManagers = {}, NEW x \in plan' PROVE x.cmd = x.lps
      OBVIOUS
    <3>1. PICK a \in actions : x = [cmd |-> a.cmd, lps |-> a.lps \ drop] /\ ~(a.lps \subseteq drop)
      BY <1>1, <1>4, <1>6
    <3>2. PICK p \in packages : a = [cmd |-> {p}, lps |-> {p}]
      BY <3>1, PlanOfSingles
    <3> QED BY <3>1, <3>2
  <2>5. \A p \in upgraded' \cup UNION {x.lps : x \in plan'} : Verifiable(p)
    BY <1>1, <2>3
  <2> QED BY <1>1, <2>1, <2>2, <2>4, <2>5 DEF PlanInOrder, NoBatch, Verifiable
<1> QED BY <1>5, <1>6

LEMMA UpgradeActionPlans ==
  ASSUME PlanInOrder, NoBatch, NEW a \in plan, UpgradeAction(a)
  PROVE  PlanInOrder' /\ NoBatch'
<1>1. pc' = pc /\ mode' = mode /\ plan' = plan \ {a} /\ pc = "upgrade"
  BY DEF UpgradeAction
<1>2. upgraded' \subseteq upgraded \cup a.lps
  BY DEF UpgradeAction, CollectVersions
<1>3. \A b \in plan' : b.cmd \cap upgraded' = {}
  BY <1>1, <1>2 DEF PlanInOrder
<1>4. mode' = "unattended" => \A p \in upgraded' \cup UNION {b.lps : b \in plan'} : Verifiable(p)
  BY <1>1, <1>2 DEF PlanInOrder
<1> QED BY <1>1, <1>3, <1>4 DEF PlanInOrder, NoBatch, Verifiable

LEMMA StepPlans ==
  ASSUME Ind, PlanInOrder, NoBatch, [Next]_vars
  PROVE  PlanInOrder' /\ NoBatch'
<1>1. CASE EndRun
  BY <1>1 DEF EndRun, PlanInOrder, NoBatch
<1>2. CASE UNCHANGED <<mode, plan, upgraded>> /\ (pc' = "idle" => pc = "idle")
  BY <1>2 DEF PlanInOrder, NoBatch, Verifiable
<1>3. CASE \E a \in plan : SkipElevation(a)
  BY <1>3 DEF SkipElevation, PlanInOrder, NoBatch, Verifiable
<1>4. CASE Decline \/ HookFails \/ Crash
  BY <1>1, <1>4 DEF Decline, HookFails, Crash
<1>5. CASE WriteLockSucceeds \/ WriteLockFails
  BY <1>1, <1>2, <1>5 DEF WriteLockSucceeds, WriteLockFails, WriteLock, inMemory
<1>6. CASE DecideFromLock \/ DecideFromMemory
  BY <1>1, <1>2, <1>6 DEF DecideFromLock, DecideFromMemory, Decide, inMemory
<1>7. ASSUME NEW s \in Services,
             RecordPending(s) \/ Stop(s) \/ Start(s) \/ ProbePasses(s) \/ ProbeFails(s)
      PROVE  UNCHANGED <<mode, plan, upgraded>> /\ (pc' = "idle" => pc = "idle")
  BY <1>7 DEF RecordPending, Recorded, Stop, Stopped, Start, Started, ProbePasses, ProbeFails, NextVisit, inMemory
<1>8. CASE \E s \in Services : Clear(s)
  BY <1>1, <1>2, <1>8 DEF Clear, inMemory
<1>9. CASE (\E p \in Pkgs : Release(p)) \/ UNCHANGED vars
  BY <1>2, <1>9 DEF Release, inMemory, vars
<1> QED BY <1>2, <1>3, <1>4, <1>5, <1>6, <1>7, <1>8, <1>9, BeginPlans, UpgradeActionPlans DEF Next, RunStep

LEMMA InitiallyPlans == Init => PlanInOrder /\ NoBatch
BY DEF Init, PlanInOrder, NoBatch

\* Only a command replaces packages: those it was given, or those of the command
\* that was running when the run was killed.
LEMMA OnlyCommandsReplace ==
  ASSUME Ind, [Next]_vars, NEW p \in Pkgs, binary'[p] # binary[p]
  PROVE  \E a \in plan : p \in a.cmd
<1>1. ASSUME NEW a \in plan, NEW done \in SUBSET a.cmd, Replace(done) PROVE p \in a.cmd
  BY <1>1 DEF Replace, Ind, TypeOK, MachineOK
<1>2. ASSUME NEW a \in plan, UpgradeAction(a) PROVE p \in a.cmd
  <2>1. \E done \in SUBSET a.cmd : Replace(done)
    BY <1>2 DEF UpgradeAction
  <2> QED BY <1>1, <2>1
<1>3. Crash => \E a \in plan : p \in a.cmd
  BY <1>1 DEF Crash, machine
<1> QED
  BY <1>2, <1>3 DEF Next, RunStep, vars, machine, Release, Begin, Decline, HookFails,
     SkipElevation, WriteLockSucceeds, WriteLockFails, WriteLock, DecideFromLock,
     DecideFromMemory, Decide, RecordPending, Stop, Start, ProbePasses, ProbeFails, Clear

\* An unattended run never replaces a package that a service watches whose health
\* check it may not run (main_updates_worker.go:169), whatever fails and whenever it
\* is killed -- as long as no manager upgrades several packages with one command:
\* a batch command still names the packages that were taken out of its action.
THEOREM DeferredPackagesStay ==
  ASSUME BatchManagers = {}
  PROVE  Spec => DeferredIsNotUpgraded
<1>1. ASSUME Ind, PlanInOrder, NoBatch, [Next]_vars
      PROVE  \A p \in Pkgs : (binary'[p] # binary[p] /\ mode = "unattended") =>
               \A s \in Services : p \in Watch[s] => HealthCheck[s] # "interactive"
  <2> SUFFICES ASSUME NEW p \in Pkgs, binary'[p] # binary[p], mode = "unattended"
               PROVE  Verifiable(p)
    BY DEF Verifiable
  <2>1. PICK a \in plan : p \in a.cmd
    BY <1>1, OnlyCommandsReplace
  <2> QED BY <1>1, <2>1 DEF NoBatch, PlanInOrder
<1>2. Ind /\ PlanInOrder /\ NoBatch /\ [Next]_vars => PlanInOrder' /\ NoBatch'
  BY StepPlans
<1> QED BY <1>1, <1>2, Invariance, InitiallyPlans, PTL DEF Spec, DeferredIsNotUpgraded

-----------------------------------------------------------------------------
(* The follow-through.                                                     *)

\* Nothing that keeps the run from knowing, or from telling, what it upgraded:
\* commands succeed, their versions are read and written, the run is not killed.
NothingGoesUnknown == FaultKinds \cap {"command", "versionQuery", "lockWrite", "crash"} = {}

\* s runs on what an upgraded package was before this run.
LeftOnOld(s) == \E p \in upgraded : binary[p] # before[p] /\ <<s, p>> \in stale

\* The run knows the version of all it upgraded, so the services that it left on an
\* old binary are to be acted on or are told of; in the last loop, those it has
\* visited are told of too.
Followed ==
  /\ ~cmdFailed
  /\ \A p \in NoVersion : lockVer[p] = 0 /\ mem[p] = 0 /\ before[p] = 0
  /\ \A p \in upgraded : mem[p] = binary[p] \/ p \in NoVersion
  /\ pc = "evidence" => lockVer = mem
  /\ pc \in InPhase => \A s \in Services : LeftOnOld(s) => outcome[s] # "none" \/ s \in ToAct
  /\ pc = "clear" => \A s \in ToAct \ queue : outcome[s] # "none"

LEMMA UpgradeActionFollows ==
  ASSUME NothingGoesUnknown, Ind, PlanInOrder, Followed, NEW a \in plan, UpgradeAction(a)
  PROVE  Followed'
<1>1. /\ pc' = pc /\ pc = "upgrade" /\ lockVer' = lockVer /\ before' = before
  BY DEF UpgradeAction, lockFile
<1>2. /\ Replace(a.cmd) /\ CollectVersions(a, a.lps \ NoVersion, TRUE) /\ ~cmdFailed'
  <2>1. PICK failed \in SUBSET {"command", "versionQuery"} :
          /\ failed \subseteq FaultKinds
          /\ \E done \in IF "command" \in failed THEN SUBSET a.cmd ELSE {a.cmd} : Replace(done)
          /\ LET known == a.lps \ NoVersion
             IN  \E read \in IF "versionQuery" \in failed THEN SUBSET known ELSE {known} :
                   CollectVersions(a, read, "command" \notin failed)
          /\ cmdFailed' = (cmdFailed \/ "command" \in failed)
    BY DEF UpgradeAction, Faults
  <2>2. "command" \notin failed /\ "versionQuery" \notin failed
    BY <2>1 DEF NothingGoesUnknown
  <2>3. CollectVersions(a, a.lps \ NoVersion, "command" \notin failed)
    BY <2>1, <2>2
  <2>4. CollectVersions(a, a.lps \ NoVersion, TRUE)
    BY <2>2, <2>3 DEF CollectVersions
  <2>5. ~cmdFailed'
    BY <2>1, <2>2 DEF Followed
  <2> QED BY <2>1, <2>2, <2>4, <2>5
<1>3. a.lps \subseteq a.cmd /\ a.cmd \cap upgraded = {} /\ a.cmd \subseteq Pkgs
  BY DEF PlanInOrder, Ind, TypeOK, RunOK
<1>4. upgraded' = upgraded \cup a.lps /\ upgraded \subseteq Pkgs
  BY <1>2 DEF CollectVersions, Ind, TypeOK, RunOK
<1>5. \A p \in NoVersion : lockVer'[p] = 0 /\ mem'[p] = 0 /\ before'[p] = 0
  BY <1>1, <1>2, PackagesAssumption DEF CollectVersions, Followed
<1>6. \A p \in upgraded' : mem'[p] = binary'[p] \/ p \in NoVersion
  <2>1. ASSUME NEW p \in upgraded PROVE mem'[p] = binary'[p] \/ p \in NoVersion
    <3>1. binary'[p] = binary[p] /\ mem'[p] = mem[p]
      BY <1>2, <1>3, <1>4, <2>1 DEF Replace, CollectVersions
    <3> QED BY <2>1, <3>1 DEF Followed
  <2>2. ASSUME NEW p \in a.lps \ NoVersion PROVE mem'[p] = binary'[p]
    BY <1>2, <1>3 DEF CollectVersions
  <2> QED BY <1>4, <2>1, <2>2
<1> QED BY <1>1, <1>2, <1>5, <1>6 DEF Followed, InPhase

\* What the run upgraded under a running service calls for a decision.
LEMMA LeftOnOldIsDecided ==
  ASSUME Ind, PlanInOrder, Followed, NEW s \in Services, LeftOnOld(s)
  PROVE  Decision(s, mem) # "none" /\ s \in up
<1>1. PICK p \in upgraded : binary[p] # before[p] /\ <<s, p>> \in stale
  BY DEF LeftOnOld
<1>2. p \in Pkgs /\ s \in up /\ p \in Watch[s]
  BY <1>1 DEF Ind, TypeOK, MachineOK
<1>3. InPlan(s)
  BY <1>1, <1>2 DEF Ind, TypeOK, RunOK, Modes, Interactive, InPlan, PlanInOrder, Verifiable
<1>4. p \in Changed(s, mem) \cup Uncertain(s, mem)
  <2>1. CASE before[p] = 0
    BY <1>1, <1>2, <2>1 DEF Uncertain, Evidence, EvidenceFromVersions
  <2>2. CASE before[p] # 0
    <3>1. mem[p] = binary[p] /\ mem[p] # 0
      BY <1>1, <1>2, <2>2, BoundsAssumption DEF Followed, Ind, TypeOK, MachineOK
    <3> QED BY <1>1, <1>2, <2>2, <3>1 DEF Changed, Evidence, EvidenceFromVersions
  <2> QED BY <2>1, <2>2
<1> QED BY <1>2, <1>3, <1>4 DEF Decision

\* The decisions follow everything through that they do not tell of.
LEMMA DecideTellsOrActs ==
  ASSUME Ind, PlanInOrder, Followed, DecideFromLock \/ DecideFromMemory, NEW s \in Services, LeftOnOld(s)
  PROVE  outcome'[s] # "none" \/ (pc' = "record" /\ s \in queue')
<1>1. Decide(mem)
  BY DEF DecideFromLock, DecideFromMemory, Decide, Followed
<1>2. Decision(s, mem) \in {"restart", "start", "skip", "defer"}
  BY LeftOnOldIsDecided DEF Decision
<1> QED BY <1>1, <1>2 DEF Decide

LEMMA DecideFollows ==
  ASSUME Ind, PlanInOrder, Followed, DecideFromLock \/ DecideFromMemory, pc' = "record"
  PROVE  Followed'
<1>1. /\ UNCHANGED <<available, binary, up, stale, lockVer, pending>>
      /\ UNCHANGED <<mode, plan, mem, before, upgraded, cmdFailed>>
  BY DEF DecideFromLock, DecideFromMemory, Decide, EndRun, machine, lockFile, inMemory
<1>2. queue' \subseteq ToAct'
  BY DEF DecideFromLock, DecideFromMemory, Decide, EndRun, ToAct, Actionable
<1>3. \A s \in Services : LeftOnOld(s)' => LeftOnOld(s)
  BY <1>1 DEF LeftOnOld
<1>4. \A s \in Services : LeftOnOld(s)' => outcome'[s] # "none" \/ s \in ToAct'
  BY <1>2, <1>3, DecideTellsOrActs
<1> QED BY <1>1, <1>4 DEF Followed

\* The loops leave it at that: what is stale only becomes less.
LEMMA LoopFollows ==
  ASSUME Ind, Followed, NEW s \in Services,
         RecordPending(s) \/ Stop(s) \/ Start(s) \/ ProbePasses(s) \/ ProbeFails(s)
  PROVE  Followed'
<1>1. /\ UNCHANGED <<binary, lockVer, mem, before, upgraded, cmdFailed, decision, outcome>>
      /\ stale' \subseteq stale /\ s \in queue
  BY DEF RecordPending, Stop, Start, ProbePasses, ProbeFails, IsNext, IsNextToStop, Fresh,
         machine, lockFile, inMemory, report
<1>2. pc \in InPhase /\ pc' # "evidence" /\ (pc' = "clear" => queue' = ToAct)
  BY <1>1 DEF RecordPending, Recorded, Stop, Stopped, Start, Started, ProbePasses, ProbeFails, NextVisit, InPhase
<1>3. ToAct' = ToAct /\ \A t \in Services : LeftOnOld(t)' => LeftOnOld(t)
  BY <1>1 DEF ToAct, Actionable, LeftOnOld
<1> QED BY <1>1, <1>2, <1>3 DEF Followed

\* What the last loop says, and what it leaves to say.
LEMMA ClearFollows ==
  ASSUME Ind, Followed, NEW s \in Services, Clear(s)
  PROVE  /\ pc' = "idle" => \A t \in Services : LeftOnOld(t) => outcome'[t] # "none"
         /\ pc' # "idle" => Followed'
<1>1. /\ pc = "clear" /\ UNCHANGED <<binary, stale, lockVer>>
  BY DEF Clear, IsNext, machine
<1>2. \A t \in Services : outcome[t] # "none" \/ t = s => outcome'[t] # "none"
  BY DEF Clear, Ind, TypeOK, ReportOK
<1>3. \A t \in ToAct \ (queue \ {s}) : outcome'[t] # "none"
  BY <1>1, <1>2, ActsOnServices DEF Followed
<1>4. \A t \in Services : LeftOnOld(t) => outcome'[t] # "none" \/ t \in ToAct
  BY <1>1, <1>2 DEF Followed, InPhase
<1>5. pc' = "idle" => queue = {s}
  BY <1>1 DEF Clear
<1>6. CASE pc' # "idle"
  <2>1. /\ UNCHANGED <<pc, mem, before, upgraded, cmdFailed, decision>> /\ queue' = queue \ {s}
    BY <1>6 DEF Clear, EndRun, inMemory, phase
  <2>2. ToAct' = ToAct /\ \A t \in Services : LeftOnOld(t)' => LeftOnOld(t)
    BY <1>1, <2>1 DEF ToAct, Actionable, LeftOnOld
  <2> QED BY <1>1, <1>3, <1>4, <1>6, <2>1, <2>2 DEF Followed
<1> QED BY <1>3, <1>4, <1>5, <1>6

\* A run that ends has told of every service that it left on an old binary.
LEMMA EndTells ==
  ASSUME NothingGoesUnknown, Ind, PlanInOrder, Followed, [Next]_vars, pc # "idle", pc' = "idle",
         NEW s \in Services, LeftOnOld(s)
  PROVE  outcome'[s] # "none"
<1>1. upgraded # {}
  BY DEF LeftOnOld
<1>2. CASE DecideFromLock \/ DecideFromMemory
  BY <1>2, DecideTellsOrActs
<1>3. CASE \E t \in Services : Clear(t)
  BY <1>3, ClearFollows
<1>4. ~Decline /\ ~HookFails
  BY <1>1 DEF Decline, HookFails, Untouched
<1>5. ~Crash
  BY DEF Crash, Fault, Faults, NothingGoesUnknown
<1>6. ~WriteLockFails
  BY DEF WriteLockFails, Fault, Faults, NothingGoesUnknown
<1>7. ~WriteLockSucceeds
  BY <1>1 DEF WriteLockSucceeds, WriteLock, RestartsFollow, Followed
<1>8. ASSUME NEW t \in Services,
             RecordPending(t) \/ Stop(t) \/ Start(t) \/ ProbePasses(t) \/ ProbeFails(t)
      PROVE  FALSE
  BY <1>8 DEF RecordPending, Recorded, Stop, Stopped, Start, Started, ProbePasses, ProbeFails, NextVisit
<1>9. ~(\E a \in plan : UpgradeAction(a) \/ SkipElevation(a))
  BY DEF UpgradeAction, SkipElevation
<1>10. ~(\E p \in Pkgs : Release(p)) /\ ~UNCHANGED vars
  BY DEF Release, vars
<1>11. ~(\E m \in Modes, selected \in SUBSET Pkgs, keepAll \in SUBSET Managers : Begin(m, selected, keepAll))
  BY DEF Begin
<1> QED BY <1>2, <1>3, <1>4, <1>5, <1>6, <1>7, <1>8, <1>9, <1>10, <1>11 DEF Next, RunStep

LEMMA StepFollows ==
  ASSUME NothingGoesUnknown, Ind, PlanInOrder, Followed, [Next]_vars
  PROVE  Followed'
<1>1. CASE EndRun /\ lockVer' = lockVer
  BY <1>1 DEF EndRun, Followed, InPhase
<1>2. CASE DecideFromLock \/ DecideFromMemory
  BY <1>1, <1>2, DecideFollows DEF DecideFromLock, DecideFromMemory, Decide, lockFile
<1>3. CASE \E s \in Services : Clear(s)
  BY <1>1, <1>3, ClearFollows DEF Clear
<1>4. CASE Decline \/ HookFails \/ Crash
  BY <1>1, <1>4 DEF Decline, HookFails, Crash, lockFile
<1>5. CASE WriteLockSucceeds
  <2>1. lockVer' = mem /\ pc = "upgrade"
    BY <1>5 DEF WriteLockSucceeds, WriteLock
  <2>2. CASE EndRun
    BY <2>1, <2>2 DEF EndRun, Followed, InPhase
  <2>3. CASE pc' = "evidence" /\ UNCHANGED inMemory
    BY <1>5, <2>1, <2>3 DEF WriteLockSucceeds, WriteLock, Followed, InPhase, machine, inMemory
  <2> QED BY <1>5, <2>2, <2>3 DEF WriteLockSucceeds, WriteLock
<1>6. ~WriteLockFails
  BY DEF WriteLockFails, Fault, Faults, NothingGoesUnknown
<1>7. CASE \E a \in plan : SkipElevation(a)
  BY <1>7 DEF SkipElevation, Followed, InPhase, machine, lockFile, inMemory
<1>8. CASE (\E p \in Pkgs : Release(p)) \/ UNCHANGED vars
  BY <1>8 DEF Release, Followed, InPhase, LeftOnOld, ToAct, Actionable, vars, machine, lockFile, inMemory, phase, report
<1>9. CASE \E m \in Modes, selected \in SUBSET Pkgs, keepAll \in SUBSET Managers : Begin(m, selected, keepAll)
  BY <1>9 DEF Begin, PlanInOrder, Followed, InPhase, machine, lockFile
<1> QED BY <1>2, <1>3, <1>4, <1>5, <1>6, <1>7, <1>8, <1>9, UpgradeActionFollows, LoopFollows DEF Next, RunStep

\* A run that ends says something about every service it left on an old binary of a
\* package that it upgraded from the version the lock knew (main_updates_worker.go:215,
\* changes.go:15) -- with or without batches, whatever stop, start, record or read of
\* the lock fails -- as long as the run knows what it upgraded: a command that fails,
\* a version that is not read back, a lock that is not written or a kill leaves
\* services behind of which nothing is said.
THEOREM NothingIsLeftUnsaid ==
  ASSUME NothingGoesUnknown
  PROVE  Spec => FollowsThrough
<1>1. Init => Followed
  BY DEF Init, Followed, InPhase
<1>2. Ind /\ PlanInOrder /\ NoBatch /\ Followed /\ [Next]_vars => PlanInOrder' /\ NoBatch' /\ Followed'
  BY StepPlans, StepFollows
<1>3. ASSUME Ind, PlanInOrder, Followed, [Next]_vars
      PROVE  (pc # "idle" /\ pc' = "idle") =>
               \A s \in Services :
                 (\E p \in upgraded : binary[p] # before[p] /\ <<s, p>> \in stale')
                   => outcome'[s] # "none"
  <2> SUFFICES ASSUME pc # "idle", pc' = "idle", NEW s \in Services,
                      NEW p \in upgraded, binary[p] # before[p], <<s, p>> \in stale'
               PROVE  outcome'[s] # "none"
    OBVIOUS
  <2>1. <<s, p>> \in stale
    BY <1>3 DEF Next, RunStep, vars, machine, Release, Begin, Decline, HookFails, Crash, Fault, Faults,
       NothingGoesUnknown, UpgradeAction, SkipElevation, WriteLockSucceeds, WriteLockFails, WriteLock,
       DecideFromLock, DecideFromMemory, Decide, RecordPending, Stop, Fresh, Start, ProbePasses, ProbeFails, Clear
  <2> QED BY <1>3, <2>1, EndTells DEF LeftOnOld
<1> QED BY <1>1, <1>2, <1>3, Invariance, InitiallyPlans, PTL DEF Spec, FollowsThrough
=============================================================================
