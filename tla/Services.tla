------------------------------ MODULE Services ------------------------------
(***************************************************************************)
(* The user services genv hands to a supervisor: `genv apply` renders and  *)
(* loads the declared ones, unloads the ones that left the spec and notes  *)
(* in the lock what it did, and `genv service start`, `stop` and `restart` *)
(* act on one of them (internal/service, applyServices of main.go).        *)
(*                                                                         *)
(* A unit is what the supervisor knows by a name: its definition on disk   *)
(* (file), the definition the supervisor holds (loaded) and the one its    *)
(* process was started with (running).  An apply works through the names   *)
(* in order and may stop between any two calls it makes; a call may fail.  *)
(***************************************************************************)
EXTENDS Lists

CONSTANTS
  Texts,          \* the strings that occur
  NameOrder,      \* the service names that occur, in sort order
  Renamed,        \* those that are unlike their slug, such as "apps/web"
  Formulas,       \* brew formulas that occur
  UnitLabels,     \* launchd labels and systemd unit bases that occur
  Base,           \* Base[s]: the unit base of a systemd template path, "" without the suffix
  Sources,        \* the template files
  Rendered,       \* what the user may make a template file render to
  Absolute,       \* the actions that are absolute Windows paths
  Declarations,   \* the declarations the user may write, valid or not
  Platforms,      \* the platforms a run may start on
  FirstSpecs,     \* the specs a run may start from
  FirstTemplates, \* the template files a run may start from
  MaxRuns,        \* applies and imperative commands, bound
  MaxFailures,    \* failed calls and interruptions, bound
  MaxEdits        \* hand edits and things that happen to a unit, bound

Names == ToSet(NameOrder)

\* What a declaration and a template can be: a command is its words, a word the
\* pieces between the blanks in it.
Words == Seq(Seq(Texts))
Forms == [brew : Formulas \cup {""}, plist : Sources \cup {""}, unit : DOMAIN Base \cup {""},
          task : [action : Texts, trigger : Texts, at : Texts, day : Texts],
          start : Words, stop : Words, restart : Words, status : Words, requires : SUBSET Texts]
Renderings == [label : UnitLabels \cup {""}, body : Texts \ {"absent"}]

ASSUME TextsAssumption == {"", "absent", "logon"} \subseteq Texts
ASSUME NamesAssumption ==
  /\ NameOrder \in Seq(Texts \ {""})
  /\ \A i, j \in DOMAIN NameOrder : NameOrder[i] = NameOrder[j] => i = j
  /\ Renamed \subseteq Names
ASSUME DeclarationsAssumption ==
  Declarations \subseteq Forms /\ FirstSpecs \subseteq [Names -> Forms] /\ Absolute \subseteq Texts \ {""}
ASSUME RenderingsAssumption ==
  /\ Base \in [DOMAIN Base -> UnitLabels \cup {""}] /\ DOMAIN Base \subseteq Sources
  /\ Rendered \subseteq Renderings /\ FirstTemplates \subseteq [Sources -> Renderings]
ASSUME MaximaAssumption == {MaxRuns, MaxFailures, MaxEdits} \subseteq Nat

VARIABLES
  platform,   \* "systemd", "darwin", "windows", or "bare": a Linux without systemd --user
  spec,       \* the materialised services
  template,   \* what each template file renders to
  today,      \* the date
  lock,       \* the services section of the lock
  file, loaded, running, script,   \* the units
  run,        \* the command being executed
  said,       \* what the last imperative command answered
  \* History: for whom genv installed a unit; the units whose supervisor was
  \* left behind by a failed or interrupted call, that were taken down for one
  \* name while another used them, or that were written for a declaration which
  \* the lock did not take over; the units that a change of identity, an ignored
  \* failure or a label unlike the slug left without a lock entry; whether anybody
  \* but apply touched anything since it began; and whether it went through.
  installed, cut, loose, quiet, clean,
  runs, failures, edits

inputs == <<platform, spec, template, today>>
supervisor == <<file, loaded, running, script>>
history == <<installed, cut, loose, quiet, clean>>
servicesVars == <<inputs, lock, supervisor, run, said, history, runs, failures, edits>>

-----------------------------------------------------------------------------
(* Declarations and their validation.                                      *)

NoTask == [action |-> "", trigger |-> "", at |-> "", day |-> ""]
Undeclared == [brew |-> "", plist |-> "", unit |-> "", task |-> NoTask, start |-> <<>>,
               stop |-> <<>>, restart |-> <<>>, status |-> <<>>, requires |-> {}]

Launchd == platform = "darwin"
Systemd == platform = "systemd"
Schtasks == platform = "windows"
BrewServices == platform = "darwin"

Templated(d) == d.plist # "" \/ d.unit # ""
Tasked(d) == d.task.action # ""
Supervised(d) == Templated(d) \/ Tasked(d)

Effective(t) == IF t.trigger = "" THEN [t EXCEPT !.trigger = "logon"] ELSE t
TimeOk(t) == t.at = "09:30"
TaskOk(t) ==
  /\ t.action \in Absolute
  /\ CASE Effective(t).trigger \in {"logon", "boot"} -> t.at = "" /\ t.day = ""
       [] Effective(t).trigger = "daily"             -> TimeOk(t) /\ t.day = ""
       [] Effective(t).trigger = "weekly"            -> TimeOk(t) /\ t.day = "monday"
       [] OTHER                                      -> FALSE

DeclarationOk(d) ==
  /\ d.start # <<>> \/ d.brew # "" \/ Supervised(d)
  /\ ~ (d.brew # "" /\ d.start # <<>>)
  /\ ~ (Supervised(d) /\ (d.start # <<>> \/ d.brew # ""))
  /\ d.task # NoTask => TaskOk(d.task)

Valid(s) == \A n \in Names : s[n] = Undeclared \/ DeclarationOk(s[n])

Declared == {n \in Names : spec[n] # Undeclared}

-----------------------------------------------------------------------------
(* Units: how they are named, and what is written into them.               *)

GenIdOfBase(n) == <<"genv", "default">>   \* mutant: names that sanitise alike share a unit
GenId(n) == <<"genv", n>>        \* the slug of the name, which keeps names apart
OwnId(label) == <<"own", label>>
BrewId(f) == <<"brew", f>>
RawId(n) == <<"raw", n>>
NoId == <<"", "">>

\* A generated plist is named and called by the slug, but its Label is the name itself:
\* launchctl does not find the job under the label it is called by.
Known(u) == ~ (Launchd /\ u \in {GenId(n) : n \in Renamed})

UnitIds == {GenId(n) : n \in Names} \cup {RawId(n) : n \in Names}
             \cup {OwnId(l) : l \in UnitLabels} \cup {BrewId(f) : f \in Formulas}

Absent == [command |-> <<>>, body |-> "absent", date |-> 0]
Command(d) == [command |-> <<d.start>>, body |-> "", date |-> 0]
Generated(d) == [command |-> IF Systemd THEN <<d.start, d.stop, d.restart>> ELSE <<d.start>>,
                 body |-> "", date |-> 0]
FromTemplate(s) == [command |-> <<>>, body |-> template[s].body, date |-> 0]

(* A wall-clock trigger starts today, so its definition changes with the date. *)
TaskXml(t) == LET e == Effective(t)
              IN [command |-> <<>>, body |-> e.trigger,
                  date |-> IF e.trigger \in {"daily", "weekly"} THEN today ELSE 0]

Renders(s) == template[s].body # "broken"
HasLabel(s) == Renders(s) /\ template[s].label # ""

SystemdId(n, d) == IF Base[d.unit] = "" THEN GenId(n) ELSE OwnId(Base[d.unit])

(* applyDeclared: the backend an apply uses. *)
Backend(d) ==
  CASE d.brew # ""               -> "brew"
    [] d.brew = "" /\ d.plist # "" /\ Launchd -> "launchd"
    [] d.brew = "" /\ d.unit # "" /\ Systemd  -> "systemd"
    [] d.brew = "" /\ Tasked(d) /\ Schtasks   -> "task"
    [] OTHER -> IF Supervised(d) THEN "elsewhere"
                ELSE IF Systemd THEN "generated systemd"
                ELSE IF Launchd THEN "generated launchd" ELSE "raw"

UnitOf(n, d) ==
  CASE Backend(d) = "brew"      -> BrewId(d.brew)
    [] Backend(d) = "launchd"   -> IF HasLabel(d.plist) THEN OwnId(template[d.plist].label) ELSE NoId
    [] Backend(d) = "systemd"   -> SystemdId(n, d)
    [] Backend(d) = "elsewhere" -> NoId
    [] Backend(d) = "raw"       -> RawId(n)
    [] OTHER                    -> GenId(n)

(* StartDeclared and StopDeclared choose otherwise. *)
StartWay(d) ==
  CASE d.brew # ""  -> "brew"
    [] d.brew = "" /\ d.plist # "" -> IF Launchd THEN "launchd" ELSE "refused"
    [] d.brew = "" /\ d.plist = "" /\ d.unit # "" -> IF Systemd THEN "systemd" ELSE "refused"
    [] OTHER -> IF d.start = <<>> THEN "refused" ELSE "raw"

RestartWay(d) ==
  CASE d.brew # ""                  -> "brew"
    [] d.brew = "" /\ Tasked(d)     -> "refused"
    [] d.brew = "" /\ ~Tasked(d) /\ Templated(d) -> StartWay(d)
    [] OTHER -> IF d.restart # <<>> THEN "restart"
                ELSE IF d.stop = <<>> THEN "refused" ELSE "stop and start"

ProbeRunning(n) ==
  LET d == spec[n]
      Up(u) == u # NoId /\ running[u] # Absent
  IN IF Backend(d) \in {"brew", "launchd", "systemd", "task"} THEN Up(UnitOf(n, d))
     ELSE IF d.status # <<>> THEN Up(RawId(n)) \/ Up(GenId(n))
     ELSE (Systemd \/ Launchd) /\ Known(GenId(n)) /\ Up(GenId(n))

-----------------------------------------------------------------------------
(* The lock.                                                               *)

Unlocked == [brew |-> "", plist |-> "", label |-> NoId, unit |-> "", base |-> NoId, task |-> NoTask,
             start |-> <<>>, stop |-> <<>>, restart |-> <<>>, status |-> <<>>]

Noted(n, d) ==
  [brew |-> d.brew, plist |-> d.plist,
   label |-> IF d.plist # "" /\ HasLabel(d.plist) THEN OwnId(template[d.plist].label) ELSE NoId,
   unit |-> d.unit,
   base |-> IF d.unit # "" THEN SystemdId(n, d) ELSE NoId,
   task |-> d.task,
   start |-> d.start, stop |-> d.stop, restart |-> d.restart, status |-> d.status]

NotedWithoutRestart(n, d) ==   \* mutant: a field that compareServices compares is not noted
  IF d = Undeclared THEN Unlocked ELSE [Noted(n, d) EXCEPT !.restart = <<>>]
SpecToLock(n, d) == IF d = Undeclared THEN Unlocked ELSE Noted(n, d)

(* compareServices joins each command with blanks before it compares. *)
Joined(argv) == FlattenSeq(argv)
Same(d, l) ==
  /\ Joined(d.start) = Joined(l.start) /\ Joined(d.stop) = Joined(l.stop)
  /\ Joined(d.restart) = Joined(l.restart) /\ Joined(d.status) = Joined(l.status)
  /\ d.brew = l.brew /\ d.plist = l.plist /\ d.unit = l.unit /\ d.task = l.task

Kind(n) == CASE spec[n] # Undeclared /\ lock[n] = Unlocked -> "missing"
             [] spec[n] = Undeclared /\ lock[n] # Unlocked -> "extra"
             [] spec[n] # Undeclared /\ lock[n] # Unlocked /\ ~Same(spec[n], lock[n]) -> "modified"
             [] OTHER -> "ok"

(* removeLocked: what an entry says has to be taken down, and how. *)
RemovalWay(l) ==
  CASE l.brew # ""  -> "brew"
    [] l.brew = "" /\ (l.plist # "" \/ l.label # NoId) -> IF Launchd THEN "launchd" ELSE "elsewhere"
    [] l.brew = "" /\ l.plist = "" /\ l.label = NoId /\ l.unit # "" ->
         IF Systemd THEN "systemd" ELSE "elsewhere"
    [] l.brew = "" /\ l.plist = "" /\ l.label = NoId /\ l.unit = "" /\ l.task # NoTask ->
         IF Schtasks THEN "task" ELSE "elsewhere"
    [] OTHER -> IF Systemd THEN "systemd" ELSE IF Launchd THEN "launchd"
                ELSE IF l.stop # <<>> THEN "raw" ELSE "elsewhere"

RemovalIdGenerated(n, l) ==   \* mutant: the label and the unit in the entry are not used
  CASE RemovalWay(l) = "brew" -> BrewId(l.brew)
    [] RemovalWay(l) = "raw"  -> RawId(n)
    [] RemovalWay(l) = "elsewhere" -> NoId
    [] OTHER -> GenId(n)
RemovalId(n, l) ==
  CASE RemovalWay(l) = "brew" -> BrewId(l.brew)
    [] RemovalWay(l) = "raw"  -> RawId(n)
    [] RemovalWay(l) = "elsewhere" -> NoId
    [] OTHER -> IF l.label # NoId /\ RemovalWay(l) = "launchd" THEN l.label
                ELSE IF l.base # NoId /\ RemovalWay(l) = "systemd" THEN l.base ELSE GenId(n)

-----------------------------------------------------------------------------
(* The supervisor.                                                         *)

Present(u) == file[u] # Absent \/ loaded[u] # Absent \/ running[u] # Absent
(* The unit that a lock entry names, if removeLocked would take one down here. *)
RecordedUnit(n, l) ==
  IF RemovalWay(l) = "elsewhere" THEN NoId
  ELSE IF l.brew # "" THEN BrewId(l.brew)
  ELSE IF Launchd /\ l.plist # "" THEN l.label
  ELSE IF Systemd /\ l.unit # "" THEN l.base
  ELSE IF RemovalWay(l) = "raw" THEN RawId(n) ELSE GenId(n)
Reached(u) == \E n \in Names : /\ installed[u] = n
                               /\ IF spec[n] # Undeclared THEN u = UnitOf(n, spec[n])
                                  ELSE lock[n] # Unlocked /\ u = RecordedUnit(n, lock[n])
Behind(u) == /\ file[u] # Absent
             /\ \/ loaded[u] # Absent /\ loaded[u] # file[u]
                \/ running[u] # Absent /\ running[u] # file[u]

\* What may run after a start that reported success: nothing waits for the process
\* to stay up, and a plist need not ask to run at load.
StartOf(definition) == {definition, Absent}

Put(u, f, l, r) == /\ file' = [file EXCEPT ![u] = f]
                   /\ loaded' = [loaded EXCEPT ![u] = l]
                   /\ running' = [running EXCEPT ![u] = r]

(* daemon-reload reads every unit file again, not one.                     *)
Reloaded == [u \in UnitIds |-> IF u[1] \in {"genv", "own"} THEN file[u] ELSE loaded[u]]

Idle == run.pc = "idle"
NoRun == [verb |-> "none", name |-> "", pc |-> "idle", queue |-> <<>>, changed |-> FALSE, was |-> FALSE,
          failed |-> {}, again |-> FALSE]
Nothing == [verb |-> "none", name |-> "", result |-> ""]

Subject == Head(run.queue)
D == spec[Subject]
Removing == run.verb = "apply" /\ D = Undeclared
Way == CASE run.verb = "apply"   -> IF Removing THEN RemovalWay(lock[Subject]) ELSE Backend(D)
         [] run.verb = "start"   -> StartWay(D)
         [] run.verb = "restart" -> RestartWay(D)

At(pc) == run.pc = pc /\ run.queue # <<>>
Goes(pc, changed, was) == run' = [run EXCEPT !.pc = pc, !.changed = changed, !.was = was]

(* The next service: one that failed never keeps the others from their turn. *)
Passed(fails) == run' = [run EXCEPT !.pc = "pick", !.queue = Tail(@), !.changed = FALSE, !.was = FALSE,
                                    !.failed = @ \cup fails]
Done == Passed({})
Fails == Passed({Subject})

Costs(n) == failures + n <= MaxFailures /\ failures' = failures + n
Works == UNCHANGED failures
Installs(u) == installed' = IF u = UnitOf(Subject, D) THEN [installed EXCEPT ![u] = Subject] ELSE installed

Fixed == UNCHANGED <<inputs, lock, said, quiet, clean, runs, edits>>
Quietly == Fixed /\ UNCHANGED <<installed, cut, loose>>

-----------------------------------------------------------------------------
(* ApplyServices, and the parts of it that StartDeclared shares.           *)

StartApply ==
  /\ Idle /\ runs < MaxRuns /\ runs' = runs + 1
  /\ LET queue == Keep(NameOrder, {n \in Names : spec[n] # Undeclared \/ lock[n] # Unlocked})
     IN /\ queue # <<>>
        /\ run' = [NoRun EXCEPT !.verb = "apply", !.pc = "pick", !.queue = queue, !.again = clean /\ quiet]
  /\ quiet' = TRUE /\ clean' = FALSE /\ said' = Nothing
  /\ UNCHANGED <<inputs, lock, supervisor, installed, cut, loose, failures, edits>>

(* Only a supervised service is looked at again once the lock agrees.      *)
Skip == /\ At("pick") /\ run.verb = "apply" /\ Kind(Subject) = "ok" /\ ~Supervised(D)
        /\ Done /\ Quietly /\ Works /\ UNCHANGED supervisor

DueAlways == At("pick")   \* mutant: what is already in order is applied again
Due == At("pick") /\ ~(run.verb = "apply" /\ Kind(Subject) = "ok" /\ ~Supervised(D))

Elsewhere == Due /\ Way = "elsewhere" /\ Done /\ Quietly /\ Works /\ UNCHANGED supervisor

(* brew services start and the raw start command: one call.                *)
Starts ==
  /\ Due /\ ~Removing /\ Way \in {"brew", "raw"} /\ run.verb \in {"apply", "start"}
  /\ LET u == IF Way = "brew" THEN BrewId(D.brew) ELSE RawId(Subject)
     IN \/ /\ Way = "brew" => BrewServices
           /\ \E r \in StartOf(Command(D)) : Put(u, file[u], loaded[u], r)
           /\ Installs(u) /\ Done /\ Works
        \/ /\ \/ Way = "brew" /\ ~BrewServices /\ Works
              \/ Costs(1)
           /\ Fails /\ UNCHANGED <<file, loaded, running, installed>>
  /\ Fixed /\ UNCHANGED <<script, cut, loose>>

Wanted == CASE Way = "launchd" -> FromTemplate(D.plist)
            [] Way = "systemd" -> FromTemplate(D.unit)
            [] OTHER           -> Generated(D)
Renderable == CASE Way = "launchd" -> HasLabel(D.plist)
                [] Way = "systemd" -> Renders(D.unit)
                [] OTHER           -> TRUE

Writing == /\ Due /\ ~Removing /\ run.verb \in {"apply", "start"}
           /\ Way \in {"launchd", "systemd", "generated systemd", "generated launchd"}

(* A template is written when it differs, a generated unit always.         *)
WriteUnit ==
  /\ Writing
  /\ LET u == UnitOf(Subject, D)
     IN \/ /\ Renderable
           /\ file' = [file EXCEPT ![u] = Wanted]
           /\ Installs(u)
           /\ Goes("written", Templated(D) => file[u] # Wanted, FALSE)
           /\ Works
        \/ /\ IF Renderable THEN Costs(1) ELSE Works
           /\ Fails /\ UNCHANGED <<file, installed>>
  /\ UNCHANGED <<loaded, running, script, cut, loose>> /\ Fixed

(* The unit whose turn it is, and what a failure or an interruption leaves behind. *)
Now == UnitOf(Subject, D)
LeftBehind == cut' = cut \cup {u \in {Now} \ {NoId} : Behind(u)}
CaughtUp == cut' = cut \ {Now}

(* launchd has to let go of a job before it loads it again.  A bootout that *)
(* fails is ignored, a query that fails takes the job for one that is not  *)
(* loaded, and the bootstrap after either then fails.                      *)
Bootout ==
  /\ At("written") /\ Way \in {"launchd", "generated launchd"}
  /\ LET isLoaded == loaded[Now] # Absent
     IN \/ /\ Way = "launchd" /\ ~run.changed /\ isLoaded
           /\ Done /\ Works /\ UNCHANGED supervisor
        \/ /\ (Way = "generated launchd" \/ run.changed) /\ isLoaded /\ Known(Now)
           /\ Goes("out", run.changed, TRUE)
           /\ Works /\ Put(Now, file[Now], Absent, Absent) /\ UNCHANGED script
        \/ /\ IF isLoaded /\ Known(Now) THEN Costs(1) ELSE Works
           /\ Goes("out", run.changed, isLoaded) /\ UNCHANGED supervisor
  /\ Quietly

Bootstrap ==
  /\ At("out")
  /\ \/ /\ loaded[Now] = Absent
        /\ \E r \in StartOf(file[Now]) : Put(Now, file[Now], file[Now], r)
        /\ CaughtUp /\ Done /\ Works
     \/ /\ \/ loaded[Now] # Absent /\ Works
           \/ loaded[Now] = Absent /\ Costs(1)
        /\ LeftBehind /\ Fails /\ UNCHANGED <<file, loaded, running>>
  /\ Fixed /\ UNCHANGED <<script, installed, loose>>

(* is-active, which a failure answers with no, daemon-reload, whose failure *)
(* is ignored, then enable --now, which starts a unit that is not active    *)
(* and leaves an active one as it is.                                       *)
CallsFailed(oks) == Cardinality({i \in DOMAIN oks : ~oks[i]})
EnableNow ==
  /\ At("written") /\ Way \in {"systemd", "generated systemd"}
  /\ \E asks, reloads, enables \in BOOLEAN :
       LET known == IF reloads THEN Reloaded ELSE loaded
           held == IF known[Now] = Absent THEN [known EXCEPT ![Now] = file[Now]] ELSE known
           active == running[Now] # Absent
       IN /\ asks \/ (Way = "systemd" /\ active)
          /\ Costs(CallsFailed(<<asks, reloads, enables>>))
          /\ loaded' = IF enables THEN held ELSE known
          /\ \E r \in IF enables /\ ~active THEN StartOf(held[Now]) ELSE {running[Now]} :
               running' = [running EXCEPT ![Now] = r]
          /\ IF ~enables THEN Fails ELSE Goes("enabled", run.changed, active /\ asks)
          /\ IF asks /\ reloads /\ enables THEN UNCHANGED cut
             ELSE cut' = cut \cup {u \in {Now} : loaded'[u] # file[u] \/ Behind(u)}
  /\ Fixed /\ UNCHANGED <<file, script, installed, loose>>

(* A template that changed under an active unit restarts it; the answer is ignored. *)
RestartNever ==   \* mutant: enable --now is taken to be enough
  /\ At("enabled") /\ Done /\ Works
  /\ UNCHANGED <<supervisor, cut>> /\ Fixed /\ UNCHANGED <<installed, loose>>
RestartChanged ==
  /\ At("enabled")
  /\ IF Way = "systemd" /\ run.changed /\ run.was
     THEN \/ /\ \E r \in StartOf(loaded[Now]) : running' = [running EXCEPT ![Now] = r]
             /\ IF loaded[Now] = file[Now] THEN CaughtUp ELSE UNCHANGED cut
             /\ Works
          \/ /\ Costs(1)
             /\ running' \in {running, [running EXCEPT ![Now] = Absent]}
             /\ cut' = cut \cup {Now}
     ELSE UNCHANGED <<running, cut>> /\ Works
  /\ Done
  /\ Fixed /\ UNCHANGED <<file, loaded, script, installed, loose>>

(* The scripts of a scheduled task first, its definition last.             *)
WriteScript ==
  /\ Due /\ ~Removing /\ Way = "task" /\ run.verb = "apply"
  /\ \/ /\ script' = [script EXCEPT ![Subject] = D.task.action]
        /\ Goes("script", script[Subject] # D.task.action \/ file[GenId(Subject)] # TaskXml(D.task), FALSE)
        /\ Installs(GenId(Subject)) /\ Works
     \/ /\ script[Subject] # D.task.action
        /\ Costs(1) /\ Fails /\ UNCHANGED <<script, installed>>
  /\ Fixed /\ UNCHANGED <<file, loaded, running, cut, loose>>

WriteXml ==
  /\ At("script")
  /\ \/ /\ file' = [file EXCEPT ![Now] = TaskXml(D.task)]
        /\ Goes("written", run.changed, FALSE) /\ Works
     \/ run.changed /\ Costs(1) /\ Fails /\ UNCHANGED file
  /\ Quietly /\ UNCHANGED <<loaded, running, script>>

(* A query that fails for another reason than a missing task counts as registered. *)
Register ==
  /\ At("written") /\ Way = "task"
  /\ \/ /\ run.changed \/ loaded[Now] = Absent
        /\ \/ /\ loaded' = [loaded EXCEPT ![Now] = file[Now]] /\ CaughtUp
              /\ Done /\ Works
           \/ /\ LeftBehind /\ Fails /\ Costs(1) /\ UNCHANGED loaded
     \/ /\ ~run.changed
        /\ IF loaded[Now] # Absent THEN Works ELSE Costs(1)
        /\ IF loaded[Now] # Absent THEN UNCHANGED cut ELSE cut' = cut \cup {Now}
        /\ Done /\ UNCHANGED loaded
  /\ Fixed /\ UNCHANGED <<file, running, script, installed, loose>>

-----------------------------------------------------------------------------
(* Taking down what left the spec: what the supervisor answers is ignored,  *)
(* except by the Task Scheduler and brew.                                  *)

Gone == RemovalId(Subject, lock[Subject])

Unload ==
  /\ Due /\ Removing /\ Way \in {"launchd", "systemd", "task", "brew", "raw"}
  /\ \/ /\ (Way = "brew" => BrewServices) /\ Known(Gone)
        /\ Put(Gone, file[Gone], IF Way = "systemd" THEN loaded[Gone] ELSE Absent, Absent)
        /\ IF Way \in {"brew", "raw"} THEN Done ELSE Goes("unloaded", FALSE, FALSE)
        /\ Works /\ UNCHANGED <<loose, script>>
     \/ /\ Way \in {"launchd", "systemd"} /\ IF Known(Gone) THEN Costs(1) ELSE Works
        /\ Goes("unloaded", FALSE, FALSE)
        /\ loose' = loose \cup {Gone} /\ UNCHANGED supervisor
     \/ /\ Way \in {"task", "brew", "raw"} /\ (IF Way = "brew" /\ ~BrewServices THEN Works ELSE Costs(1))
        /\ Fails /\ UNCHANGED <<supervisor, loose>>
  /\ Fixed /\ UNCHANGED <<installed, cut>>

(* The daemon-reload after the deletion may fail too: then systemd keeps the unit. *)
DeleteFile ==
  /\ At("unloaded")
  /\ \/ /\ file' = [file EXCEPT ![Gone] = Absent]
        /\ \/ /\ loaded' = IF Systemd THEN [Reloaded EXCEPT ![Gone] = Absent] ELSE loaded
              /\ Works /\ UNCHANGED loose
           \/ /\ Systemd /\ Costs(1)
              /\ loose' = loose \cup {Gone} /\ UNCHANGED loaded
        /\ script' = IF Way = "task" THEN [script EXCEPT ![Subject] = ""] ELSE script
        /\ cut' = cut \cup {u \in {Gone} : \E n \in Declared : UnitOf(n, spec[n]) = u}
        /\ Done
     \/ /\ file[Gone] # Absent /\ Costs(1)
        /\ Fails /\ UNCHANGED <<file, loaded, script, cut, loose>>
  /\ Fixed /\ UNCHANGED <<running, installed>>

(* Units that have been written for a declaration which the lock does not note, by an apply
   that failed somewhere or by `genv service start`, and those of removals that may have
   been done: when the declaration is taken back, compareServices finds no difference. *)
Written(d) == IF Systemd /\ d.unit # "" THEN FromTemplate(d.unit) ELSE Generated(d)
Forgotten ==
  {GenId(n) : n \in {m \in Declared : /\ ~Same(spec[m], lock[m])
                                     /\ file[GenId(m)] = Written(spec[m])}}
  \cup {RemovalId(n, lock[n]) : n \in {m \in Names \ Declared : lock[m] # Unlocked}}
(* The lock takes over the whole spec when nothing failed, and nothing of it otherwise. *)
EndApplyDeclared ==   \* mutant: the lock has an entry for what is declared only
  /\ run.pc = "pick" /\ run.queue = <<>> /\ run.verb = "apply"
  /\ lock' = IF run.failed = {} THEN [n \in Declared |-> SpecToLock(n, spec[n])] ELSE lock
  /\ clean' = (run.failed = {}) /\ run' = NoRun
  /\ UNCHANGED <<inputs, supervisor, said, installed, cut, loose, quiet, runs, failures, edits>>
EndApply ==
  /\ run.pc = "pick" /\ run.queue = <<>> /\ run.verb = "apply"
  /\ lock' = IF run.failed = {} THEN [n \in Names |-> SpecToLock(n, spec[n])] ELSE lock
  /\ cut' = IF run.failed = {} THEN cut ELSE cut \cup (Forgotten \cap UnitIds)
  /\ clean' = (run.failed = {})
  /\ run' = NoRun
  /\ UNCHANGED <<inputs, supervisor, said, installed, loose, quiet, runs, failures, edits>>

(* Killed between two calls: the lock is not written.                      *)
Killed ==
  /\ ~Idle /\ Costs(1)
  /\ cut' = cut \cup {u \in UnitIds : installed[u] # "" /\ Behind(u)} \cup (Forgotten \cap UnitIds)
  /\ run' = NoRun
  /\ UNCHANGED <<inputs, lock, supervisor, said, installed, loose, quiet, clean, runs, edits>>

-----------------------------------------------------------------------------
(* genv service start, stop and restart.                                   *)

Commanded(n) == /\ Idle /\ runs < MaxRuns /\ runs' = runs + 1
                /\ spec[n] # Undeclared
                /\ quiet' = FALSE
                /\ UNCHANGED <<inputs, lock, installed, cut, loose, clean, edits>>

Answer(verb, n, result) == said' = [verb |-> verb, name |-> n, result |-> result]

StartService(n) ==
  /\ Commanded(n)
  /\ run' = [NoRun EXCEPT !.verb = "start", !.name = n, !.pc = "pick", !.queue = <<n>>]
  /\ said' = Nothing
  /\ UNCHANGED <<supervisor, failures>>

(* A restart is refused while something it requires is down, or looks so.  *)
MissingDependencies(n) ==
  {m \in spec[n].requires : m \notin Declared \/ ~ProbeRunning(m)}

RestartService(n) ==
  /\ Commanded(n)
  /\ \/ /\ IF MissingDependencies(n) # {} THEN Works ELSE spec[n].requires # {} /\ Costs(1)
        /\ Answer("restart", n, "dependency down") /\ UNCHANGED run
     \/ /\ MissingDependencies(n) = {} /\ Works
        /\ run' = [NoRun EXCEPT !.verb = "restart", !.name = n, !.pc = "pick", !.queue = <<n>>]
        /\ said' = Nothing
  /\ UNCHANGED supervisor

Refused ==
  /\ At("pick") /\ run.verb # "apply" /\ Way = "refused"
  /\ Answer(run.verb, Subject, "refused") /\ run' = NoRun
  /\ UNCHANGED <<inputs, lock, supervisor, history, runs, failures, edits>>

EndCommand ==
  /\ run.pc = "pick" /\ run.queue = <<>> /\ run.verb \in {"start", "restart"}
  /\ Answer(run.verb, run.name, IF run.failed = {} THEN "ok" ELSE "failed")
  /\ cut' = cut \cup (Forgotten \cap {GenId(run.name)})
  /\ run' = NoRun
  /\ UNCHANGED <<inputs, lock, supervisor, installed, loose, quiet, clean, runs, failures, edits>>

(* launchd has no restart: the job is let go, if it is loaded, and loaded again. *)
RestartLoaded ==   \* mutant: a job that is not loaded is left so
  /\ At("pick") /\ run.verb = "restart" /\ Way = "launchd"
  /\ IF ~HasLabel(D.plist) THEN Fails /\ UNCHANGED supervisor
     ELSE IF loaded[Now] # Absent
     THEN Goes("out", FALSE, TRUE) /\ Put(Now, file[Now], Absent, Absent) /\ UNCHANGED script
     ELSE Done /\ UNCHANGED supervisor
  /\ Works /\ Quietly
RestartLaunchd ==
  /\ At("pick") /\ run.verb = "restart" /\ Way = "launchd"
  /\ LET u == Now
         there == HasLabel(D.plist) /\ file[u] # Absent
     IN \/ ~there /\ Fails /\ Works /\ UNCHANGED supervisor
        \/ /\ there
           /\ \/ Goes("out", FALSE, TRUE) /\ Put(u, file[u], Absent, Absent) /\ Works /\ UNCHANGED script
              \/ loaded[u] # Absent /\ (Fails \/ Goes("out", FALSE, TRUE)) /\ Costs(1) /\ UNCHANGED supervisor
  /\ Quietly

RestartSystemd ==
  /\ At("pick") /\ run.verb = "restart" /\ Way = "systemd"
  /\ LET held == IF loaded[Now] = Absent THEN file[Now] ELSE loaded[Now]
     IN \/ /\ file[Now] # Absent
           /\ \E r \in StartOf(held) : Put(Now, file[Now], held, r)
           /\ Done /\ Works
        \/ /\ file[Now] # Absent /\ Costs(1) /\ Fails
           /\ \E r \in {running[Now], Absent} : Put(Now, file[Now], loaded[Now], r)
        \/ file[Now] = Absent /\ Fails /\ Works /\ UNCHANGED <<file, loaded, running>>
  /\ Quietly /\ UNCHANGED script

(* brew, the declared restart command, or stop and then start: the start is not
   tried after a stop that failed.  A restart command is the user's: what it
   leaves running is what was.                                             *)
RestartOther ==
  /\ At("pick") /\ run.verb = "restart" /\ Way \in {"brew", "restart", "stop and start"}
  /\ LET u == IF Way = "brew" THEN BrewId(D.brew) ELSE RawId(Subject)
     IN \/ /\ Way = "brew" => BrewServices
           /\ \E r \in IF Way = "restart" THEN {running[u]} ELSE StartOf(Command(D)) :
                Put(u, file[u], loaded[u], r)
           /\ Done /\ Works
        \/ /\ IF Way = "brew" /\ ~BrewServices THEN Works ELSE Costs(1)
           /\ Put(u, file[u], loaded[u], running[u]) /\ Fails
        \/ /\ Way = "stop and start" /\ Costs(1)
           /\ Put(u, file[u], loaded[u], Absent) /\ Fails
  /\ Quietly /\ UNCHANGED script

(* StopDeclared: one call. *)
StopService(n) ==
  /\ Commanded(n)
  /\ LET d == spec[n]
         way == StartWay([d EXCEPT !.start = d.stop])
         u == CASE way = "brew" -> BrewId(d.brew) [] way = "raw" -> RawId(n)
                [] OTHER -> UnitOf(n, d)
         possible == /\ way # "refused" /\ u # NoId
                     /\ way = "brew" => BrewServices
                     /\ way = "launchd" => loaded[u] # Absent
                     /\ way = "systemd" => file[u] # Absent
     IN \/ /\ possible
           /\ Put(u, file[u], IF way = "launchd" THEN Absent ELSE loaded[u], Absent)
           /\ Answer("stop", n, "ok") /\ Works
        \/ /\ IF possible THEN Costs(1) ELSE Works
           /\ Answer("stop", n, IF way = "refused" THEN "refused" ELSE "failed")
           /\ UNCHANGED <<file, loaded, running>>
  /\ UNCHANGED <<script, run>>

-----------------------------------------------------------------------------
(* What happens around genv: the user edits the spec or a template, the day *)
(* turns, a process ends, a job is unregistered by hand.  Before the first  *)
(* command an edit only makes another initial state.                       *)

Around == /\ Idle /\ runs \in 1..(MaxRuns - 1) /\ edits < MaxEdits /\ edits' = edits + 1
          /\ quiet' = FALSE
          /\ UNCHANGED <<platform, lock, file, script, run, said, installed, cut, clean, runs, failures>>

Loosened == loose' = {u \in UnitIds : /\ Present(u) /\ installed[u] # ""
                                      /\ u \in loose \/ ~Reached(u)'}

EditSpec(n, d) ==
  /\ Around /\ spec[n] # d
  /\ spec' = [spec EXCEPT ![n] = d]
  /\ Valid(spec')
  /\ UNCHANGED <<template, today, loaded, running>> /\ Loosened

EditTemplate(s, r) ==
  /\ Around /\ template[s] # r
  /\ \E n \in Declared : s = (IF Launchd THEN spec[n].plist ELSE IF Systemd THEN spec[n].unit ELSE "")
  /\ template' = [template EXCEPT ![s] = r]
  /\ UNCHANGED <<spec, today, loaded, running>> /\ Loosened

NewDay == /\ Around /\ Schtasks /\ today' = today + 1
          /\ UNCHANGED <<spec, template, loaded, running, loose>>

Ends(u) == /\ Around /\ running[u] # Absent
           /\ running' = [running EXCEPT ![u] = Absent]
           /\ UNCHANGED <<spec, template, today, loaded, loose>>

Unregistered(u) == /\ Around /\ loaded[u] # Absent /\ (Launchd \/ Schtasks)
                   /\ loaded' = [loaded EXCEPT ![u] = Absent]
                   /\ running' = [running EXCEPT ![u] = Absent]
                   /\ UNCHANGED <<spec, template, today, loose>>

-----------------------------------------------------------------------------
ServicesInit ==
  /\ platform \in Platforms
  /\ spec \in FirstSpecs /\ Valid(spec)
  /\ template \in FirstTemplates
  /\ today = 1
  /\ lock = [n \in Names |-> Unlocked]
  /\ file = [u \in UnitIds |-> Absent] /\ loaded = file /\ running = file
  /\ script = [n \in Names |-> ""]
  /\ run = NoRun /\ said = Nothing
  /\ installed = [u \in UnitIds |-> ""] /\ cut = {} /\ loose = {}
  /\ quiet = TRUE /\ clean = FALSE
  /\ runs = 0 /\ failures = 0 /\ edits = 0

Applies ==
  \/ StartApply \/ Skip \/ Elsewhere \/ Starts \/ WriteUnit \/ Bootout \/ Bootstrap
  \/ EnableNow \/ RestartChanged \/ WriteScript \/ WriteXml \/ Register
  \/ Unload \/ DeleteFile \/ EndApply \/ Killed

Commands ==
  \/ \E n \in Names : StartService(n) \/ RestartService(n) \/ StopService(n)
  \/ Refused \/ EndCommand \/ RestartLaunchd \/ RestartSystemd \/ RestartOther

Environment ==
  \/ \E n \in Names, d \in Declarations \cup {Undeclared} : EditSpec(n, d)
  \/ \E s \in Sources, r \in Rendered : EditTemplate(s, r)
  \/ NewDay
  \/ \E u \in UnitIds : Ends(u) \/ Unregistered(u)

ServicesNext == Applies \/ Commands \/ Environment
ServicesSpec == ServicesInit /\ [][ServicesNext]_servicesVars

-----------------------------------------------------------------------------
(* Properties.                                                             *)

(* The shape of the state: one unit per identity, a lock entry per name.   *)
UnitsOK ==
  /\ platform \in Platforms
  /\ DOMAIN spec = Names /\ DOMAIN lock = Names /\ DOMAIN script = Names
  /\ DOMAIN file = UnitIds /\ DOMAIN loaded = UnitIds /\ DOMAIN running = UnitIds
  /\ installed \in [UnitIds -> Names \cup {""}]
  /\ cut \subseteq UnitIds /\ loose \subseteq UnitIds
  /\ run.failed \subseteq Names
  /\ ToSet(run.queue) \subseteq Names
  /\ quiet \in BOOLEAN /\ clean \in BOOLEAN
  /\ runs <= MaxRuns /\ failures <= MaxFailures /\ edits <= MaxEdits

(* Two names answer to one unit of the user's naming: two templates with one label or
   one base name, two services of one brew formula, or a service that was renamed. *)
Shares(n) ==
  LET u == UnitOf(n, spec[n])
  IN u[1] \in {"own", "brew"} /\ \E m \in Names \ {n} : u \in {RemovalId(m, lock[m]), UnitOf(m, spec[m])}

SameText(a, b) == /\ Len(a.command) = Len(b.command)
                  /\ \A i \in DOMAIN a.command : Joined(a.command[i]) = Joined(b.command[i])

Current(n) ==
  LET d == spec[n]
      u == UnitOf(n, d)
  IN CASE Backend(d) = "launchd" ->
            u # NoId /\ file[u] = FromTemplate(d.plist) /\ loaded[u] = file[u]
       [] Backend(d) = "systemd" ->
            file[u] = FromTemplate(d.unit) /\ loaded[u] = file[u] /\ running[u] \in StartOf(file[u])
       [] Backend(d) = "task" ->
            script[n] = d.task.action /\ file[u] = TaskXml(d.task) /\ loaded[u] = file[u]
       [] Backend(d) \in {"generated systemd", "generated launchd"} ->
            file[u] # Absent /\ SameText(file[u], Generated(d))
       [] OTHER -> TRUE

(* When an apply has been through its list, every service that did not fail is what
   its declaration and its template say, on disk and in the supervisor, and no process
   of a systemd unit is one of an older definition, whatever was installed before;
   apart from a unit some earlier call was cut short on, and from names that share a
   unit (applyLaunchdTemplate, applySystemdTemplate, applyScheduledTask, supervisor.go:164, scheduled_task.go:256). *)
AppliedIsCurrent ==
  run.verb = "apply" /\ run.pc = "pick" /\ run.queue = <<>> =>
    \A n \in Declared \ run.failed :
      Current(n) \/ UnitOf(n, spec[n]) \in cut \/ Shares(n)

Settled == Idle /\ clean /\ quiet

(* After an apply that went through, genv has forgotten nothing it installed: a unit
   it put into a supervisor belongs to a service that is still declared, unless the
   unit is loose: a change of the service's identity took it out of the lock's reach,
   the supervisor did not let go of it, a daemon-reload failed after its removal, or
   launchd knows it by another label (SpecToLock, removeLocked, service.go:184). *)
NoOrphan ==
  Settled => \A u \in UnitIds :
    installed[u] # "" /\ Present(u) /\ u \notin loose
      => \E n \in Declared : UnitOf(n, spec[n]) = u

(* An apply that went through leaves a lock in which the next one finds nothing
   missing, extra or modified: what SpecToLock notes is what compareServices compares. *)
StatusAgrees == Settled => \A n \in Names : Kind(n) = "ok"

(* A second apply with nothing changed in between stops, replaces and writes nothing,
   and starts at most a systemd unit that has gone down: no service is bounced by a run
   that had nothing to do, and a unit whose own call failed is the only one it may have
   to see to (scheduled_task.go:249). *)
AppliesSettle ==
  [][run.again /\ run'.again /\ (\A n \in Declared : ~Shares(n))
       => /\ UNCHANGED script
          /\ \A u \in UnitIds \ cut : /\ file'[u] = file[u]
                                      /\ running'[u] # running[u] => Systemd /\ running[u] = Absent
                                      /\ Systemd \/ loaded'[u] = loaded[u]]_servicesVars

(* Working on one service, to apply, remove, start, stop or restart it, leaves the
   files and the processes of every other one alone (slug.go:9). *)
SparesTheOthers ==
  [][~Idle /\ run.queue # <<>> =>
       \A n \in Declared \ {Subject} :
         LET u == UnitOf(n, spec[n])
         IN u # NoId /\ ~Shares(n) => /\ file'[u] = file[u] /\ running'[u] = running[u]
                                      /\ script'[n] = script[n]]_servicesVars

(* An answer is true when it is given.  A service that was restarted has been given to
   launchd with the definition on disk, and what runs of it, if anything, is that; under
   systemd what runs of it, if anything, is the definition systemd holds.  One that was
   started is what its template says, unless an earlier call on it was cut short, and one
   that was stopped is down.  That a start stays up nobody promises (restartLaunchd,
   restart.go:76; StartDeclared, supervisor.go:293). *)
AnswersAreTrue ==
  [][\A n \in Names : said' # said /\ said'.result = "ok" /\ said'.name = n =>
       LET u == UnitOf(n, spec[n])
       IN Backend(spec[n]) \in {"launchd", "systemd"} =>
            CASE said'.verb = "stop"    -> running'[u] = Absent
              [] said'.verb = "start"   -> Current(n)' \/ u \in cut'
              [] said'.verb = "restart" -> /\ running'[u] \in StartOf(loaded'[u])
                                           /\ Launchd => loaded'[u] = file'[u]]_servicesVars

(* VIOLATED.  "Removing the service from the spec unloads it and deletes the unit file or
   unregisters the task" (README.md:364). *)
RemovedIsUnloaded ==
  [][~clean /\ clean' =>
       \A n \in Names \ Declared, u \in UnitIds :
         lock[n] # Unlocked /\ installed[u] = n /\ u[1] \in {"genv", "own"} => ~Present(u)]_servicesVars

-----------------------------------------------------------------------------
(* What the runs check together, as conjunctions of the above.             *)

\* After an apply, supervisor, files and lock are what the spec declares, and
\* nothing that genv installed is forgotten.
ApplyIsTrue == UnitsOK /\ AppliedIsCurrent /\ NoOrphan /\ StatusAgrees

\* No call disturbs a service it is not about, and none is about a service that
\* is already current.
TouchesOnlyWhatIsDue == AppliesSettle /\ SparesTheOthers

=============================================================================
