----------------------------- MODULE UpgradeRun -----------------------------
(***************************************************************************)
(* One `genv upgrade`, or one run of the scheduled updates worker, from    *)
(* the upgrade plan to the restarts of the services that watch what was    *)
(* upgraded (main.go upgradeCmd, main_updates_worker.go, internal/upgrade, *)
(* internal/resolver ExecuteUpgrade, main_service_restart.go).  The lock   *)
(* mutex is held for the whole run, so runs never overlap: the module has  *)
(* one run at a time, which may be killed between any two steps, and any   *)
(* number of later runs that find what it left behind.                     *)
(*                                                                         *)
(* Kept between runs: the machine (installed versions, which services run  *)
(* and on what they loaded) and the lock file (recorded versions, pending  *)
(* restart records).  A version is a number, 0 is "no version recorded".   *)
(***************************************************************************)
EXTENDS Naturals, FiniteSets

CONSTANTS
  Pkgs,          \* packages tracked in both the spec and the lock
  Managers,      \* package managers
  ManagerOf,     \* the manager of each package
  BatchManagers, \* managers that upgrade several packages with one command
  NoVersion,     \* packages whose manager never reports a version
  Services,      \* a service is its place in the start order plan.Build returned
  Requires,      \* Requires[s]: the services s declares it requires
  Watch,         \* Watch[s]: the packages s watches
  IfRunning,     \* services whose restart_policy is ifRunning (else never)
  HealthCheck,   \* "none", "interactive" or "background" (allow_background)
  FaultKinds,    \* the kinds of fault this instance explores
  MaxVersion,    \* bound on upstream releases
  MaxProbes,     \* health probes that fit into a check's timeout
  MaxFaults      \* bound on faults

\* The whole dependency chain of s: the least set that holds what s requires and
\* what its members require.
AllRequires(s) ==
  {d \in Services :
     \A C \in SUBSET Services :
       Requires[s] \subseteq C /\ (\A c \in C : Requires[c] \subseteq C) => d \in C}

AllFaultKinds == {"command", "versionQuery", "lockWrite", "lockRead", "record",
                  "stop", "start", "clear", "crash"}

ASSUME PackagesAssumption ==
  /\ ManagerOf \in [Pkgs -> Managers]
  /\ BatchManagers \subseteq Managers
  /\ NoVersion \subseteq Pkgs
ASSUME ServicesAssumption ==
  /\ Services \subseteq Nat
  /\ Requires \in [Services -> SUBSET Services]
  /\ Watch \in [Services -> SUBSET Pkgs]
  /\ IfRunning \subseteq Services
  /\ HealthCheck \in [Services -> {"none", "interactive", "background"}]
\* plan.Build: every dependency precedes its dependents.
ASSUME OrderAssumption ==
  \A s \in Services : \A d \in Requires[s] : d < s
ASSUME BoundsAssumption ==
  /\ FaultKinds \subseteq AllFaultKinds
  /\ MaxVersion \in Nat \ {0}
  /\ MaxProbes \in Nat \ {0}
  /\ MaxFaults \in Nat

VARIABLES
  \* The machine.
  available, \* available[p]: the newest version upstream
  binary,    \* binary[p]: the version installed
  up,        \* the services that are running
  stale,     \* <<s, p>>: s runs and watches p, which was replaced under it
  \* The lock file.
  lockVer,   \* lockVer[p]: InstalledVersion
  pending,   \* <<s, p>>: a PendingAction for service s triggered by p
  \* The run in progress.
  pc,        \* the step the run is at, "idle" between runs
  mode,      \* "text" or "json" (genv upgrade, --json), or "unattended"
  plan,      \* upgrade actions left: [cmd |-> packages, lps |-> packages]
  mem,       \* the lock's versions in memory (lf, and lf before the upgrade)
  before,    \* preUpgradeVersions
  upgraded,  \* UpgradeExecution.Upgraded
  cmdFailed, \* UpgradeExecution.Errors is not empty
  decision,  \* decision[s]: RestartDecision.Action, or "none"
  triggers,  \* triggers[s]: RestartDecision.Triggers
  queue,     \* the services the current loop has still to visit, a set
  errs,      \* services whose stop or start failed (or was blocked)
  unready,   \* services that started and did not become ready
  unrecorded,\* services whose pending record could not be written
  probes,    \* health probes left before the check's deadline
  outcome,   \* outcome[s]: what the last run reported of s
  exit,      \* the last run's exit status: "ok" or "failed"
  faults     \* faults so far

machine  == <<available, binary, up, stale>>
lockFile == <<lockVer, pending>>
inMemory == <<mode, plan, mem, before, upgraded, cmdFailed>>
phase    == <<decision, triggers, errs, unready, unrecorded>>
report   == <<outcome, exit>>
vars     == <<machine, lockFile, pc, inMemory, phase, queue, probes, report, faults>>

Versions == 0..MaxVersion
Modes == {"text", "json", "unattended"}
Interactive == {"text", "json"}
Decisions == {"none", "restart", "start", "skip", "defer"}
Outcomes == {"none", "done", "skip", "defer", "failed", "unready"}
Labels == {"idle", "upgrade", "evidence", "record", "stop",
           "start", "probe", "clear"}

MachineOK ==
  /\ available \in [Pkgs -> 1..MaxVersion]
  /\ binary \in [Pkgs -> 1..MaxVersion]
  /\ \A p \in Pkgs : lockVer[p] <= binary[p] /\ binary[p] <= available[p]
  /\ up \subseteq Services
  /\ stale \subseteq {pair \in up \X Pkgs : pair[2] \in Watch[pair[1]]}

LockOK ==
  /\ lockVer \in [Pkgs -> Versions]
  /\ pending \subseteq {pair \in Services \X Pkgs : pair[2] \in Watch[pair[1]]}

RunOK ==
  /\ mode \in Modes
  /\ plan \subseteq [cmd : SUBSET Pkgs, lps : (SUBSET Pkgs) \ {{}}]
  /\ mem \in [Pkgs -> Versions] /\ before \in [Pkgs -> Versions]
  /\ upgraded \subseteq Pkgs
  /\ cmdFailed \in BOOLEAN

PhaseOK ==
  /\ decision \in [Services -> Decisions]
  /\ triggers \in [Services -> SUBSET Pkgs]
  /\ queue \subseteq Services
  /\ errs \subseteq Services /\ unready \subseteq Services /\ unrecorded \subseteq Services
  /\ probes \in 0..MaxProbes

ReportOK ==
  /\ outcome \in [Services -> Outcomes]
  /\ exit \in {"ok", "failed"}
  /\ faults \in 0..MaxFaults

TypeOK == pc \in Labels /\ MachineOK /\ LockOK /\ RunOK /\ PhaseOK /\ ReportOK

NoDecision == [s \in Services |-> "none"]
NoTriggers == [s \in Services |-> {}]

Init ==
  /\ available = [p \in Pkgs |-> 1]
  /\ binary = [p \in Pkgs |-> 1]
  /\ up \in SUBSET Services
  /\ stale = {}
  /\ lockVer \in [Pkgs -> {0, 1}]
  /\ \A p \in NoVersion : lockVer[p] = 0
  /\ pending = {}
  /\ pc = "idle" /\ mode = "text"
  /\ plan = {} /\ mem = lockVer /\ before = lockVer
  /\ upgraded = {} /\ cmdFailed = FALSE
  /\ decision = NoDecision /\ triggers = NoTriggers /\ queue = {}
  /\ errs = {} /\ unready = {} /\ unrecorded = {} /\ probes = 0
  /\ outcome = NoDecision /\ exit = "ok"
  /\ faults = 0

\* A step in which all of these kinds of fault strike.
Faults(kinds) ==
  /\ kinds \subseteq FaultKinds
  /\ faults' = faults + Cardinality(kinds)
  /\ faults' <= MaxFaults
Fault(kind) == Faults({kind})
NoFault == Faults({})

-----------------------------------------------------------------------------
(* The world outside: upstream publishes a new version.                    *)

Release(p) ==
  /\ available[p] < MaxVersion
  /\ available' = [available EXCEPT ![p] = @ + 1]
  /\ UNCHANGED <<binary, up, stale, lockFile, pc, inMemory, phase, queue, probes, report, faults>>

-----------------------------------------------------------------------------
(* The upgrade plan.                                                       *)

\* FilterOutdated: the packages with an update, and every package of a manager
\* that cannot tell, whose query failed, or under --all (keepAll).
FilterOutdated(packages, keepAll) ==
  {p \in packages : available[p] > binary[p] \/ ManagerOf[p] \in keepAll}

\* PlanUpgrade: one command per package, or one per manager when it batches.
PlanUpgrade(packages) ==
  LET group(m) == {p \in packages : ManagerOf[p] = m}
      batched == {m \in BatchManagers : Cardinality(group(m)) > 1}
  IN  {[cmd |-> group(m), lps |-> group(m)] : m \in batched}
        \cup {[cmd |-> {p}, lps |-> {p}] :
                p \in {q \in packages : ManagerOf[q] \notin batched}}

\* Mutant: a service with no health check counts as one that cannot be verified,
\* and only such a service.
BackgroundDeferralsUnchecked(packages) ==
  packages \cap UNION {Watch[s] : s \in {t \in Services : HealthCheck[t] = "none"}}

\* backgroundUpgradeDeferrals: planned packages that are watched by a service
\* whose health check may not run unattended.
BackgroundDeferrals(packages) ==
  packages \cap UNION {Watch[s] : s \in {t \in Services : HealthCheck[t] = "interactive"}}

\* filterUpgradePlanExcluding: the packages leave the action's LPs; its command
\* is copied unchanged.
ExcludeFromPlan(actions, drop) ==
  {[a EXCEPT !.lps = @ \ drop] : a \in {b \in actions : ~(b.lps \subseteq drop)}}

\* A run takes the mutex, reads the lock and plans over the packages that the
\* --only, --skip and manager filters and the version constraints leave (selected).
Begin(m, selected, keepAll) ==
  /\ pc = "idle"
  /\ LET packages == FilterOutdated(selected, keepAll)
         actions == PlanUpgrade(packages)
     IN  plan' = IF m = "unattended"
                 THEN ExcludeFromPlan(actions, BackgroundDeferrals(packages))
                 ELSE actions
  /\ plan' # {}
  /\ pc' = "upgrade"
  /\ mode' = m
  /\ mem' = lockVer /\ before' = lockVer
  /\ outcome' = NoDecision /\ exit' = "ok"
  /\ UNCHANGED <<machine, lockFile, upgraded, cmdFailed, phase, queue, probes, faults>>

\* The run ends: what it kept in memory is gone, its report stays.
EndRun ==
  /\ pc' = "idle"
  /\ plan' = {} /\ mem' = lockVer' /\ before' = lockVer'
  /\ upgraded' = {} /\ cmdFailed' = FALSE
  /\ decision' = NoDecision /\ triggers' = NoTriggers /\ queue' = {}
  /\ errs' = {} /\ unready' = {} /\ unrecorded' = {} /\ probes' = 0
  /\ UNCHANGED mode

\* No command has run yet.
Untouched == plan = PlanUpgrade(UNION {a.lps : a \in plan}) /\ upgraded = {} /\ ~cmdFailed

\* The operator declines the plan (text: --json requires --yes).
Decline ==
  /\ pc = "upgrade" /\ mode = "text" /\ Untouched
  /\ UNCHANGED <<machine, lockFile, report, faults>>
  /\ EndRun

\* A pre-upgrade hook fails; the worker runs no hooks.
HookFails ==
  /\ pc = "upgrade" /\ mode \in Interactive /\ Untouched
  /\ exit' = "failed"
  /\ UNCHANGED <<machine, lockFile, outcome, faults>>
  /\ EndRun

-----------------------------------------------------------------------------
(* ExecuteUpgrade and RunUpgrade.                                          *)

\* The packages S are replaced by their newest version, under whatever runs.
Replace(S) ==
  LET moved == {p \in S : binary[p] # available[p]}
  IN  /\ binary' = [p \in Pkgs |-> IF p \in S THEN available[p] ELSE binary[p]]
      /\ stale' = stale \cup {pair \in up \X moved : pair[2] \in Watch[pair[1]]}
      /\ UNCHANGED <<available, up>>

\* The action's versions are queried: `read` answered.  Its packages are
\* recorded as upgraded when the command succeeded or their version moved.
CollectVersions(a, read, ok) ==
  LET moved == {p \in read : binary'[p] # mem[p]}
  IN  /\ mem' = [p \in Pkgs |-> IF p \in moved THEN binary'[p] ELSE mem[p]]
      /\ upgraded' = upgraded \cup (IF ok THEN a.lps ELSE moved)

\* Running one action's command (cmd) and reading back its versions (read).  A
\* command that fails may have done any part of its work; a version query may
\* fail on its own, for any of the packages.
UpgradeAction(a) ==
  /\ pc = "upgrade" /\ a \in plan
  /\ plan' = plan \ {a}
  /\ \E failed \in SUBSET {"command", "versionQuery"} :
       /\ Faults(failed)
       /\ \E done \in IF "command" \in failed THEN SUBSET a.cmd ELSE {a.cmd} : Replace(done)
       /\ LET known == a.lps \ NoVersion
          IN  \E read \in IF "versionQuery" \in failed THEN SUBSET known ELSE {known} :
                CollectVersions(a, read, "command" \notin failed)
       /\ cmdFailed' = (cmdFailed \/ "command" \in failed)
  /\ UNCHANGED <<lockFile, pc, mode, before, phase, queue, probes, report>>

\* An unattended run skips a command that would need elevation.
SkipElevation(a) ==
  /\ pc = "upgrade" /\ mode = "unattended" /\ a \in plan
  /\ plan' = plan \ {a}
  /\ UNCHANGED <<machine, lockFile, pc, mode, mem, before, upgraded, cmdFailed,
                 phase, queue, probes, report, faults>>

\* Mutant: the worker replaces binaries and never restarts what runs them.
RestartsFollowInteractively(written) ==
  upgraded # {} /\ mode \in Interactive /\ (mode = "text" => written)

\* Whether the run goes on to the restart phase: the text command returns on a lock
\* write error, the other two do not; the worker skips the phase when any command
\* failed, the other two do not.
RestartsFollow(written) ==
  /\ upgraded # {}
  /\ mode = "text" => written
  /\ mode = "unattended" => ~cmdFailed

\* RunUpgrade: WriteLock(LockPath, Lock), then the front end's checks.
WriteLock(written) ==
  /\ pc = "upgrade" /\ plan = {}
  /\ lockVer' = IF written THEN mem ELSE lockVer
  /\ exit' = IF written /\ ~cmdFailed THEN "ok" ELSE "failed"
  /\ UNCHANGED <<machine, pending, outcome>>
  /\ IF RestartsFollow(written)
     THEN pc' = "evidence" /\ UNCHANGED <<inMemory, phase, queue, probes>>
     ELSE EndRun

WriteLockSucceeds == NoFault /\ WriteLock(TRUE)
WriteLockFails == Fault("lockWrite") /\ WriteLock(FALSE)

-----------------------------------------------------------------------------
(* Evidence and decisions.                                                 *)

\* Mutant: "no version" is compared like a version.
EvidenceFromAnyVersions(old, new) == IF old # new THEN "changed" ELSE "unchanged"

\* EvidenceFromVersions
EvidenceFromVersions(old, new) ==
  IF old = 0 \/ new = 0 THEN "unknown"
  ELSE IF old # new THEN "changed" ELSE "unchanged"

\* upgradeEvidenceFromLock: the versions of the lock on disk replace the ones
\* the run carries, unless the lock cannot be read.
Evidence(p, after) == EvidenceFromVersions(before[p], after[p])

\* filterBackgroundServices
InPlan(s) == mode \in Interactive \/ HealthCheck[s] # "interactive"

\* Mutant: a trigger need not be watched.
ChangedAnywhere(s, after) == {p \in upgraded : Evidence(p, after) = "changed"}

\* PlanServiceRestarts
Changed(s, after)   == {p \in Watch[s] \cap upgraded : Evidence(p, after) = "changed"}
Uncertain(s, after) == {p \in Watch[s] \cap upgraded : Evidence(p, after) = "unknown"}

\* Mutant: restart_policy is not consulted.
DecisionWithoutPolicy(s, after) ==
  IF ~InPlan(s) \/ Changed(s, after) \cup Uncertain(s, after) = {} THEN "none"
  ELSE IF Changed(s, after) = {} THEN "defer"
  ELSE IF s \in up THEN "restart" ELSE "start"

Decision(s, after) ==
  IF ~InPlan(s) \/ Changed(s, after) \cup Uncertain(s, after) = {} THEN "none"
  ELSE IF Changed(s, after) = {} THEN "defer"
  ELSE IF s \in up THEN "restart"
  ELSE IF s \in IfRunning THEN "start"
  ELSE "skip"

Actionable(s) == decision[s] \in {"restart", "start"}

\* The decisions, and the outcomes of the services that are left alone.
Decide(after) ==
  LET chosen == [s \in Services |-> Decision(s, after)]
      todo == {s \in Services : chosen[s] \in {"restart", "start"}}
  IN  /\ pc = "evidence"
      /\ UNCHANGED <<machine, lockFile, exit>>
      /\ outcome' = [s \in Services |->
                       IF chosen[s] \in {"skip", "defer"} THEN chosen[s] ELSE "none"]
      /\ IF todo = {}
         THEN EndRun
         ELSE /\ pc' = "record"
              /\ decision' = chosen
              /\ triggers' = [s \in Services |-> Changed(s, after)]
              /\ queue' = todo
              /\ UNCHANGED <<inMemory, errs, unready, unrecorded, probes>>

DecideFromLock == NoFault /\ Decide(lockVer)
DecideFromMemory == Fault("lockRead") /\ Decide(mem)

-----------------------------------------------------------------------------
(* runRestartPhase: records, stops, starts and probes, clears.             *)

\* The services the phase acts on; all but the stop loop visit them in start order.
ToAct == {s \in Services : Actionable(s)}

IsNext(s) == s \in queue /\ \A t \in queue : s <= t

\* Mutant: services stop in start order.
IsNextToStopForwards(s) == IsNext(s)

\* The stop loop visits the services to restart, dependents first; with none of
\* them there is nothing to stop.
ToStop == {s \in Services : decision[s] = "restart"}
IsNextToStop(s) == s \in queue /\ \A t \in queue : t <= s

\* The current loop is done with s: it goes on, or the next loop begins.
NextVisit(s, loop, nextLoop, services) ==
  IF queue # {s} THEN queue' = queue \ {s} /\ pc' = loop
  ELSE queue' = services /\ pc' = nextLoop

Recorded(s) == IF ToStop = {} THEN NextVisit(s, "record", "start", ToAct)
               ELSE NextVisit(s, "record", "stop", ToStop)
Stopped(s) == NextVisit(s, "stop", "start", ToAct)
Started(s) == NextVisit(s, "start", "clear", ToAct)

\* Mutant: only one of several triggers is recorded.
RecordsOnce(s) == {<<s, CHOOSE p \in triggers[s] : TRUE>>}

\* The records of one service: one per trigger.
Records(s) == {s} \X triggers[s]

\* recordPendingActions, for every service before any is stopped.
RecordPending(s) ==
  /\ pc = "record" /\ IsNext(s)
  /\ \/ /\ NoFault
        /\ pending' = pending \cup Records(s)
        /\ UNCHANGED unrecorded
     \/ /\ Fault("record")
        /\ unrecorded' = unrecorded \cup {s}
        /\ UNCHANGED pending
  /\ Recorded(s)
  /\ UNCHANGED <<machine, lockVer, inMemory, decision, triggers, errs, unready, probes, report>>

\* Mutant: a failed stop or start is not kept.
FailedForgotten(s) == UNCHANGED errs

\* errs[name] is set: the service did not come through.
Failed(s) == errs' = errs \cup {s}

\* A stopped service runs nothing, so nothing it runs is stale.
Fresh(s) == {pair \in stale : pair[1] # s}

\* Stop one service.  A stop that reports failure may have taken it down.
Stop(s) ==
  /\ pc = "stop" /\ IsNextToStop(s)
  /\ \/ /\ NoFault
        /\ up' = up \ {s} /\ stale' = Fresh(s)
        /\ UNCHANGED errs
     \/ /\ Fault("stop")
        /\ Failed(s)
        /\ \/ up' = up \ {s} /\ stale' = Fresh(s)
           \/ UNCHANGED <<up, stale>>
  /\ Stopped(s)
  /\ UNCHANGED <<available, binary, lockFile, inMemory, decision, triggers, unready, unrecorded,
                 probes, report>>

\* Mutant: only direct dependencies are looked at.
BlockedDirectly == {s \in Services : \E d \in Requires[s] : d \in errs}

\* firstFailedDependency: the services with a failure down their chain of
\* requires (a service that the background filter dropped ends the chain).
Blocked ==
  {s \in Services :
     \A B \in SUBSET Services :
       (\A t \in Services : \A d \in Requires[t] : InPlan(d) /\ d \in errs \cup B => t \in B)
         => s \in B}

\* Start one service, unless something it requires did not come back.  Starting
\* a service that is still running does nothing to it.
Start(s) ==
  /\ pc = "start" /\ IsNext(s)
  /\ \/ /\ s \in Blocked
        /\ Failed(s)
        /\ Started(s)
        /\ UNCHANGED <<up, probes, faults>>
     \/ /\ s \notin Blocked
        /\ NoFault
        /\ up' = up \cup {s}
        /\ IF HealthCheck[s] = "none"
           THEN Started(s) /\ UNCHANGED probes
           ELSE pc' = "probe" /\ probes' = MaxProbes /\ UNCHANGED queue
        /\ UNCHANGED errs
     \/ /\ s \notin Blocked
        /\ Fault("start")
        /\ Failed(s)
        /\ Started(s)
        /\ UNCHANGED <<up, probes>>
  /\ UNCHANGED <<available, binary, stale, lockFile, inMemory, decision, triggers, unready,
                 unrecorded, report>>

\* verify.Health: probe until the check passes or its timeout is used up.
ProbePasses(s) ==
  /\ pc = "probe" /\ IsNext(s)
  /\ probes' = 0
  /\ Started(s)
  /\ UNCHANGED <<machine, lockFile, inMemory, decision, triggers, errs, unready, unrecorded, report, faults>>

\* Mutant: the deadline starts again with each attempt that uses it up.
ProbeFailsAgain(s) ==
  /\ pc = "probe" /\ IsNext(s)
  /\ probes' = IF probes > 1 THEN probes - 1 ELSE MaxProbes
  /\ UNCHANGED <<machine, lockFile, pc, inMemory, phase, queue, report, faults>>

ProbeFails(s) ==
  /\ pc = "probe" /\ IsNext(s)
  /\ probes' = probes - 1
  /\ \/ probes > 1 /\ UNCHANGED <<pc, queue, unready>>
     \/ probes = 1 /\ Started(s) /\ unready' = unready \cup {s}
  /\ UNCHANGED <<machine, lockFile, inMemory, decision, triggers, errs, unrecorded, report, faults>>

\* Mutant: readiness is not waited for.
ConfirmedByStart(s) == s \notin errs

\* ClearPendingActions
OtherRecords(s) == {r \in pending : r[1] # s}

\* A service's records are cleared when it was started and became ready.
Confirmed(s) == s \notin errs \cup unready

\* Mutant: readiness failures do not count.
CountedErrors == IF mode = "unattended" THEN {} ELSE errs \ unrecorded

\* The services whose failure sets the exit code.  The text report names the
\* unwritten record of a service instead of its failure; the worker only logs.
Counted ==
  CASE mode = "text" -> (errs \cup unready) \ unrecorded
    [] mode = "json" -> errs \cup unready
    [] mode = "unattended" -> {}

Clear(s) ==
  /\ pc = "clear" /\ IsNext(s)
  /\ outcome' = [outcome EXCEPT ![s] =
                   IF s \in errs THEN "failed"
                   ELSE IF s \in unready THEN "unready" ELSE "done"]
  /\ \/ Confirmed(s) /\ NoFault /\ pending' = OtherRecords(s)
     \/ Confirmed(s) /\ Fault("clear") /\ UNCHANGED pending
     \/ ~Confirmed(s) /\ NoFault /\ UNCHANGED pending
  /\ exit' = IF s \in Counted THEN "failed" ELSE exit
  /\ UNCHANGED <<machine, lockVer>>
  /\ IF queue # {s}
     THEN queue' = queue \ {s} /\ UNCHANGED <<pc, inMemory, phase, probes>>
     ELSE EndRun

-----------------------------------------------------------------------------
(* Interruption: the process is killed, or the worker's job timeout and    *)
(* grace period run out.  A command it was running may have done any part  *)
(* of its work.  A lock write is atomic (temporary file and rename).       *)

Crash ==
  /\ pc # "idle"
  /\ Fault("crash")
  /\ \/ UNCHANGED machine
     \/ /\ pc = "upgrade"
        /\ \E a \in plan : \E done \in SUBSET a.cmd : Replace(done)
  /\ outcome' = NoDecision /\ exit' = "failed"
  /\ UNCHANGED lockFile
  /\ EndRun

-----------------------------------------------------------------------------
RunStep ==
  \/ \E a \in plan : UpgradeAction(a) \/ SkipElevation(a)
  \/ WriteLockSucceeds \/ WriteLockFails
  \/ DecideFromLock \/ DecideFromMemory
  \/ \E s \in Services :
       RecordPending(s) \/ Stop(s) \/ Start(s) \/ ProbePasses(s) \/ ProbeFails(s) \/ Clear(s)

Next ==
  \/ \E p \in Pkgs : Release(p)
  \/ \E m \in Modes, selected \in SUBSET Pkgs, keepAll \in SUBSET Managers :
       Begin(m, selected, keepAll)
  \/ Decline \/ HookFails
  \/ RunStep
  \/ Crash

Spec == Init /\ [][Next]_vars

\* A run that is not killed takes its next step: commands end, and a health
\* check is bounded by its timeout.
FairSpec == Spec /\ WF_vars(RunStep)

-----------------------------------------------------------------------------
(* Properties of the restart phase.                                        *)

\* main_service_restart.go:94 "Every in-flight record is written before anything
\* is stopped": a service goes down only with a record of every change that
\* called for it, or after its record failed to be written.
StopIsOnRecord ==
  [][\A s \in up \ up' : s \in unrecorded \/ {s} \X triggers[s] \subseteq pending]_vars

\* main_service_restart.go:105 "a cleared record means this really happened":
\* a record goes away only when its service runs, on the newest binaries, and is
\* not known to be unready -- however many runs were killed before this one.
ClearIsConfirmed ==
  [][\A pair \in pending \ pending' :
       /\ pair[1] \in up \ unready
       /\ \A p \in Pkgs : <<pair[1], p>> \notin stale]_vars

\* main_service_restart.go:98 "taking a database out from under a live client is
\* the failure this prevents": a service is stopped only after every service
\* restarted in this run that depends on it, directly or not.
StopsClientsFirst ==
  [][\A s \in up \ up' : \A t \in Services :
       (decision[t] = "restart" /\ s \in AllRequires(t)) => t \notin up \/ t \in errs]_vars

\* main_service_restart.go:100 "a service whose dependency did not come back is
\* not started at all": whatever a started service depends on, and this run acts
\* on, has come back.  (In the background the chain is followed only as far as
\* services the run may touch.)
StartsOverLiveDependencies ==
  [][\A s \in up' \ up :
       \A d \in IF mode \in Interactive THEN AllRequires(s) ELSE Requires[s] :
         Actionable(d) => d \in up \ errs]_vars

\* README.md:380 "restarts api only when postgres actually changed": a service is
\* taken down only if a package it watches differs from what the lock recorded
\* before the run.  Absent versions, no-op upgrades, failed commands and lost
\* lock writes never cause a restart.
NeverRestartsOnAGuess ==
  [][\A s \in up \ up' :
       \E p \in Watch[s] : before[p] # 0 /\ binary[p] # before[p]]_vars

\* SCHEMA.md:480 "never (default) leaves a stopped service stopped": the run
\* starts what it stopped, and otherwise only ifRunning services.
LeavesStoppedAlone ==
  [][\A s \in up' \ up : s \in IfRunning \/ decision[s] = "restart"]_vars

\* A service reported as restarted or started runs, and runs the new binaries
\* (SCHEMA.md:494), although its stop may have failed or its start been a no-op.
DoneIsFresh ==
  pc = "idle" => \A s \in Services :
    outcome[s] = "done" => s \in up /\ \A p \in Pkgs : <<s, p>> \notin stale

\* Every run comes to an end: no loop of the restart phase waits for ever, and
\* nothing in it waits for the mutex the run itself holds.
RunEnds == pc # "idle" ~> pc = "idle"

-----------------------------------------------------------------------------
(* Properties that relate the upgrade to the restarts.                     *)

\* main_updates_worker.go:169 "A package whose watching service cannot be
\* restarted and verified without a human is not upgraded at all": an unattended
\* run never replaces a package watched by a service whose health check it may
\* not run.
DeferredIsNotUpgraded ==
  [][\A p \in Pkgs : (binary'[p] # binary[p] /\ mode = "unattended") =>
       \A s \in Services : p \in Watch[s] => HealthCheck[s] # "interactive"]_vars

\* main_updates_worker.go:215 "Follow an unattended upgrade through to the
\* services that watch what it changed", changes.go:15 "treating that as nothing
\* changed leaves a service running against a swapped binary forever": a run that
\* ends says something about every service it left running on an old binary of a
\* package it upgraded from the version the lock knew.
FollowsThrough ==
  [][(pc # "idle" /\ pc' = "idle") =>
       \A s \in Services :
         (\E p \in upgraded : binary[p] # before[p] /\ <<s, p>> \in stale')
           => outcome'[s] # "none"]_vars

\* SCHEMA.md:499 "Restart or readiness failed | reported, exit non-zero, and the
\* pending record is kept": an interactive run that did not bring a service back
\* does not exit with success.
FailureExitsNonZero ==
  (pc = "idle" /\ mode \in Interactive /\ \E s \in Services : outcome[s] \in {"failed", "unready"})
    => exit = "failed"

-----------------------------------------------------------------------------
(* What the runs check together, as conjunctions of the above.             *)

\* What a run reports as done is done, in every well-formed state.
DoneIsTrue == TypeOK /\ DoneIsFresh

\* The pending record covers the whole time that a service may be down or on an
\* old binary: it is written before the stop and cleared after the confirmed start
\* (main_service_restart.go:163-196).
RecordSpansTheGap == StopIsOnRecord /\ ClearIsConfirmed

\* Stops go from clients to dependencies and starts the other way, and a
\* dependency that does not come back holds its clients back.
StopsAndStartsInOrder == StopsClientsFirst /\ StartsOverLiveDependencies

\* A service is stopped only for a binary seen to change, and started only if the
\* run stopped it or its policy says so.
RestartsForAReason == NeverRestartsOnAGuess /\ LeavesStoppedAlone

=============================================================================
