------------------------------ MODULE Reconcile ------------------------------
(***************************************************************************)
(* What `genv apply` decides, without doing any of it: the manager a       *)
(* package resolves to, the inventory to take, the plan that turns the     *)
(* locked packages into the declared ones, and the lock to write once the  *)
(* plan has been carried out (internal/resolver/resolver.go and            *)
(* writeLockAfterApply in main.go).                                        *)
(*                                                                         *)
(* A package's name under a manager is its id; a version constraint is the *)
(* set of versions it accepts.                                             *)
(***************************************************************************)
EXTENDS Naturals, Sequences, FiniteSets, Lists

CONSTANTS
    Ids,        \* package ids
    Managers,   \* package managers
    Versions,   \* versions a manager can install
    Registry,   \* the registered adapters, in registry order
    Fallback,   \* the adapters a package without hints may fall back to
    Listers,    \* the adapters whose inventory reports versions
    None        \* no manager, no version

ASSUME ReconcileAssumption ==
    /\ None \notin Managers /\ None \notin Versions
    /\ Registry \in Seq(Managers)
    /\ Fallback \subseteq Managers /\ Listers \subseteq Managers

Package == [prefer : Managers \cup {None}, offers : SUBSET Managers, accepts : SUBSET Versions]
Entry == [id : Ids, manager : Managers, version : Versions \cup {None}]
Machine == [Managers -> [Ids -> Versions \cup {None}]]

Registered == {Registry[i] : i \in DOMAIN Registry}
LockedIds(entries) == {entries[i].id : i \in DOMAIN entries}
Without(entries, id) == Keep(entries, {e \in Entry : e.id # id})

\* managedByID: of several entries with one id, the last.
LastEntry(entries, id) == entries[Max({i \in DOMAIN entries : entries[i].id = id})]

\* The first registered adapter of S; None: S has none.
FirstRegistered(S) ==
    LET at == {i \in DOMAIN Registry : Registry[i] \in S}
    IN  IF at = {} THEN None ELSE Registry[Min(at)]

\* The preferred manager, else the first registered one the package names,
\* else the first registered one that serves as a default; None: unresolved.
Resolve(pkg, available) ==
    IF pkg.prefer \in available THEN pkg.prefer
    ELSE IF FirstRegistered(available \cap pkg.offers) # None
         THEN FirstRegistered(available \cap pkg.offers)
         ELSE FirstRegistered(available \cap Fallback)

\* Only managers that an unlocked package of the spec could use are asked.
ManagersToList(desired, entries, available) ==
    (UNION {{desired[id].prefer, Resolve(desired[id], available)} \cup desired[id].offers :
                id \in DOMAIN desired \ LockedIds(entries)}) \ {None}

\* The inventory of the wanted managers that answered.
LiveSet(machine, wanted, answering) ==
    [m \in wanted \cap answering |-> {id \in Ids : machine[m][id] # None}]

IsLive(live, manager, id) == manager \in DOMAIN live /\ id \in live[manager]

Drifted(pkg, e) == e.version # None /\ e.version \notin pkg.accepts

MissingDespiteLock(e, live) ==
    e.version = None /\ e.manager \in DOMAIN live /\ e.id \notin live[e.manager]

Requeued(desired, e, live) == Drifted(desired[e.id], e) \/ MissingDespiteLock(e, live)

\* Mutant: everything that is not locked is installed.
AdoptableNothing(desired, entries, available, live) == {}

\* Declared, not locked, and already installed under the resolved manager.
Adoptable(desired, entries, available, live) ==
    {id \in DOMAIN desired \ LockedIds(entries) :
        IsLive(live, Resolve(desired[id], available), id)}

ToInstall(desired, entries, available, live) ==
    {id \in DOMAIN desired :
        IF id \in LockedIds(entries) THEN Requeued(desired, LastEntry(entries, id), live)
                                     ELSE id \notin Adoptable(desired, entries, available, live)}

ReconcileWith(desired, entries, available, live) ==
    LET adopted == Adoptable(desired, entries, available, live)
        queued == ToInstall(desired, entries, available, live)
        undeclared == {e \in Entry : e.id \notin DOMAIN desired}
        settled == {e \in Entry \ undeclared : ~Requeued(desired, e, live)}
        ours == {e \in Entry : e.manager \in Registered}
    IN  [ install   |-> [id \in queued |-> Resolve(desired[id], available)],
          remove    |-> Keep(entries, undeclared \cap ours),
          unchanged |-> Keep(entries, settled \cup (undeclared \ ours)),
          adopted   |-> SetToSeq({[id |-> id, manager |-> Resolve(desired[id], available),
                                   version |-> None] : id \in adopted}) ]

\* Mutant: the entry of a package that could not be uninstalled is dropped.
LockAfterApplyForgetful(entries, plan, installed, uninstalled) ==
    plan.unchanged \o plan.adopted \o installed

\* Mutant: an adopted package gets no entry.
LockAfterApplyUnadopted(entries, plan, installed, uninstalled) ==
    plan.unchanged \o installed
        \o Keep(plan.remove, {e \in Entry : e.id \notin uninstalled})

\* What did not happen keeps the entry its id had (the last, if it had several).
LockAfterApply(entries, plan, installed, uninstalled) ==
    LET missed == (DOMAIN plan.install \cap LockedIds(entries)) \ LockedIds(installed)
        left == Keep(plan.remove, {e \in Entry : e.id \notin uninstalled})
    IN  plan.unchanged \o plan.adopted \o installed
            \o SetToSeq({LastEntry(entries, id) : id \in missed})
            \o [i \in DOMAIN left |-> LastEntry(entries, left[i].id)]

\* Entries without a version take the one the inventory reports, if it does.
FillMissingInstalledVersions(entries, machine, answering) ==
    [i \in DOMAIN entries |->
        LET e == entries[i]
        IN  IF e.version = None /\ e.manager \in Listers \cap answering
            THEN [e EXCEPT !.version = machine[e.manager][e.id]] ELSE e]

=============================================================================
