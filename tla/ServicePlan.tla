---------------------------- MODULE ServicePlan ----------------------------
(***************************************************************************)
(* The order in which services are started: plan.Build and topoSort        *)
(* (internal/plan/plan.go), Kahn's algorithm over the declared `requires`  *)
(* lists with a sorted ready set.  Names are numbers, in the order in which*)
(* sort.Strings puts them.                                                 *)
(***************************************************************************)
EXTENDS Naturals, Sequences, FiniteSets

CONSTANTS
    Names,       \* service names
    Lists,       \* requires lists that a declaration may have
    Tombstone,   \* a service that is declared null on this target
    Undeclared   \* a service that is not declared

ASSUME NamesAssumption == Names \subseteq Nat /\ IsFiniteSet(Names)
ASSUME ListsAssumption ==
    Lists \subseteq Seq(Names) /\ Tombstone \notin Lists /\ Undeclared \notin Lists

VARIABLES
    services,    \* the composed services
    phase,       \* "build", "sort", or how Build returned: "planned", "refused", "cycle"
    remaining,   \* remaining[n]: requirements of n that are not yet ordered
    ready,       \* services with nothing remaining
    ordered,     \* the start order so far
    refusal      \* what Build refused: <<service, requirement>>, or the services blocked

planVars == <<services, phase, remaining, ready, ordered, refusal>>

LiveServices == {n \in Names : services[n] \notin {Tombstone, Undeclared}}

\* Where in n's list, and how often, dep is named; duplicates are kept.
Positions(n, dep) == {i \in DOMAIN services[n] : services[n][i] = dep}
Occurrences(n, dep) == Cardinality(Positions(n, dep))

PlanInit ==
    /\ services \in [Names -> Lists \cup {Tombstone, Undeclared}]
    /\ phase = "build"
    /\ remaining = [n \in LiveServices |-> 0] /\ ready = {} /\ ordered = <<>> /\ refusal = {}

\* The entries of n's list that are n itself, or no live service.
Faulty(n) == {i \in DOMAIN services[n] : services[n][i] = n \/ services[n][i] \notin LiveServices}

\* The first bad entry of the first service that has one is reported.
Refuse ==
    /\ phase = "build" /\ phase' = "refused"
    /\ \E n \in LiveServices :
         /\ \A m \in LiveServices : m < n => Faulty(m) = {}
         /\ \E i \in Faulty(n) : /\ \A j \in Faulty(n) : i <= j
                                 /\ refusal' = <<n, services[n][i]>>
    /\ UNCHANGED <<services, remaining, ready, ordered>>

\* Mutant: a requirement that is named twice is counted once.
InitialCountsDistinct ==
    [n \in LiveServices |-> Cardinality({services[n][i] : i \in DOMAIN services[n]})]

InitialCounts == [n \in LiveServices |-> Len(services[n])]

Edges ==
    /\ phase = "build" /\ phase' = "sort"
    /\ \A n \in LiveServices : Faulty(n) = {}
    /\ remaining' = InitialCounts
    /\ ready' = {n \in LiveServices : InitialCounts[n] = 0}
    /\ UNCHANGED <<services, ordered, refusal>>

\* Mutant: the ready list is not sorted again after services were freed.
FirstReadyAny(next) == next \in ready

\* ready[0] of the sorted ready list.
FirstReady(next) == next \in ready /\ \A n \in ready : next <= n

\* Mutant: a dependent is freed when one requirement is left.
FreedOneEarly(next, left) == {n \in LiveServices : Positions(n, next) # {} /\ left[n] = 1}

\* The dependents of next whose last requirement it was.
Freed(next, left) == {n \in LiveServices : Positions(n, next) # {} /\ left[n] = 0}

TakeReady ==
    /\ phase = "sort"
    /\ \E next \in ready :
         /\ FirstReady(next)
         /\ ordered' = Append(ordered, next)
         /\ remaining' = [n \in LiveServices |-> remaining[n] - Occurrences(n, next)]
         /\ ready' = (ready \ {next}) \cup Freed(next, remaining')
    /\ UNCHANGED <<services, phase, refusal>>

Finish ==
    /\ phase = "sort" /\ ready = {}
    /\ IF Len(ordered) = Cardinality(LiveServices)
       THEN phase' = "planned" /\ UNCHANGED refusal
       ELSE phase' = "cycle" /\ refusal' = {n \in LiveServices : remaining[n] > 0}
    /\ UNCHANGED <<services, remaining, ready, ordered>>

PlanNext == Refuse \/ Edges \/ TakeReady \/ Finish

PlanSpec == PlanInit /\ [][PlanNext]_planVars

(***************************************************************************)
(* Properties.                                                             *)
(***************************************************************************)
RequiredBy(n) == {services[n][i] : i \in DOMAIN services[n]}
Placed == {ordered[k] : k \in DOMAIN ordered}

\* No service is ready or placed twice, and no count goes below zero, also when
\* a requirement is named more than once.
PlanTypeOK ==
    /\ phase \in {"build", "sort", "planned", "refused", "cycle"}
    /\ remaining \in [LiveServices -> Nat]
    /\ ready \subseteq LiveServices /\ ordered \in Seq(LiveServices)
    /\ ready \cap Placed = {}
    /\ \A i, j \in DOMAIN ordered : ordered[i] = ordered[j] => i = j

\* plan.go:38, "Nodes are in start order: every dependency precedes its
\* dependents": a plan that is returned has every live service, and each after
\* all that it requires.
OrdersDependenciesFirst ==
    phase = "planned" =>
        /\ Placed = LiveServices
        /\ \A k \in DOMAIN ordered : \A dep \in RequiredBy(ordered[k]) :
              \E j \in 1..(k - 1) : ordered[j] = dep

\* The services that can never start: the largest set of which every member
\* requires a member, that is, a cycle and whatever depends on one.
SelfBlocking(S) == \A n \in S : RequiredBy(n) \cap S # {}
BlockedServices == UNION {S \in SUBSET LiveServices : SelfBlocking(S)}

\* plan.go:9, "Honest about cycles": a cycle is reported if and only if there is
\* one, and the report names exactly the services it blocks.
CycleIsReported ==
    /\ phase = "planned" => BlockedServices = {}
    /\ phase = "cycle" => refusal = BlockedServices /\ BlockedServices # {}

\* plan.go:7, "Deterministic": of all orders that respect the requirements the
\* plan is the first in the order of names, whatever order the maps had.
Permutation(s) == Cardinality({s[k] : k \in DOMAIN s}) = Cardinality(LiveServices)
Respects(s) ==
    \A k \in DOMAIN s : \A dep \in RequiredBy(s[k]) : \E j \in 1..(k - 1) : s[j] = dep
Precedes(s, t) ==
    s = t \/ \E k \in DOMAIN s : s[k] < t[k] /\ \A j \in 1..(k - 1) : s[j] = t[j]
FirstOfAllOrders ==
    phase = "planned" =>
        \A s \in {t \in [1..Cardinality(LiveServices) -> LiveServices] : Permutation(t)} :
            Respects(s) => Precedes(ordered, s)

\* VIOLATED.  plan.go:61, "A service that requires a tombstoned name is not an
\* error here": Build refuses no service for requiring a tombstone.
TombstoneIsNoError ==
    phase = "refused" => services[refusal[2]] # Tombstone

=============================================================================
