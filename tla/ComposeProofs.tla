---------------------------- MODULE ComposeProofs ----------------------------
(***************************************************************************)
(* From the documents to the start order: what a composition selects, what *)
(* it is the union of and that a validated one cannot fail (Compose), and  *)
(* the plan of the services composed (ServicePlan), for any repository,    *)
(* any requires graph and any set of services.                             *)
(*                                                                         *)
(* The search of Select.  The closure of a selection is the least set of   *)
(* modules that holds the selection and what its members require, so it is *)
(* enough to know of every such set that the search stays within it        *)
(* (Within), and of what is selected in the end that it is one (Covered    *)
(* and DependenciesFirst).  That a module is placed only after all that it *)
(* requires is due to the stack being a chain of requirements (Chained),   *)
(* which is also what makes a reported cycle real.                         *)
(***************************************************************************)
EXTENDS Compose, ServicePlan, ListTheorems, FiniteSetTheorems, SequenceTheorems, TLAPS

\* A name of its own keeps STRING, which the provers treat as a sort, a set.
Words == STRING

Selection == ToSet(BundleSelections(target))

\* The sets of registered modules that the closure is the least of.
ClosedSets == {S \in SUBSET Registered : Selection \subseteq S /\ ClosedUnder(S)}

Typed ==
    /\ tree \in Trees
    /\ roots \in Seq(Words) /\ stack \in Seq([name : Registered, next : Nat \ {0}])
    /\ pc \in {"load", "loadAll"} => queue \in Seq(Words)
    /\ pc = "union" => queue \in Seq({""} \cup Registered)
    /\ "err" \in DOMAIN acc /\ acc.err = ""
    /\ mode = "apply" => pc # "loadAll"

\* The stack is a chain of requirements: what a frame has passed is selected,
\* but for the one that the next frame is visiting.
Chained ==
    /\ \A i \in DOMAIN stack : \A p \in 1..(stack[i].next - 1) :
           /\ p \in DOMAIN Requires(stack[i].name)
           /\ \/ Requires(stack[i].name)[p] \in ToSet(selected)
              \/ i < Len(stack) /\ p = stack[i].next - 1
    /\ \A i \in 1..(Len(stack) - 1) :
           stack[i].next > 1 /\ stack[i + 1].name = Requires(stack[i].name)[stack[i].next - 1]

\* Every selection is done, being visited, or still to come.
Covered ==
    /\ ToSet(roots) \subseteq Selection
    /\ pc \in {"load", "select", "union"} =>
           \A n \in Selection : \/ n \in ToSet(selected) \cup ToSet(roots)
                                \/ stack # <<>> /\ n = stack[1].name
    /\ pc = "union" => stack = <<>> /\ roots = <<>>
    /\ pc = "flat" => Registered = {}
    /\ pc = "composed" => Registered = {} \/ Selection \subseteq ToSet(selected)

\* Nothing outside any closed set is read, visited or selected.
Within ==
    \A S \in ClosedSets :
        /\ OnStack \subseteq S /\ ToSet(selected) \subseteq S
        /\ mode = "apply" => docs \subseteq S
        /\ mode = "apply" /\ pc = "load" => ToSet(queue) \subseteq S

Cyclic == error = "cycle" => \E S \in SUBSET Closure : Circular(S)

SelectInv == TypeOK /\ Typed /\ Chained /\ Covered /\ Within /\ DependenciesFirst /\ Cyclic

-----------------------------------------------------------------------------
(* Lemmas.                                                                 *)

\* What the assumption says of the repository at hand.
LEMMA RepositoryAtHand ==
    ASSUME tree \in Trees
    PROVE  /\ IsFiniteSet(Registered) /\ Registered \subseteq Words
           /\ \A n \in Registered : File(n).bytes \in Nat /\ Requires(n) \in Seq(Words)
           /\ IsDocument(tree.root) /\ IsBundle(tree.nothing)
           /\ \A n \in Registered : IsDocument(File(n))
<1>1. IsRepository(tree)
  BY TreesAssumption
<1> QED BY <1>1 DEF Words, IsRepository, Registered, File, Requires

LEMMA BundleTyped ==
    ASSUME tree \in Trees, NEW doc, IsDocument(doc), NEW t
    PROVE  /\ IsBundle(doc.defaults) /\ IsBundle(BundleOf(doc, t))
           /\ doc.defaults.use \in Seq(Words) /\ BundleOf(doc, t).use \in Seq(Words)
<1>1. IsBundle(doc.defaults) /\ IsBundle(BundleOf(doc, t))
  BY RepositoryAtHand DEF IsDocument, BundleOf
<1> QED BY <1>1 DEF IsBundle, Words

\* The selections of a target are a list of names.
LEMMA SelectionsTyped ==
    ASSUME tree \in Trees, NEW t
    PROVE  BundleSelections(t) \in Seq(Words)
<1> DEFINE both == tree.root.defaults.use \o BundleOf(tree.root, t).use
<1>1. tree.root.defaults.use \in Seq(Words) /\ BundleOf(tree.root, t).use \in Seq(Words)
  BY RepositoryAtHand, BundleTyped
<1>2. both \in Seq(Words)
  BY <1>1, ConcatProperties
<1>3. BundleSelections(t) = Distinct(both)
  BY DEF BundleSelections
<1> HIDE DEF both
<1> QED BY <1>2, <1>3, DistinctLemma

\* What a state says of the repository does not change while it stays.
LEMMA SameTree ==
    ASSUME tree' = tree
    PROVE  /\ Registered' = Registered
           /\ \A n : File(n)' = File(n) /\ Requires(n)' = Requires(n)
           /\ \A t : BundleSelections(t)' = BundleSelections(t)
           /\ \A S : ClosedUnder(S)' = ClosedUnder(S)
           /\ \A S : Circular(S)' = Circular(S)
BY DEF Registered, File, Requires, BundleSelections, ClosedUnder, Circular, BundleOf

LEMMA SameTarget ==
    ASSUME tree' = tree, target' = target
    PROVE  Selection' = Selection /\ ClosedSets' = ClosedSets /\ Closure' = Closure
<1>1. Registered' = Registered /\ BundleSelections(target)' = BundleSelections(target)
  BY DEF Registered, BundleSelections, BundleOf
<1>2. \A S : ClosedUnder(S)' = ClosedUnder(S)
  BY SameTree
<1> QED BY <1>1, <1>2 DEF Selection, ClosedSets, Closure

\* The closure is the least of the closed sets, if there is any.
LEMMA ClosureIsLeast ==
    /\ Closure = {n \in Registered : \A S \in ClosedSets : n \in S}
    /\ \A S \in ClosedSets : Closure \subseteq S
BY DEF Closure, ClosedSets, Selection

\* Nothing is stacked and nothing is selected where a resolution starts.
LEMMA NothingYet ==
    ASSUME stack = <<>>, selected = <<>>
    PROVE  /\ Chained /\ DependenciesFirst /\ OnStack = {} /\ ToSet(selected) = {}
           /\ stack \in Seq([name : Registered, next : Nat \ {0}])
           /\ selected \in Seq(Registered) /\ ~Dups(selected)
           /\ \A i, j \in DOMAIN stack : stack[i].name = stack[j].name => i = j
<1>1. DOMAIN stack = {} /\ DOMAIN selected = {} /\ Len(stack) = 0
  OBVIOUS
<1>2. 1..(Len(stack) - 1) = {}
  BY <1>1
<1>3. ToSet(selected) = {} /\ OnStack = {}
  BY <1>1 DEF ToSet, OnStack
<1> QED BY <1>1, <1>2, <1>3 DEF Chained, DependenciesFirst, Dups

LEMMA NothingYetNext ==
    ASSUME stack' = <<>>, selected' = <<>>
    PROVE  /\ Chained' /\ DependenciesFirst' /\ OnStack' = {} /\ ToSet(selected)' = {}
           /\ stack' \in Seq([name : Registered', next : Nat \ {0}])
           /\ selected' \in Seq(Registered') /\ ~Dups(selected)'
           /\ (\A i, j \in DOMAIN stack : stack[i].name = stack[j].name => i = j)'
<1>1. DOMAIN stack' = {} /\ DOMAIN selected' = {} /\ Len(stack') = 0
  OBVIOUS
<1>2. 1..(Len(stack') - 1) = {}
  BY <1>1
<1>3. ToSet(selected)' = {} /\ OnStack' = {}
  BY <1>1 DEF ToSet, OnStack
<1> QED BY <1>1, <1>2, <1>3 DEF Chained, DependenciesFirst, Dups

(***************************************************************************)
(* The accumulator: whatever is added, it can tell whether it refused.     *)
(***************************************************************************)
Accumulates(a) == "err" \in DOMAIN a /\ a.err \in {"", "claimed", "conflict"}

LEMMA TakeAccumulates ==
    ASSUME NEW a, NEW kind, NEW d, NEW c, Accumulates(a)
    PROVE  Accumulates(Take(a, kind, d, c))
<1> DEFINE claim == Claim(kind, d)
           id == Identity(kind, d)
<1>1. CASE a.err # ""
  BY <1>1 DEF Take
<1>2. CASE a.err = "" /\ claim.at \in DOMAIN a.dest /\ a.dest[claim.at] # claim.as
  <2>1. Take(a, kind, d, c) = [a EXCEPT !.err = "claimed"]
    BY <1>2 DEF Take
  <2> QED BY <2>1 DEF Accumulates
<1>3. CASE a.err = "" /\ ~(claim.at \in DOMAIN a.dest /\ a.dest[claim.at] # claim.as)
  <2>1. CASE id \in DOMAIN a.decl
    BY <1>3, <2>1 DEF Take, Accumulates
  <2>2. CASE id \notin DOMAIN a.decl
    BY <1>3, <2>2 DEF Take, Accumulates
  <2> QED BY <2>1, <2>2
<1> QED BY <1>1, <1>2, <1>3

\* TakeAll takes one declaration after another.
TakenFrom(taken, a, kind, items, c) ==
    /\ taken[0] = a
    /\ \A i \in 1..Len(items) : taken[i] = Take(taken[i - 1], kind, items[i], c)

LEMMA TakeAllDef ==
    ASSUME NEW a, NEW kind, NEW items, NEW c, Len(items) \in Nat
    PROVE  \E taken : /\ TakenFrom(taken, a, kind, items, c)
                      /\ TakeAll(a, kind, items, c) = taken[Len(items)]
<1> DEFINE n == Len(items)
           F(k) == [i \in 0..n |-> IF i = 0 THEN a ELSE Take(k[i - 1], kind, items[i], c)]
           Good == {m \in Nat : m <= n => \E g : /\ DOMAIN g = 0..m /\ g[0] = a
                                                 /\ \A i \in 1..m : g[i] = Take(g[i - 1], kind, items[i], c)}
<1>1. 0 \in Good
  <2> DEFINE h == [i \in 0..0 |-> a]
  <2>1. DOMAIN h = 0..0 /\ h[0] = a /\ \A i \in 1..0 : h[i] = Take(h[i - 1], kind, items[i], c)
    OBVIOUS
  <2> HIDE DEF h
  <2> QED BY <2>1
<1>2. ASSUME NEW m \in Nat, m \in Good PROVE m + 1 \in Good
  <2> SUFFICES ASSUME m + 1 <= n
               PROVE  \E g : /\ DOMAIN g = 0..(m + 1) /\ g[0] = a
                             /\ \A i \in 1..(m + 1) : g[i] = Take(g[i - 1], kind, items[i], c)
    OBVIOUS
  <2>1. PICK g : /\ DOMAIN g = 0..m /\ g[0] = a
                 /\ \A i \in 1..m : g[i] = Take(g[i - 1], kind, items[i], c)
    BY <1>2
  <2> DEFINE h == [i \in 0..(m + 1) |->
                      IF i = m + 1 THEN Take(g[m], kind, items[m + 1], c) ELSE g[i]]
  <2>2. DOMAIN h = 0..(m + 1) /\ h[0] = a
    BY <2>1
  <2>3. ASSUME NEW i \in 1..(m + 1) PROVE h[i] = Take(h[i - 1], kind, items[i], c)
    <3>1. i - 1 \in 0..(m + 1) /\ i \in 0..(m + 1) /\ i - 1 # m + 1
      OBVIOUS
    <3>2. h[i - 1] = g[i - 1]
      BY <3>1
    <3>3. CASE i = m + 1
      BY <3>1, <3>2, <3>3
    <3>4. CASE i # m + 1
      <4>1. i \in 1..m /\ h[i] = g[i]
        BY <3>1, <3>4
      <4> QED BY <2>1, <3>2, <4>1
    <3> QED BY <3>3, <3>4
  <2> HIDE DEF h
  <2> QED BY <2>2, <2>3
<1>3. n \in Good
  <2> HIDE DEF Good
  <2> QED BY <1>1, <1>2, SetInduction
<1>4. PICK g : /\ DOMAIN g = 0..n /\ g[0] = a
               /\ \A i \in 1..n : g[i] = Take(g[i - 1], kind, items[i], c)
  BY <1>3
<1> DEFINE h == [i \in 0..n |-> g[i]]
<1>5. h = F(h)
  <2>1. ASSUME NEW i \in 1..n PROVE i - 1 \in 0..n /\ i \in 0..n /\ i # 0
    OBVIOUS
  <2>2. ASSUME NEW i \in 0..n
        PROVE  h[i] = IF i = 0 THEN a ELSE Take(h[i - 1], kind, items[i], c)
    <3>1. CASE i = 0
      BY <1>4, <3>1
    <3>2. CASE i # 0
      <4>1. i \in 1..n
        BY <3>2
      <4>2. h[i] = g[i] /\ h[i - 1] = g[i - 1]
        BY <2>1, <4>1
      <4> QED BY <1>4, <3>2, <4>1, <4>2
    <3> QED BY <3>1, <3>2
  <2>3. DOMAIN h = 0..n /\ h = [i \in 0..n |-> h[i]]
    OBVIOUS
  <2> HIDE DEF h
  <2> QED BY <2>2, <2>3
<1> DEFINE taken == CHOOSE k : k = F(k)
<1>6. taken = F(taken)
  <2> HIDE DEF F, h
  <2> QED BY <1>5
<1>7. TakeAll(a, kind, items, c) = taken[n]
  BY DEF TakeAll
<1>8. taken[0] = a /\ \A i \in 1..n : taken[i] = Take(taken[i - 1], kind, items[i], c)
  <2> HIDE DEF taken
  <2>1. \A i \in 0..n : taken[i] = F(taken)[i]
    BY <1>6
  <2>2. \A i \in 1..n : i \in 0..n /\ i # 0
    OBVIOUS
  <2> QED BY <2>1, <2>2
<1> HIDE DEF taken
<1> QED BY <1>7, <1>8 DEF TakenFrom

LEMMA TakeAllAccumulates ==
    ASSUME NEW a, NEW kind, NEW items, NEW c, Len(items) \in Nat, Accumulates(a)
    PROVE  Accumulates(TakeAll(a, kind, items, c))
<1>0. PICK taken : /\ TakenFrom(taken, a, kind, items, c)
                   /\ TakeAll(a, kind, items, c) = taken[Len(items)]
  BY TakeAllDef
<1>1. /\ taken[0] = a
      /\ \A i \in 1..Len(items) : taken[i] = Take(taken[i - 1], kind, items[i], c)
      /\ TakeAll(a, kind, items, c) = taken[Len(items)]
  BY <1>0 DEF TakenFrom
<1> DEFINE Good == {m \in Nat : m <= Len(items) => Accumulates(taken[m])}
<1>2. 0 \in Good
  BY <1>1
<1>3. ASSUME NEW m \in Nat, m \in Good PROVE m + 1 \in Good
  <2> SUFFICES ASSUME m + 1 <= Len(items) PROVE Accumulates(taken[m + 1])
    OBVIOUS
  <2>1. m + 1 \in 1..Len(items) /\ (m + 1) - 1 = m /\ Accumulates(taken[m])
    BY <1>3
  <2> QED BY <1>1, <2>1, TakeAccumulates
<1>4. Len(items) \in Good
  <2> HIDE DEF Good
  <2> QED BY <1>2, <1>3, SetInduction
<1> QED BY <1>1, <1>4

LEMMA BlocksNamed == {"package", "link", "template", "dir", "source", "hook"} = ToSet(Blocks)
<1>1. /\ Blocks[1] = "package" /\ Blocks[2] = "link" /\ Blocks[3] = "template"
      /\ Blocks[4] = "dir" /\ Blocks[5] = "source" /\ Blocks[6] = "hook"
  BY DEF Blocks
<1>2. DOMAIN Blocks = 1..6
  BY DEF Blocks
<1>3. 1..6 = {1, 2, 3, 4, 5, 6}
  OBVIOUS
<1>4. DOMAIN Blocks = {1, 2, 3, 4, 5, 6}
  BY <1>2, <1>3
<1> QED BY <1>1, <1>4 DEF ToSet

\* Every list of a bundle is a list of declarations.
LEMMA ListsTyped ==
    ASSUME NEW b, IsBundle(b), NEW k \in ToSet(Blocks)
    PROVE  b.lists[k].items \in Seq(Declarations)
BY DEF IsBundle

\* What a contributor says for a target is lists of declarations, and finitely
\* many entries.
LEMMA ContributorTyped ==
    ASSUME tree \in Trees, NEW c, c = "" \/ c \in Registered
    PROVE  /\ \A k \in ToSet(Blocks) : Bundle(c).lists[k] \in Seq(Declarations)
           /\ \A kind : Len(NamedItems(Bundle(c), kind)) \in Nat
<1> DEFINE d == Doc(c).defaults
           t == BundleOf(Doc(c), target)
           named == Bundle(c).named
<1>1. IsBundle(d) /\ IsBundle(t)
  <2>1. IsDocument(Doc(c))
    BY RepositoryAtHand DEF Doc
  <2> QED BY <2>1, BundleTyped
<1>2. ASSUME NEW k \in ToSet(Blocks) PROVE Bundle(c).lists[k] \in Seq(Declarations)
  <2>1. Bundle(c).lists[k] = MergeList(d.lists[k], t.lists[k])
    BY DEF Bundle, MergeBundle
  <2> QED BY <1>1, <2>1, ListsTyped DEF MergeList
<1>3. IsFiniteSet(DOMAIN named)
  <2>1. DOMAIN named \subseteq DOMAIN d.named \cup DOMAIN t.named
    BY DEF Bundle, MergeBundle, MergeEntries
  <2>2. IsFiniteSet(DOMAIN d.named) /\ IsFiniteSet(DOMAIN t.named)
    BY <1>1 DEF IsBundle
  <2> QED BY <2>1, <2>2, FS_Union, FS_Subset
<1>4. ASSUME NEW kind PROVE Len(NamedItems(Bundle(c), kind)) \in Nat
  <2> DEFINE K == {j \in DOMAIN named : j[1] = kind}
             I == {named[k] : k \in K}
  <2>1. IsFiniteSet(K)
    BY <1>3, FS_Subset
  <2>2. IsFiniteSet(I)
    <3> DEFINE f == [k \in K |-> named[k]]
    <3> HIDE DEF K, named
    <3>1. f \in Surjection(K, I)
      BY DEF Surjection
    <3> HIDE DEF f, I
    <3> QED BY <2>1, <3>1, FS_Surjection
  <2>3. SetToSeq(I) \in Seq(I)
    <3> HIDE DEF I
    <3> QED BY <2>2, SetToSeqLemma
  <2>4. NamedItems(Bundle(c), kind) = SetToSeq(I)
    BY DEF NamedItems
  <2> HIDE DEF I
  <2> QED BY <2>3, <2>4, LenProperties
<1> QED BY <1>2, <1>4

\* Whatever a contributor adds, the accumulator can tell whether it was refused.
LEMMA AddAccumulates ==
    ASSUME tree \in Trees, NEW a, NEW c, Accumulates(a), c = "" \/ c \in Registered
    PROVE  Accumulates(Add(a, c))
<1> DEFINE b == Bundle(c)
           packages == TakeAll(a, "package", b.lists["package"], c)
           serviced == TakeAll(packages, "service", NamedItems(b, "service"), c)
           env == TakeAll(serviced, "env", NamedItems(b, "env"), c)
           shell == IF env.err # "" THEN env
                    ELSE [env EXCEPT !.sources = Sources(@, b.lists["source"])]
           aliases == TakeAll(shell, "alias", NamedItems(b, "alias"), c)
           links == TakeAll(aliases, "link", b.lists["link"], c)
           templates == TakeAll(links, "template", b.lists["template"], c)
           dirs == TakeAll(templates, "dir", b.lists["dir"], c)
<1>1. \A k \in ToSet(Blocks) : Len(b.lists[k]) \in Nat
  BY ContributorTyped, LenProperties
<1>2. {"package", "link", "template", "dir"} \subseteq ToSet(Blocks)
  BY BlocksNamed
<1>3. \A kind : Len(NamedItems(b, kind)) \in Nat
  BY ContributorTyped
<1>4. Add(a, c) = IF dirs.err # "" THEN dirs ELSE Hooks(dirs, b.lists["hook"], c)
  BY DEF Add
<1> HIDE DEF b
<1>5. Accumulates(packages)
  BY <1>1, <1>2, TakeAllAccumulates
<1>6. Accumulates(serviced)
  <2> HIDE DEF packages
  <2> QED BY <1>3, <1>5, TakeAllAccumulates
<1>7. Accumulates(env)
  <2> HIDE DEF serviced
  <2> QED BY <1>3, <1>6, TakeAllAccumulates
<1>8. Accumulates(shell)
  <2> HIDE DEF env
  <2> QED BY <1>7 DEF Accumulates
<1>9. Accumulates(aliases)
  <2> HIDE DEF shell
  <2> QED BY <1>3, <1>8, TakeAllAccumulates
<1>10. Accumulates(links)
  <2> HIDE DEF aliases
  <2> QED BY <1>1, <1>2, <1>9, TakeAllAccumulates
<1>11. Accumulates(templates)
  <2> HIDE DEF links
  <2> QED BY <1>1, <1>2, <1>10, TakeAllAccumulates
<1>12. Accumulates(dirs)
  <2> HIDE DEF templates
  <2> QED BY <1>1, <1>2, <1>11, TakeAllAccumulates
<1> HIDE DEF dirs
<1> QED BY <1>4, <1>12 DEF Accumulates, Hooks

-----------------------------------------------------------------------------
(* Steps that leave the search alone.                                      *)

LEMMA SearchStays ==
    ASSUME SelectInv, UNCHANGED <<tree, target, roots, stack, selected>>
    PROVE  /\ Chained' /\ DependenciesFirst' /\ OnStack' = OnStack
           /\ Registered' = Registered /\ Selection' = Selection
           /\ ClosedSets' = ClosedSets /\ Closure' = Closure
           /\ \A S : Circular(S)' = Circular(S)
<1>1. /\ Registered' = Registered /\ \A n : Requires(n)' = Requires(n)
      /\ \A S : Circular(S)' = Circular(S)
  BY SameTree
<1>2. Chained'
  BY <1>1 DEF SelectInv, Chained
<1>3. DependenciesFirst'
  BY <1>1 DEF SelectInv, DependenciesFirst
<1>4. OnStack' = OnStack
  BY DEF OnStack
<1> QED BY <1>1, <1>2, <1>3, <1>4, SameTarget

\* Resolve ends in an error.
LEMMA FailKeeps ==
    ASSUME SelectInv, NEW why \in Errors \ {""}, Fail(why),
           why = "cycle" => \E S \in SUBSET Closure : Circular(S),
           UNCHANGED <<tree, mode, target, docs, bytes, queue, roots, stack, selected, acc>>
    PROVE  SelectInv'
<1>1. /\ Chained' /\ DependenciesFirst' /\ OnStack' = OnStack /\ Registered' = Registered
      /\ Selection' = Selection /\ ClosedSets' = ClosedSets /\ Closure' = Closure
      /\ \A S : Circular(S)' = Circular(S)
  BY SearchStays
<1>2. TypeOK'
  BY <1>1 DEF SelectInv, TypeOK, Fail, Steps
<1>3. Typed'
  BY <1>1 DEF SelectInv, Typed, Fail
<1>4. Covered'
  BY <1>1 DEF SelectInv, Covered, Fail
<1>5. Within'
  BY <1>1 DEF SelectInv, Within, Fail
<1>6. Cyclic'
  BY <1>1 DEF Cyclic, Fail
<1> QED BY <1>1, <1>2, <1>3, <1>4, <1>5, <1>6 DEF SelectInv

\* Resolve goes on, and the search is over.
LEMMA MoveKeeps ==
    ASSUME SelectInv, UNCHANGED <<tree, mode, target, docs, bytes, roots, stack, selected, error>>,
           pc # "failed", pc' \in Steps \ {"failed", "load", "loadAll"},
           verdict' \in {"none", "accepted", "refused"},
           pc' = "union" => queue' \in Seq({""} \cup Registered),
           "err" \in DOMAIN acc', acc'.err = "",
           Covered'
    PROVE  SelectInv'
<1>1. /\ Chained' /\ DependenciesFirst' /\ OnStack' = OnStack /\ Registered' = Registered
      /\ Selection' = Selection /\ ClosedSets' = ClosedSets /\ Closure' = Closure
      /\ \A S : Circular(S)' = Circular(S)
  BY SearchStays
<1>2. TypeOK'
  BY <1>1 DEF SelectInv, TypeOK
<1>3. Typed'
  BY <1>1 DEF SelectInv, Typed
<1>4. Within'
  BY <1>1 DEF SelectInv, Within
<1>5. Cyclic'
  BY <1>1 DEF SelectInv, Cyclic
<1> QED BY <1>1, <1>2, <1>3, <1>4, <1>5 DEF SelectInv

\* Resolve begins: the selections of the target are all that is asked for.
LEMMA StartKeeps ==
    ASSUME SelectInv, NEW t, StartResolve(t), pc # "failed",
           UNCHANGED <<tree, mode, error>>, verdict' = verdict
    PROVE  SelectInv'
<1>1. /\ Registered' = Registered /\ BundleSelections(t)' = BundleSelections(t)
      /\ Selection' = ToSet(BundleSelections(t))
  BY SameTree DEF StartResolve, Selection
<1>2. BundleSelections(t) \in Seq(Words) /\ tree \in Trees /\ error = "" /\ 0 \in 0..MaxBytes
  <2>1. tree \in Trees /\ error = ""
    BY DEF SelectInv, Typed, TypeOK
  <2>2. MaxBytes \in Nat
    BY LimitsAssumption
  <2>3. 0 \in 0..MaxBytes
    BY <2>2
  <2>4. BundleSelections(t) \in Seq(Words)
    BY <2>1, SelectionsTyped
  <2> QED BY <2>1, <2>3, <2>4
<1>3. /\ Chained' /\ DependenciesFirst' /\ OnStack' = {} /\ ToSet(selected)' = {}
      /\ stack' \in Seq([name : Registered', next : Nat \ {0}])
      /\ selected' \in Seq(Registered') /\ ~Dups(selected)'
      /\ (\A i, j \in DOMAIN stack : stack[i].name = stack[j].name => i = j)'
  BY NothingYetNext DEF StartResolve
<1>4. TypeOK'
  BY <1>1, <1>2, <1>3 DEF SelectInv, TypeOK, StartResolve, Steps
<1>5. Typed'
  BY <1>1, <1>2, <1>3, EmptySeq DEF SelectInv, Typed, StartResolve, EmptyAccumulator
<1>6. Covered'
  <2>1. roots' = <<>> \/ roots' = BundleSelections(t)
    BY DEF StartResolve
  <2>2. ToSet(roots)' \subseteq Selection'
    BY <1>1, <2>1 DEF ToSet
  <2>3. CASE HasModules
    <3>1. pc' = "load" /\ roots' = BundleSelections(t)
      BY <2>3 DEF StartResolve
    <3>2. Selection' = ToSet(roots)'
      BY <1>1, <3>1 DEF ToSet
    <3> QED BY <2>2, <3>1, <3>2 DEF Covered
  <2>4. CASE ~HasModules
    <3>1. pc' = "flat" /\ Registered = {}
      BY <2>4 DEF StartResolve, HasModules
    <3> QED BY <1>1, <2>2, <3>1 DEF Covered
  <2> QED BY <2>3, <2>4
<1>7. Within'
  BY <1>1, <1>3 DEF StartResolve, Within, ClosedSets, ToSet
<1>8. Cyclic'
  BY <1>2 DEF Cyclic
<1> QED BY <1>3, <1>4, <1>5, <1>6, <1>7, <1>8 DEF SelectInv

-----------------------------------------------------------------------------
(* Reading and loading.                                                    *)

LEMMA InitSelectInv == Init => SelectInv
<1> SUFFICES ASSUME Init PROVE SelectInv
  OBVIOUS
<1>1. /\ Chained /\ DependenciesFirst /\ OnStack = {} /\ ToSet(selected) = {}
      /\ stack \in Seq([name : Registered, next : Nat \ {0}])
      /\ selected \in Seq(Registered) /\ ~Dups(selected)
      /\ \A i, j \in DOMAIN stack : stack[i].name = stack[j].name => i = j
  BY NothingYet DEF Init
<1>2. 0 \in 0..MaxBytes
  <2>1. MaxBytes \in Nat
    BY LimitsAssumption
  <2> QED BY <2>1
<1>3. TypeOK
  BY <1>1, <1>2, ModesAssumption DEF Init, TypeOK, Steps, Errors
<1>4. Typed
  BY <1>1, EmptySeq DEF Init, Typed, EmptyAccumulator
<1>5. Covered
  <2>1. roots = <<>> /\ pc = "read"
    BY DEF Init
  <2>2. ToSet(roots) = {}
    BY <2>1 DEF ToSet
  <2> QED BY <2>1, <2>2 DEF Covered
<1>6. Within
  BY <1>1 DEF Init, Within
<1> QED BY <1>1, <1>3, <1>4, <1>5, <1>6 DEF Init, SelectInv, Cyclic

LEMMA ReadRefusedKeeps == ASSUME SelectInv, ReadRefused PROVE SelectInv'
<1>1. PICK why \in Errors \ {"", "cycle"} : Fail(why)
  BY DEF ReadRefused, Errors
<1> QED BY <1>1, FailKeeps DEF ReadRefused, Resolving

LEMMA ReadForApplyKeeps == ASSUME SelectInv, ReadForApply PROVE SelectInv'
<1>1. StartResolve(tree.active) /\ pc # "failed"
      /\ UNCHANGED <<tree, mode, error>> /\ verdict' = verdict
  BY DEF ReadForApply
<1> QED BY <1>1, StartKeeps

\* A list of every registered name.
LEMMA AllRegistered ==
    ASSUME tree \in Trees
    PROVE  SetToSeq(Registered) \in Seq(Words) /\ ToSet(SetToSeq(Registered)) = Registered
<1>1. SetToSeq(Registered) \in Seq(Registered) /\ ToSet(SetToSeq(Registered)) = Registered
  BY RepositoryAtHand, SetToSeqLemma
<1> QED BY <1>1, RepositoryAtHand, SeqMonotonic

LEMMA ReadForValidateKeeps == ASSUME SelectInv, ReadForValidate PROVE SelectInv'
<1>1. CASE Registered = {}
  <2>1. /\ UNCHANGED <<tree, mode, target, docs, bytes, roots, stack, selected, error, acc>>
        /\ pc = "read" /\ pc' = "accepted" /\ verdict' = "accepted"
    BY <1>1 DEF ReadForValidate, Resolving
  <2>2. Covered'
    <3>1. Selection' = Selection
      BY <2>1, SameTarget
    <3> QED BY <2>1, <3>1 DEF SelectInv, Covered
  <2> QED BY <2>1, <2>2, MoveKeeps DEF Steps, SelectInv, Typed
<1>2. CASE Registered # {}
  <2>1. /\ UNCHANGED <<tree, mode, target, roots, stack, selected, error, acc, verdict>>
        /\ pc = "read" /\ pc' = "loadAll" /\ mode = "validate"
        /\ queue' = SetToSeq(Registered) /\ docs' = {} /\ bytes' = 0
    BY <1>2 DEF ReadForValidate
  <2>2. /\ Chained' /\ DependenciesFirst' /\ OnStack' = OnStack /\ Registered' = Registered
        /\ Selection' = Selection /\ ClosedSets' = ClosedSets /\ Closure' = Closure
    BY <2>1, SearchStays
  <2>3. 0 \in 0..MaxBytes /\ tree \in Trees
    <3>1. MaxBytes \in Nat
      BY LimitsAssumption
    <3>2. tree \in Trees
      BY DEF SelectInv, Typed
    <3>3. 0 \in 0..MaxBytes
      BY <3>1
    <3> QED BY <3>2, <3>3
  <2>4. TypeOK'
    BY <2>1, <2>2, <2>3 DEF SelectInv, TypeOK, Steps
  <2>5. Typed'
    BY <2>1, <2>2, <2>3, AllRegistered DEF SelectInv, Typed
  <2>6. Covered'
    BY <2>1, <2>2 DEF SelectInv, Covered
  <2>7. Within'
    BY <2>1, <2>2 DEF SelectInv, Within
  <2>8. Cyclic'
    BY <2>1 DEF SelectInv, TypeOK, Cyclic
  <2> QED BY <2>2, <2>4, <2>5, <2>6, <2>7, <2>8 DEF SelectInv
<1> QED BY <1>1, <1>2

\* A step of loadClosure.
LEMMA LoadKeeps ==
    ASSUME SelectInv, pc \in {"load", "loadAll"},
           UNCHANGED <<tree, mode, pc, target, roots, stack, selected, acc, error, verdict>>,
           queue' \in Seq(Words), docs' \subseteq Registered, bytes' \in 0..MaxBytes,
           \A S \in ClosedSets : mode = "apply" => docs' \subseteq S /\ ToSet(queue') \subseteq S
    PROVE  SelectInv'
<1>1. /\ Chained' /\ DependenciesFirst' /\ OnStack' = OnStack /\ Registered' = Registered
      /\ Selection' = Selection /\ ClosedSets' = ClosedSets /\ Closure' = Closure
      /\ \A S : Circular(S)' = Circular(S)
  BY SearchStays
<1>2. TypeOK'
  BY <1>1 DEF SelectInv, TypeOK
<1>3. Typed'
  BY <1>1 DEF SelectInv, Typed
<1>4. Covered'
  BY <1>1 DEF SelectInv, Covered
<1>5. Within'
  BY <1>1 DEF SelectInv, Within
<1>6. Cyclic'
  BY <1>1 DEF SelectInv, Cyclic
<1> QED BY <1>1, <1>2, <1>3, <1>4, <1>5, <1>6 DEF SelectInv

LEMMA LoadAgainKeeps == ASSUME SelectInv, LoadAgain PROVE SelectInv'
<1>1. /\ pc \in {"load", "loadAll"} /\ queue # <<>> /\ queue' = Tail(queue)
      /\ UNCHANGED <<tree, mode, pc, target, roots, stack, selected, acc, error, verdict, docs, bytes>>
  BY DEF LoadAgain, Loading
<1>2. queue \in Seq(Words) /\ docs \subseteq Registered /\ bytes \in 0..MaxBytes
  BY <1>1 DEF SelectInv, Typed, TypeOK
<1>3. queue' \in Seq(Words) /\ ToSet(queue') \subseteq ToSet(queue)
  BY <1>1, <1>2, ToSetTail
<1>4. ASSUME NEW S \in ClosedSets, mode = "apply" PROVE docs' \subseteq S /\ ToSet(queue') \subseteq S
  BY <1>1, <1>3, <1>4 DEF SelectInv, Within, Typed
<1> QED BY <1>1, <1>2, <1>3, <1>4, LoadKeeps

LEMMA LoadOneKeeps == ASSUME SelectInv, LoadOne PROVE SelectInv'
<1> DEFINE n == Head(queue)
           more == SetToSeq(ToSet(File(n).requires) \ docs')
<1>1. /\ pc \in {"load", "loadAll"} /\ queue # <<>> /\ queue' = Tail(queue) \o more
      /\ docs' = docs \cup {n} /\ bytes' = bytes + File(n).bytes
      /\ UNCHANGED <<tree, mode, pc, target, roots, stack, selected, acc, error, verdict>>
  BY DEF LoadOne, Loading
<1>2. LoadFault(n) = ""
  BY DEF LoadOne
<1>3. n \in Registered /\ ~(bytes + File(n).bytes > MaxBytes)
  BY <1>2 DEF LoadFault
<1>4. /\ queue \in Seq(Words) /\ docs \subseteq Registered /\ bytes \in 0..MaxBytes /\ tree \in Trees
      /\ mode = "apply" => pc = "load"
  BY <1>1 DEF SelectInv, Typed, TypeOK
<1>5. File(n).bytes \in Nat /\ File(n).requires \in Seq(Words) /\ Requires(n) = File(n).requires
  BY <1>3, <1>4, RepositoryAtHand DEF Requires
<1> HIDE DEF n
<1>6. more \in Seq(Words) /\ ToSet(more) \subseteq ToSet(File(n).requires)
  <2>1. IsFiniteSet(ToSet(File(n).requires) \ docs') /\ ToSet(File(n).requires) \subseteq Words
    BY <1>5, ToSetFinite, FS_Difference
  <2>2. more \in Seq(ToSet(File(n).requires) \ docs') /\ ToSet(more) = ToSet(File(n).requires) \ docs'
    BY <2>1, SetToSeqLemma
  <2> HIDE DEF more
  <2> QED BY <2>1, <2>2, SeqMonotonic
<1> HIDE DEF more
<1>7. ToSet(queue) = {n} \cup ToSet(Tail(queue)) /\ Tail(queue) \in Seq(Words)
  BY <1>1, <1>4, ToSetTail DEF n
<1>8. queue' \in Seq(Words) /\ ToSet(queue') = ToSet(Tail(queue)) \cup ToSet(more)
  <2> DEFINE rest == Tail(queue)
  <2>1. rest \in Seq(Words) /\ queue' = rest \o more
    BY <1>1, <1>7
  <2> HIDE DEF rest
  <2>2. rest \o more \in Seq(Words) /\ ToSet(rest \o more) = ToSet(rest) \cup ToSet(more)
    BY <1>6, <2>1, ToSetConcat
  <2> QED BY <2>1, <2>2 DEF rest
<1>9. MaxBytes \in Nat
  BY LimitsAssumption
<1>10. docs' \subseteq Registered /\ bytes' \in 0..MaxBytes
  BY <1>1, <1>3, <1>4, <1>5, <1>9
<1>11. ASSUME NEW S \in ClosedSets, mode = "apply" PROVE docs' \subseteq S /\ ToSet(queue') \subseteq S
  <2>1. docs \subseteq S /\ ToSet(queue) \subseteq S
    BY <1>4, <1>11 DEF SelectInv, Within
  <2>2. n \in S /\ ToSet(Requires(n)) \subseteq S
    BY <1>7, <2>1, <1>11 DEF ClosedSets, ClosedUnder
  <2> QED BY <1>1, <1>5, <1>6, <1>7, <1>8, <2>1, <2>2
<1> QED BY <1>1, <1>8, <1>10, <1>11, LoadKeeps

LEMMA LoadRefusedKeeps == ASSUME SelectInv, LoadRefused PROVE SelectInv'
<1>1. LoadFault(Head(queue)) \in Errors \ {"", "cycle"}
  BY DEF LoadRefused, LoadFault, Errors
<1> QED BY <1>1, FailKeeps DEF LoadRefused, Resolving

LEMMA LoadedKeeps == ASSUME SelectInv, Loaded PROVE SelectInv'
<1>1. CASE pc = "load"
  <2>1. /\ UNCHANGED <<tree, mode, target, docs, bytes, roots, stack, selected, error, acc, verdict>>
        /\ pc' = "select"
    BY <1>1 DEF Loaded, Resolving
  <2>2. Covered'
    <3>1. Selection' = Selection
      BY <2>1, SameTarget
    <3> QED BY <1>1, <2>1, <3>1 DEF SelectInv, Covered
  <2> QED BY <1>1, <2>1, <2>2, MoveKeeps DEF Steps, SelectInv, Typed, TypeOK
<1>2. CASE pc # "load"
  <2>1. PICK t : StartResolve(t)
    BY <1>2 DEF Loaded
  <2> QED BY <1>2, <2>1, StartKeeps DEF Loaded
<1> QED BY <1>1, <1>2

-----------------------------------------------------------------------------
(* The search.                                                             *)

\* A module that is asked for may be read, and no closed set is without it.
LEMMA AskedFor ==
    ASSUME SelectInv, NEW n, Asked(n)
    PROVE  /\ \A S \in ClosedSets : n \in S
           /\ stack = <<>> => roots # <<>> /\ n = Head(roots) /\ n \in Selection
                              /\ ToSet(roots) = {n} \cup ToSet(Tail(roots)) /\ Tail(roots) \in Seq(Words)
           /\ stack # <<>> =>
                /\ Len(stack) \in Nat \ {0} /\ Last(stack) = stack[Len(stack)]
                /\ stack[Len(stack)] \in [name : Registered, next : Nat \ {0}]
                /\ stack[Len(stack)].next \in DOMAIN Requires(stack[Len(stack)].name)
                /\ n = Requires(stack[Len(stack)].name)[stack[Len(stack)].next]
<1> DEFINE top == stack[Len(stack)]
<1>1. tree \in Trees /\ roots \in Seq(Words) /\ stack \in Seq([name : Registered, next : Nat \ {0}])
  BY DEF SelectInv, Typed
<1>2. CASE stack = <<>>
  <2>1. roots # <<>> /\ n = Head(roots)
    BY <1>2 DEF Asked
  <2>2. ToSet(roots) = {n} \cup ToSet(Tail(roots)) /\ Tail(roots) \in Seq(Words)
    BY <1>1, <2>1, ToSetTail
  <2>3. n \in Selection
    BY <2>2 DEF SelectInv, Covered
  <2> QED BY <1>2, <2>1, <2>2, <2>3 DEF ClosedSets
<1>3. CASE stack # <<>>
  <2>1. Len(stack) \in Nat \ {0} /\ Last(stack) = top
    BY <1>1, <1>3, EmptySeq DEF Last
  <2>2. top \in [name : Registered, next : Nat \ {0}]
    <3>1. Len(stack) \in 1..Len(stack)
      BY <2>1
    <3> QED BY <1>1, <3>1, ElementOfSeq
  <2>3. top.name \in Registered /\ top.next \in Nat \ {0}
    BY <2>2
  <2>4. top.next <= Len(Requires(top.name)) /\ n = Requires(top.name)[top.next]
    BY <1>3, <2>1 DEF Asked
  <2>5. Requires(top.name) \in Seq(Words)
    BY <1>1, <2>3, RepositoryAtHand
  <2>6. DOMAIN Requires(top.name) = 1..Len(Requires(top.name)) /\ Len(Requires(top.name)) \in Nat
    BY <2>5, LenProperties
  <2>7. top.next \in DOMAIN Requires(top.name)
    <3> HIDE DEF top
    <3> QED BY <2>3, <2>4, <2>6
  <2>8. n \in ToSet(Requires(top.name))
    BY <2>4, <2>7 DEF ToSet
  <2>9. top.name \in OnStack
    <3>1. DOMAIN stack = 1..Len(stack)
      BY <1>1
    <3> QED BY <2>1, <3>1 DEF OnStack
  <2>10. ASSUME NEW S \in ClosedSets PROVE n \in S
    BY <2>8, <2>9 DEF SelectInv, Within, ClosedSets, ClosedUnder
  <2> QED BY <1>3, <2>1, <2>2, <2>4, <2>7, <2>10
<1> QED BY <1>2, <1>3

\* The stack after a step: the caller has gone on, and one frame may be new.
LEMMA StackSteps ==
    ASSUME SelectInv, NEW n, stack # <<>>, Asked(n), Advance(Entered(n)),
           VisitFault(n) # "done" => n \in Registered
    PROVE  LET L == Len(stack)
               M == IF VisitFault(n) = "done" THEN L ELSE L + 1
           IN  /\ roots' = roots
               /\ stack' \in Seq([name : Registered, next : Nat \ {0}]) /\ Len(stack') = M
               /\ DOMAIN stack' = 1..M
               /\ \A i \in 1..L : stack'[i].name = stack[i].name
               /\ \A i \in 1..L : i # L => stack'[i].next = stack[i].next
               /\ stack'[L].next = stack[L].next + 1
               /\ M # L => stack'[M].name = n /\ stack'[M].next = 1
<1> DEFINE Frame == [name : Registered, next : Nat \ {0}]
           L == Len(stack)
           M == IF VisitFault(n) = "done" THEN L ELSE L + 1
           f == [stack[L] EXCEPT !.next = stack[L].next + 1]
           b == [stack EXCEPT ![L] = f]
<1>1. stack \in Seq(Frame) /\ L \in Nat \ {0} /\ stack[L] \in Frame
  BY AskedFor DEF SelectInv, Typed
<1>2. f \in Frame /\ f.name = stack[L].name /\ f.next = stack[L].next + 1
  BY <1>1
<1>3. roots' = roots /\ stack' = b \o Entered(n)
  <2>1. [stack EXCEPT ![Len(stack)].next = @ + 1] = b
    OBVIOUS
  <2> QED BY <2>1 DEF Advance
<1> HIDE DEF Frame, f
<1>4. b \in Seq(Frame) /\ Len(b) = L /\ \A i \in 1..L : b[i] = IF i = L THEN f ELSE stack[i]
  BY <1>1, <1>2, ExceptSeq
<1>5. /\ Entered(n) \in Seq(Frame) /\ Len(Entered(n)) = M - L
      /\ M # L => Entered(n)[1] = [name |-> n, next |-> 1]
  <2>1. CASE VisitFault(n) = "done"
    BY <1>1, <2>1, EmptySeq DEF Entered
  <2>2. CASE VisitFault(n) # "done"
    <3>1. [name |-> n, next |-> 1] \in Frame
      BY <2>2 DEF Frame
    <3> QED BY <1>1, <2>2, <3>1 DEF Entered
  <2> QED BY <2>1, <2>2
<1> HIDE DEF b, M, L
<1>6. M \in Nat /\ M - L \in Nat /\ L \in Nat /\ L # 0 /\ (M # L => M = L + 1)
  BY <1>1 DEF M
<1>7. /\ stack' \in Seq(Frame) /\ Len(stack') = M
      /\ \A i \in 1..M : stack'[i] = IF i <= L THEN b[i] ELSE Entered(n)[i - L]
  <2> DEFINE e == Entered(n)
  <2>0. e \in Seq(Frame) /\ Len(e) = M - L /\ b \in Seq(Frame) /\ Len(b) = L
    BY <1>4, <1>5
  <2> HIDE DEF e
  <2>a. /\ b \o e \in Seq(Frame) /\ Len(b \o e) = Len(b) + Len(e)
        /\ \A i \in 1..(Len(b) + Len(e)) :
              (b \o e)[i] = IF i <= Len(b) THEN b[i] ELSE e[i - Len(b)]
    BY <2>0, ConcatProperties
  <2>1. /\ b \o e \in Seq(Frame) /\ Len(b \o e) = L + (M - L)
        /\ \A i \in 1..(L + (M - L)) :
              (b \o e)[i] = IF i <= L THEN b[i] ELSE e[i - L]
    BY <2>0, <2>a
  <2>2. L + (M - L) = M
    BY <1>6
  <2> QED BY <1>3, <2>1, <2>2 DEF e
<1>8. \A i \in 1..L : stack'[i] = IF i = L THEN f ELSE stack[i]
  <2>1. \A i \in 1..L : i \in 1..M /\ i <= L
    BY <1>6
  <2> QED BY <1>4, <1>7, <2>1
<1>9. L \in 1..L /\ DOMAIN stack' = 1..M
  BY <1>6, <1>7, LenProperties
<1>10. ASSUME M # L PROVE stack'[M].name = n /\ stack'[M].next = 1
  <2>1. M \in 1..M /\ ~(M <= L) /\ M - L = 1
    BY <1>6, <1>10
  <2>2. stack'[M] = [name |-> n, next |-> 1]
    BY <1>5, <1>7, <1>10, <2>1
  <2> QED BY <2>2
<1>11. /\ \A i \in 1..L : stack'[i].name = stack[i].name
       /\ \A i \in 1..L : i # L => stack'[i].next = stack[i].next
       /\ stack'[L].next = stack[L].next + 1
  BY <1>2, <1>8, <1>9
<1> QED BY <1>3, <1>7, <1>9, <1>10, <1>11 DEF Frame, M, L

\* A step of the search that neither fails nor ends it.
LEMMA SearchKeeps ==
    ASSUME SelectInv, pc = "select",
           UNCHANGED <<tree, mode, pc, target, docs, bytes, acc, error, verdict>>,
           stack' \in Seq([name : Registered, next : Nat \ {0}]), roots' \in Seq(Words),
           selected' \in Seq(Registered), ~Dups(selected'),
           \A i, j \in DOMAIN stack' : stack'[i].name = stack'[j].name => i = j,
           OnStack' \cap ToSet(selected') = {},
           ToSet(roots') \subseteq Selection, Chained', DependenciesFirst',
           \A m \in Selection : \/ m \in ToSet(selected') \cup ToSet(roots')
                                \/ stack' # <<>> /\ m = stack'[1].name,
           \A S \in ClosedSets : OnStack' \subseteq S /\ ToSet(selected') \subseteq S
    PROVE  SelectInv'
<1>1. /\ Registered' = Registered /\ Selection' = Selection /\ ClosedSets' = ClosedSets
      /\ Closure' = Closure /\ \A S : Circular(S)' = Circular(S)
  BY SameTree, SameTarget
<1>2. TypeOK'
  BY <1>1 DEF SelectInv, TypeOK
<1>3. Typed'
  BY <1>1 DEF SelectInv, Typed
<1>4. Covered'
  BY <1>1 DEF Covered
<1>5. Within'
  BY <1>1 DEF SelectInv, Within
<1>6. Cyclic'
  BY <1>1 DEF SelectInv, Cyclic
<1> QED BY <1>1, <1>2, <1>3, <1>4, <1>5, <1>6 DEF SelectInv

LEMMA VisitKeeps == ASSUME SelectInv, Visit PROVE SelectInv'
<1>1. PICK n \in Registered \cup ToSet(roots) :
         Ask(n) /\ VisitFault(n) \in {"", "done"} /\ Advance(Entered(n))
  BY DEF Visit
<1>2. /\ pc = "select" /\ selected' = selected
      /\ UNCHANGED <<tree, mode, pc, target, docs, bytes, acc, error, verdict>>
  BY <1>1 DEF Visit, Ask
<1>3. Asked(n)
  BY <1>1 DEF Ask
<1>4. /\ VisitFault(n) = "done" => n \in ToSet(selected)
      /\ VisitFault(n) # "done" => n \notin ToSet(selected) /\ n \notin OnStack /\ n \in docs
  BY <1>1 DEF VisitFault
<1>5. /\ docs \subseteq Registered /\ selected \in Seq(Registered) /\ ~Dups(selected)
      /\ \A i, j \in DOMAIN stack : stack[i].name = stack[j].name => i = j
      /\ OnStack \cap ToSet(selected) = {}
  BY DEF SelectInv, TypeOK
<1>6. n \in Registered
  <2>1. ToSet(selected) \subseteq Registered
    BY <1>5, ToSetFinite
  <2> QED BY <1>4, <1>5, <2>1
<1>7. DependenciesFirst'
  <2>1. \A m : Requires(m)' = Requires(m)
    BY <1>2, SameTree
  <2> QED BY <1>2, <2>1 DEF SelectInv, DependenciesFirst
<1>8. /\ tree \in Trees /\ roots \in Seq(Words) /\ ToSet(roots) \subseteq Selection
      /\ stack \in Seq([name : Registered, next : Nat \ {0}])
      /\ \A m \in Selection : \/ m \in ToSet(selected) \cup ToSet(roots)
                              \/ stack # <<>> /\ m = stack[1].name
      /\ \A S \in ClosedSets : OnStack \subseteq S /\ ToSet(selected) \subseteq S /\ n \in S
  BY <1>2, <1>3, AskedFor DEF SelectInv, Typed, Covered, Within
<1>9. CASE stack = <<>>
  <2>1. /\ n = Head(roots) /\ ToSet(roots) = {n} \cup ToSet(Tail(roots)) /\ Tail(roots) \in Seq(Words)
        /\ roots' = Tail(roots) /\ stack' = Entered(n)
    BY <1>1, <1>3, <1>9, AskedFor DEF Advance
  <2>2. CASE VisitFault(n) = "done"
    <3>1. stack' = <<>>
      BY <2>1, <2>2 DEF Entered
    <3>2. /\ Chained' /\ OnStack' = {}
          /\ stack' \in Seq([name : Registered, next : Nat \ {0}])
          /\ (\A i, j \in DOMAIN stack : stack[i].name = stack[j].name => i = j)'
      <4>1. DOMAIN stack' = {} /\ Len(stack') = 0 /\ 1..(Len(stack') - 1) = {}
        BY <3>1
      <4> QED BY <3>1, <4>1 DEF Chained, OnStack
    <3>3. \A m \in Selection : m \in ToSet(selected') \cup ToSet(roots')
      BY <1>2, <1>4, <1>8, <1>9, <2>1, <2>2
    <3> QED BY <1>2, <1>5, <1>7, <1>8, <2>1, <3>2, <3>3, SearchKeeps
  <2>3. CASE VisitFault(n) # "done"
    <3>1. stack' = <<[name |-> n, next |-> 1]>>
      BY <2>1, <2>3 DEF Entered
    <3>2. /\ DOMAIN stack' = {1} /\ Len(stack') = 1 /\ stack'[1] = [name |-> n, next |-> 1]
          /\ 1..(Len(stack') - 1) = {} /\ stack' # <<>>
      BY <3>1
    <3>3. [name |-> n, next |-> 1] \in [name : Registered, next : Nat \ {0}]
      BY <1>6
    <3>4. stack' \in Seq([name : Registered, next : Nat \ {0}])
      BY <3>1, <3>3
    <3>5. stack'[1].name = n /\ stack'[1].next = 1 /\ 1..(stack'[1].next - 1) = {}
      BY <3>2
    <3>6. Chained'
      BY <3>2, <3>5 DEF Chained
    <3>7. OnStack' = {n}
      BY <3>2, <3>5 DEF OnStack
    <3>8. \A m \in Selection : \/ m \in ToSet(selected') \cup ToSet(roots')
                               \/ stack' # <<>> /\ m = stack'[1].name
      BY <1>2, <1>8, <1>9, <2>1, <3>2, <3>5
    <3>9. \A i, j \in DOMAIN stack' : stack'[i].name = stack'[j].name => i = j
      BY <3>2
    <3> QED BY <1>2, <1>4, <1>5, <1>7, <1>8, <2>1, <2>3, <3>4, <3>6, <3>7, <3>8, <3>9, SearchKeeps
  <2> QED BY <2>2, <2>3
<1>10. CASE stack # <<>>
  <2> DEFINE L == Len(stack)
             M == IF VisitFault(n) = "done" THEN L ELSE L + 1
             Frame == [name : Registered, next : Nat \ {0}]
  <2>1. /\ L \in Nat \ {0} /\ stack[L] \in Frame /\ DOMAIN stack = 1..L
        /\ stack[L].next \in DOMAIN Requires(stack[L].name)
        /\ n = Requires(stack[L].name)[stack[L].next]
    BY <1>3, <1>8, <1>10, AskedFor, LenProperties
  <2>2. /\ roots' = roots
        /\ stack' \in Seq(Frame) /\ Len(stack') = M /\ DOMAIN stack' = 1..M
        /\ \A i \in 1..L : stack'[i].name = stack[i].name
        /\ \A i \in 1..L : i # L => stack'[i].next = stack[i].next
        /\ stack'[L].next = stack[L].next + 1
        /\ M # L => stack'[M].name = n /\ stack'[M].next = 1
    BY <1>1, <1>3, <1>6, <1>10, StackSteps
  <2>3. M = L \/ M = L + 1
    OBVIOUS
  <2>4. /\ M = L => n \in ToSet(selected)
        /\ M # L => n \notin ToSet(selected) /\ n \notin OnStack
    <3>1. L + 1 # L
      <4> HIDE DEF L, Frame
      <4> QED BY <2>1
    <3>2. M = L <=> VisitFault(n) = "done"
      BY <3>1
    <3> HIDE DEF L, M
    <3> QED BY <1>4, <3>2
  <2> HIDE DEF L, M, Frame
  <2>5. OnStack' = IF M = L THEN OnStack ELSE OnStack \cup {n}
    <3>1. OnStack = {stack[i].name : i \in 1..L} /\ OnStack' = {stack'[i].name : i \in 1..M}
      BY <2>1, <2>2 DEF OnStack
    <3>2. CASE M = L
      BY <2>2, <3>1, <3>2
    <3>3. CASE M # L
      <4>1. 1..M = 1..L \cup {M}
        BY <2>1, <2>3, <3>3
      <4> QED BY <2>2, <3>1, <3>3, <4>1
    <3> QED BY <3>2, <3>3
  <2>6. ASSUME NEW i \in 1..M, NEW j \in 1..M, stack'[i].name = stack'[j].name PROVE i = j
    <3>1. \A k \in 1..M : k \in 1..L \/ (k = M /\ M # L)
      BY <2>1, <2>3
    <3>2. \A k \in 1..L : stack'[k].name \in OnStack
      BY <2>1, <2>2 DEF OnStack
    <3>3. CASE i \in 1..L /\ j \in 1..L
      BY <1>5, <2>1, <2>2, <2>6, <3>3
    <3>4. CASE i \in 1..L /\ j = M /\ M # L
      BY <2>2, <2>4, <2>6, <3>2, <3>4
    <3>5. CASE j \in 1..L /\ i = M /\ M # L
      BY <2>2, <2>4, <2>6, <3>2, <3>5
    <3>6. CASE i = M /\ j = M
      BY <3>6
    <3> QED BY <3>1, <3>3, <3>4, <3>5, <3>6
  <2>7. \A m : Requires(m)' = Requires(m)
    BY <1>2, SameTree
  <2>8. ASSUME NEW i \in 1..M, NEW p \in 1..(stack'[i].next - 1)
        PROVE  /\ p \in DOMAIN Requires(stack'[i].name)
               /\ \/ Requires(stack'[i].name)[p] \in ToSet(selected)
                  \/ i < M /\ p = stack'[i].next - 1
    <3>1. CASE i \in 1..L /\ i # L
      <4>1. /\ p \in DOMAIN Requires(stack[i].name)
            /\ \/ Requires(stack[i].name)[p] \in ToSet(selected)
               \/ i < L /\ p = stack[i].next - 1
        BY <2>1, <2>2, <3>1 DEF SelectInv, Chained, L
      <4>2. i < M
        BY <2>1, <2>3, <3>1
      <4> QED BY <2>2, <3>1, <4>1, <4>2
    <3>2. CASE i = L
      <4>1. stack[L].next \in Nat /\ stack'[i].name = stack[L].name /\ stack'[i].next = stack[L].next + 1
        BY <2>1, <2>2, <3>2 DEF Frame
      <4>2. p = stack[L].next \/ p \in 1..(stack[L].next - 1)
        BY <4>1
      <4>3. CASE p = stack[L].next
        <5>1. p \in DOMAIN Requires(stack[L].name) /\ Requires(stack[L].name)[p] = n
          BY <2>1, <4>3
        <5>2. p = stack'[i].next - 1
          BY <4>1, <4>3
        <5>3. M = L \/ i < M
          BY <2>1, <2>3, <3>2
        <5> QED BY <2>4, <4>1, <5>1, <5>2, <5>3
      <4>4. CASE p \in 1..(stack[L].next - 1)
        <5>1. L \in DOMAIN stack /\ ~(L < L)
          BY <2>1
        <5>2. p \in DOMAIN Requires(stack[L].name) /\ Requires(stack[L].name)[p] \in ToSet(selected)
          BY <4>4, <5>1 DEF SelectInv, Chained, L
        <5> QED BY <4>1, <5>2
      <4> QED BY <4>2, <4>3, <4>4
    <3>3. CASE i \notin 1..L
      <4>1. i = M /\ M # L
        BY <2>1, <2>3, <3>3
      <4>2. stack'[i].next = 1
        BY <2>2, <4>1
      <4> QED BY <4>2
    <3> QED BY <3>1, <3>2, <3>3
  <2>9. ASSUME NEW i \in 1..(M - 1)
        PROVE  stack'[i].next > 1 /\ stack'[i + 1].name = Requires(stack'[i].name)[stack'[i].next - 1]
    <3>1. CASE i \in 1..(L - 1)
      <4>1. i \in 1..L /\ i + 1 \in 1..L /\ i # L
        BY <2>1, <3>1
      <4>2. stack[i].next > 1 /\ stack[i + 1].name = Requires(stack[i].name)[stack[i].next - 1]
        BY <3>1 DEF SelectInv, Chained, L
      <4> QED BY <2>2, <4>1, <4>2
    <3>2. CASE i \notin 1..(L - 1)
      <4>1. i = L /\ M # L /\ i + 1 = M /\ i \in 1..L
        BY <2>1, <2>3, <3>2
      <4>2. stack[L].next \in Nat \ {0}
        BY <2>1 DEF Frame
      <4>3. stack'[i].next > 1 /\ stack'[i].next - 1 = stack[L].next
        BY <2>2, <4>1, <4>2
      <4> QED BY <2>1, <2>2, <4>1, <4>3
    <3> QED BY <3>1, <3>2
  <2>10. Chained'
    BY <1>2, <2>2, <2>7, <2>8, <2>9 DEF Chained
  <2>11. \A m \in Selection : \/ m \in ToSet(selected') \cup ToSet(roots')
                              \/ stack' # <<>> /\ m = stack'[1].name
    <3>1. 1 \in 1..L /\ 1 \in DOMAIN stack'
      BY <2>1, <2>2, <2>3
    <3>2. stack' # <<>>
      BY <3>1
    <3> QED BY <1>2, <1>8, <2>2, <3>1, <3>2
  <2>12. OnStack' \cap ToSet(selected') = {}
    BY <1>2, <1>5, <2>4, <2>5
  <2>13. \A S \in ClosedSets : OnStack' \subseteq S /\ ToSet(selected') \subseteq S
    BY <1>2, <1>8, <2>5
  <2>14. /\ stack' \in Seq([name : Registered, next : Nat \ {0}]) /\ roots' \in Seq(Words)
         /\ ToSet(roots') \subseteq Selection
         /\ \A i, j \in DOMAIN stack' : stack'[i].name = stack'[j].name => i = j
    BY <1>8, <2>2, <2>6 DEF Frame
  <2> QED BY <1>2, <1>5, <1>7, <2>10, <2>11, <2>12, <2>13, <2>14, SearchKeeps
<1> QED BY <1>9, <1>10

LEMMA VisitEndKeeps == ASSUME SelectInv, VisitEnd PROVE SelectInv'
<1> DEFINE L == Len(stack)
           Frame == [name : Registered, next : Nat \ {0}]
           n == stack[L].name
<1>1. /\ pc = "select" /\ stack # <<>> /\ roots' = roots
      /\ Last(stack).next > Len(Requires(Last(stack).name))
      /\ selected' = Append(selected, Last(stack).name) /\ stack' = Front(stack)
      /\ UNCHANGED <<tree, mode, pc, target, docs, bytes, acc, error, verdict>>
  BY DEF VisitEnd, Ordered
<1>2. /\ tree \in Trees /\ roots \in Seq(Words) /\ stack \in Seq(Frame)
      /\ selected \in Seq(Registered) /\ ~Dups(selected)
      /\ \A i, j \in DOMAIN stack : stack[i].name = stack[j].name => i = j
      /\ OnStack \cap ToSet(selected) = {}
  BY DEF SelectInv, Typed, TypeOK
<1>3. L \in Nat \ {0} /\ DOMAIN stack = 1..L /\ Last(stack) = stack[L]
  BY <1>1, <1>2, EmptySeq, LenProperties DEF Last
<1>4. stack[L] \in Frame /\ \A i \in 1..L : stack[i] \in Frame
  <2>1. L \in 1..L
    <3> HIDE DEF L
    <3> QED BY <1>3
  <2> HIDE DEF Frame
  <2> QED BY <1>2, <2>1, ElementOfSeq
<1>5. n \in Registered /\ stack[L].next \in Nat \ {0}
  BY <1>4
<1>6. /\ selected' \in Seq(Registered) /\ ToSet(selected') = ToSet(selected) \cup {n}
      /\ Len(selected') = Len(selected) + 1 /\ Len(selected) \in Nat
      /\ \A i \in 1..Len(selected) : selected'[i] = selected[i]
      /\ selected'[Len(selected) + 1] = n
      /\ DOMAIN selected' = 1..(Len(selected) + 1)
  <2> HIDE DEF n
  <2>1. selected' = Append(selected, n)
    BY <1>1, <1>3 DEF n
  <2>2. selected' \in Seq(Registered) /\ ToSet(selected') = ToSet(selected) \cup {n}
    BY <1>2, <1>5, <2>1, ToSetAppend
  <2>3. /\ Len(selected') = Len(selected) + 1 /\ Len(selected) \in Nat
        /\ \A i \in 1..Len(selected) : selected'[i] = selected[i]
        /\ selected'[Len(selected) + 1] = n
    BY <1>2, <1>5, <2>1, AppendProperties, LenProperties
  <2> QED BY <2>2, <2>3, LenProperties
<1>7. /\ stack' \in Seq(Frame) /\ Len(stack') = L - 1 /\ DOMAIN stack' = 1..(L - 1)
      /\ \A i \in 1..(L - 1) : stack'[i] = stack[i]
  <2> HIDE DEF L, Frame
  <2>1. stack' = SubSeq(stack, 1, L - 1)
    BY <1>1 DEF Front, L
  <2>2. \A i \in 1..(L - 1) : stack[i] \in Frame
    BY <1>3, <1>4
  <2>3. /\ SubSeq(stack, 1, L - 1) \in Seq(Frame)
        /\ Len(SubSeq(stack, 1, L - 1)) = IF 1 <= L - 1 THEN (L - 1) - 1 + 1 ELSE 0
        /\ \A i \in 1..((L - 1) - 1 + 1) : SubSeq(stack, 1, L - 1)[i] = stack[1 + i - 1]
    BY <1>3, <2>2, SubSeqProperties
  <2>4. \A i \in 1..(L - 1) : i \in 1..((L - 1) - 1 + 1) /\ 1 + i - 1 = i
    BY <1>3
  <2>5. Len(stack') = L - 1
    BY <1>3, <2>1, <2>3
  <2>6. \A i \in 1..(L - 1) : stack'[i] = stack[i]
    BY <2>1, <2>3, <2>4
  <2> QED BY <2>1, <2>3, <2>5, <2>6, LenProperties
<1>8. Requires(n) \in Seq(Words) /\ DOMAIN Requires(n) = 1..Len(Requires(n)) /\ Len(Requires(n)) \in Nat
  BY <1>2, <1>5, RepositoryAtHand, LenProperties
<1>9. stack[L].next > Len(Requires(n))
  BY <1>1, <1>3
<1> HIDE DEF L, n
<1>10. ToSet(Requires(n)) \subseteq ToSet(selected)
  <2> SUFFICES ASSUME NEW p \in 1..Len(Requires(n)) PROVE Requires(n)[p] \in ToSet(selected)
    BY <1>8 DEF ToSet
  <2>1. p \in 1..(stack[L].next - 1)
    BY <1>5, <1>8, <1>9
  <2>2. L \in DOMAIN stack /\ ~(L < L)
    BY <1>3
  <2> QED BY <2>1, <2>2 DEF SelectInv, Chained, L, n
<1>11. n \in OnStack /\ n \notin ToSet(selected)
  <2>1. n \in OnStack
    BY <1>3 DEF OnStack, n
  <2> QED BY <1>2, <2>1
<1>12. OnStack' = OnStack \ {n}
  <2>1. OnStack = {stack[i].name : i \in 1..L} /\ OnStack' = {stack'[i].name : i \in 1..(L - 1)}
    BY <1>3, <1>7 DEF OnStack
  <2>2. 1..L = 1..(L - 1) \cup {L} /\ L \notin 1..(L - 1)
    BY <1>3
  <2>3. \A i \in 1..(L - 1) : stack'[i].name = stack[i].name /\ stack[i].name # n
    BY <1>2, <1>3, <1>7, <2>2 DEF n
  <2>4. OnStack' \subseteq OnStack \ {n}
    BY <2>1, <2>2, <2>3
  <2>5. \A i \in 1..L : stack[i].name # n => i \in 1..(L - 1)
    BY <2>2 DEF n
  <2>6. OnStack \ {n} \subseteq OnStack'
    BY <2>1, <2>3, <2>5
  <2> QED BY <2>4, <2>6
<1>13. ~Dups(selected')
  <2> SUFFICES ASSUME NEW i \in 1..(Len(selected) + 1), NEW j \in 1..(Len(selected) + 1),
                      i # j, selected'[i] = selected'[j]
               PROVE  FALSE
    BY <1>6 DEF Dups
  <2>1. DOMAIN selected = 1..Len(selected)
    BY <1>2, LenProperties
  <2>2. \A k \in 1..(Len(selected) + 1) : k \in 1..Len(selected) \/ k = Len(selected) + 1
    BY <1>6
  <2>3. \A k \in 1..Len(selected) : selected'[k] # n
    BY <1>6, <1>11, <2>1 DEF ToSet
  <2>4. i \in 1..Len(selected) /\ j \in 1..Len(selected)
    BY <1>6, <2>2, <2>3
  <2> QED BY <1>2, <1>6, <2>1, <2>4 DEF Dups
<1>14. \A m : Requires(m)' = Requires(m)
  BY <1>1, SameTree
<1>15. DependenciesFirst'
  <2>1. SUFFICES ASSUME NEW i \in 1..(Len(selected) + 1), NEW r \in ToSet(Requires(selected'[i]))
                 PROVE  r \in {selected'[j] : j \in 1..(i - 1)}
    BY <1>6, <1>14 DEF DependenciesFirst, ToSet
  <2>2. DOMAIN selected = 1..Len(selected)
    BY <1>2, LenProperties
  <2>3. CASE i \in 1..Len(selected)
    <3>1. r \in {selected[j] : j \in 1..(i - 1)}
      BY <1>6, <2>1, <2>2, <2>3 DEF SelectInv, DependenciesFirst
    <3>2. \A j \in 1..(i - 1) : selected'[j] = selected[j]
      BY <1>6, <2>3
    <3> QED BY <3>1, <3>2
  <2>4. CASE i = Len(selected) + 1
    <3>1. r \in ToSet(selected)
      BY <1>6, <1>10, <2>1, <2>4
    <3>2. i - 1 = Len(selected)
      BY <1>6, <2>4
    <3> QED BY <1>6, <2>2, <3>1, <3>2 DEF ToSet
  <2> QED BY <1>6, <2>3, <2>4
<1>16. Chained'
  <2>1. ASSUME NEW i \in 1..(L - 1), NEW p \in 1..(stack'[i].next - 1)
        PROVE  /\ p \in DOMAIN Requires(stack'[i].name)
               /\ \/ Requires(stack'[i].name)[p] \in ToSet(selected')
                  \/ i < L - 1 /\ p = stack'[i].next - 1
    <3>1. stack'[i] = stack[i] /\ i \in DOMAIN stack /\ i \in 1..(Len(stack) - 1)
      BY <1>3, <1>7 DEF L
    <3>2. /\ p \in DOMAIN Requires(stack[i].name)
          /\ \/ Requires(stack[i].name)[p] \in ToSet(selected)
             \/ p = stack[i].next - 1
      BY <2>1, <3>1 DEF SelectInv, Chained
    <3>3. stack[i + 1].name = Requires(stack[i].name)[stack[i].next - 1]
      BY <3>1 DEF SelectInv, Chained
    <3>4. i < L - 1 \/ i + 1 = L
      BY <1>3
    <3> QED BY <1>6, <3>1, <3>2, <3>3, <3>4 DEF n
  <2>2. ASSUME NEW i \in 1..((L - 1) - 1)
        PROVE  stack'[i].next > 1 /\ stack'[i + 1].name = Requires(stack'[i].name)[stack'[i].next - 1]
    <3>1. i \in 1..(L - 1) /\ i + 1 \in 1..(L - 1) /\ i \in 1..(Len(stack) - 1)
      BY <1>3 DEF L
    <3>2. stack[i].next > 1 /\ stack[i + 1].name = Requires(stack[i].name)[stack[i].next - 1]
      BY <3>1 DEF SelectInv, Chained
    <3> QED BY <1>7, <3>1, <3>2
  <2> QED BY <1>7, <1>14, <2>1, <2>2 DEF Chained
<1>17. \A m \in Selection : \/ m \in ToSet(selected') \cup ToSet(roots')
                            \/ stack' # <<>> /\ m = stack'[1].name
  <2> SUFFICES ASSUME NEW m \in Selection, m \notin ToSet(selected'), m \notin ToSet(roots')
               PROVE  stack' # <<>> /\ m = stack'[1].name
    OBVIOUS
  <2>1. m = stack[1].name
    BY <1>1, <1>6 DEF SelectInv, Covered
  <2>2. m # n
    BY <1>6
  <2>3. L # 1
    BY <2>1, <2>2 DEF n
  <2>4. 1 \in 1..(L - 1)
    BY <1>3, <2>3
  <2>5. stack'[1] = stack[1] /\ 1 \in DOMAIN stack'
    BY <1>7, <2>4
  <2> QED BY <2>1, <2>5
<1>18. \A S \in ClosedSets : OnStack' \subseteq S /\ ToSet(selected') \subseteq S
  BY <1>6, <1>11, <1>12 DEF SelectInv, Within
<1>19. \A i, j \in DOMAIN stack' : stack'[i].name = stack'[j].name => i = j
  <2>1. \A i \in DOMAIN stack' : i \in DOMAIN stack /\ stack'[i] = stack[i]
    BY <1>3, <1>7
  <2> QED BY <1>2, <2>1
<1>20. OnStack' \cap ToSet(selected') = {}
  BY <1>2, <1>6, <1>12
<1>21. ToSet(roots') \subseteq Selection
  BY <1>1 DEF SelectInv, Covered
<1> QED BY <1>1, <1>2, <1>6, <1>7, <1>13, <1>15, <1>16, <1>17, <1>18, <1>19, <1>20, <1>21, SearchKeeps

\* The stack from n's frame up is a cycle.
LEMMA StackIsCircular ==
    ASSUME SelectInv, NEW n, Asked(n), n \in OnStack
    PROVE  \E S \in SUBSET Closure : Circular(S)
<1> DEFINE L == Len(stack)
<1>1. stack \in Seq([name : Registered, next : Nat \ {0}]) /\ tree \in Trees
  BY DEF SelectInv, Typed
<1>2. DOMAIN stack = 1..L /\ L \in Nat
  BY <1>1, LenProperties
<1>3. PICK k \in 1..L : n = stack[k].name
  BY <1>2 DEF OnStack
<1>4. stack # <<>>
  BY <1>2, <1>3
<1>5. stack[L].next \in DOMAIN Requires(stack[L].name) /\ n = Requires(stack[L].name)[stack[L].next]
  BY <1>4, AskedFor
<1> DEFINE S == {stack[i].name : i \in k..L}
<1>6. \A i \in k..L : i \in 1..L /\ stack[i].name \in OnStack
  BY <1>2, <1>3 DEF OnStack
<1>7. S \subseteq Closure
  <2>1. ASSUME NEW i \in k..L PROVE stack[i].name \in Closure
    <3>1. stack[i].name \in Registered
      <4> DEFINE Frame == [name : Registered, next : Nat \ {0}]
      <4>1. stack \in Seq(Frame) /\ i \in 1..Len(stack)
        BY <1>1, <1>6
      <4>2. stack[i] \in Frame
        <5> HIDE DEF Frame
        <5> QED BY <4>1, ElementOfSeq
      <4> QED BY <4>2
    <3>2. \A X \in ClosedSets : stack[i].name \in X
      BY <1>6 DEF SelectInv, Within
    <3> QED BY <3>1, <3>2, ClosureIsLeast
  <2> QED BY <2>1
<1>8. S # {} /\ n \in S
  <2>1. k \in k..L
    <3> HIDE DEF L
    <3> QED BY <1>2, <1>3
  <2> QED BY <1>3, <2>1
<1>9. ASSUME NEW i \in k..L PROVE ToSet(Requires(stack[i].name)) \cap S # {}
  <2>1. CASE i = L
    <3>1. n \in ToSet(Requires(stack[L].name))
      BY <1>5 DEF ToSet
    <3> QED BY <1>8, <2>1, <3>1
  <2>2. CASE i # L
    <3>1. i \in 1..(L - 1) /\ i + 1 \in k..L /\ i \in 1..(Len(stack) - 1) /\ i \in DOMAIN stack
      <4>1. i \in k..L /\ k \in 1..L /\ L \in Nat /\ i # L
        BY <1>2, <1>3, <2>2
      <4> HIDE DEF S, L
      <4>2. i \in 1..(L - 1) /\ i + 1 \in k..L /\ i \in 1..L
        BY <4>1
      <4> QED BY <1>2, <4>2 DEF L
    <3>2. stack[i].next > 1 /\ stack[i + 1].name = Requires(stack[i].name)[stack[i].next - 1]
      BY <3>1 DEF SelectInv, Chained
    <3>3. stack[i].next \in Nat
      <4>1. stack[i] \in [name : Registered, next : Nat \ {0}]
        BY <1>1, <1>6, ElementOfSeq
      <4> QED BY <4>1
    <3>4. stack[i].next - 1 \in 1..(stack[i].next - 1)
      BY <3>2, <3>3
    <3>5. stack[i].next - 1 \in DOMAIN Requires(stack[i].name)
      BY <3>1, <3>4 DEF SelectInv, Chained
    <3>6. stack[i + 1].name \in ToSet(Requires(stack[i].name)) /\ stack[i + 1].name \in S
      BY <3>1, <3>2, <3>5 DEF ToSet
    <3> QED BY <3>6
  <2> QED BY <2>1, <2>2
<1>10. \A m \in S : ToSet(Requires(m)) \cap S # {}
  BY <1>9
<1> HIDE DEF S
<1> QED BY <1>7, <1>8, <1>10 DEF Circular

LEMMA VisitRefusedKeeps == ASSUME SelectInv, VisitRefused PROVE SelectInv'
<1>1. PICK n : Asked(n) /\ VisitFault(n) \notin {"", "done"} /\ Fail(VisitFault(n))
  BY DEF VisitRefused, Ask
<1>2. /\ VisitFault(n) \in {"", "done", "cycle", "limit", "missing"}
      /\ VisitFault(n) = "cycle" => n \in OnStack
  BY DEF VisitFault
<1>3. VisitFault(n) \in Errors \ {""}
  BY <1>1, <1>2 DEF Errors
<1>4. VisitFault(n) = "cycle" => \E S \in SUBSET Closure : Circular(S)
  BY <1>1, <1>2, StackIsCircular
<1> QED BY <1>1, <1>3, <1>4, FailKeeps DEF VisitRefused, Resolving

LEMMA SelectedKeeps == ASSUME SelectInv, Selected PROVE SelectInv'
<1>1. /\ UNCHANGED <<tree, mode, target, docs, bytes, roots, stack, selected, error, acc, verdict>>
      /\ pc = "select" /\ pc' = "union" /\ stack = <<>> /\ roots = <<>>
  BY DEF Selected
<1>2. Covered'
  <2>1. Selection' = Selection
    BY <1>1, SameTarget
  <2> QED BY <1>1, <2>1 DEF SelectInv, Covered
<1>3. queue' \in Seq({""} \cup Registered)
  <2> DEFINE T == {""} \cup Registered
  <2>1. selected \in Seq(Registered) /\ queue' = <<"">> \o selected /\ Registered \subseteq T
    BY DEF SelectInv, TypeOK, Selected
  <2>2. <<"">> \in Seq(T)
    OBVIOUS
  <2> HIDE DEF T
  <2>3. selected \in Seq(T)
    BY <2>1, SeqMonotonic
  <2>4. queue' \in Seq(T)
    BY <2>1, <2>2, <2>3, ConcatProperties
  <2> QED BY <2>4 DEF T
<1> QED BY <1>1, <1>2, <1>3, MoveKeeps DEF Steps, SelectInv, Typed, TypeOK

-----------------------------------------------------------------------------
(* The union, and what comes after it.                                     *)

\* The contributor whose turn it is.
LEMMA NextContributor ==
    ASSUME SelectInv, pc = "union", queue # <<>>
    PROVE  /\ Accumulates(acc) /\ tree \in Trees /\ Tail(queue) \in Seq({""} \cup Registered)
           /\ Head(queue) = "" \/ Head(queue) \in Registered
<1>1. /\ Accumulates(acc) /\ tree \in Trees /\ queue \in Seq({""} \cup Registered)
  BY DEF SelectInv, Typed, Accumulates
<1>2. Head(queue) \in {""} \cup Registered /\ Tail(queue) \in Seq({""} \cup Registered)
  BY <1>1, ToSetTail
<1> QED BY <1>1, <1>2

LEMMA AddNextKeeps == ASSUME SelectInv, AddNext PROVE SelectInv'
<1>1. /\ UNCHANGED <<tree, mode, pc, target, docs, bytes, roots, stack, selected, error, verdict>>
      /\ pc = "union" /\ acc' = Add(acc, Head(queue)) /\ acc'.err = ""
  BY DEF AddNext
<1>2. "err" \in DOMAIN acc'
  <2>1. Accumulates(Add(acc, Head(queue)))
    BY NextContributor, AddAccumulates DEF AddNext
  <2> QED BY <1>1, <2>1 DEF Accumulates
<1>3. Covered'
  <2>1. Selection' = Selection /\ Registered' = Registered
    BY <1>1, SameTarget, SameTree
  <2> QED BY <1>1, <2>1 DEF SelectInv, Covered
<1>4. queue' \in Seq({""} \cup Registered)
  BY NextContributor DEF AddNext
<1> QED BY <1>1, <1>2, <1>3, <1>4, MoveKeeps DEF Steps, SelectInv, TypeOK

LEMMA AddRefusedKeeps == ASSUME SelectInv, AddRefused PROVE SelectInv'
<1>1. Add(acc, Head(queue)).err # "" /\ Fail(Add(acc, Head(queue)).err)
  BY DEF AddRefused
<1>2. Accumulates(Add(acc, Head(queue)))
  BY NextContributor, AddAccumulates DEF AddRefused
<1>3. Add(acc, Head(queue)).err \in Errors \ {"", "cycle"}
  BY <1>1, <1>2 DEF Accumulates, Errors
<1> QED BY <1>1, <1>3, FailKeeps DEF AddRefused, Resolving

\* The composed environment, where the selection is complete or nothing is registered.
LEMMA AnswerKeeps ==
    ASSUME SelectInv, pc \in {"flat", "union"}, NEW env, Answer(env),
           UNCHANGED <<tree, mode, target, docs, bytes, roots, stack, selected, acc>>
    PROVE  SelectInv'
<1>1. /\ UNCHANGED <<tree, mode, target, docs, bytes, roots, stack, selected, error, acc, verdict>>
      /\ pc' = "composed"
  BY DEF Answer
<1>2. Covered'
  <2>1. Selection' = Selection /\ Registered' = Registered
    BY <1>1, SameTarget, SameTree
  <2>2. pc = "union" => Selection \subseteq ToSet(selected)
    <3> SUFFICES ASSUME pc = "union" PROVE Selection \subseteq ToSet(selected)
      OBVIOUS
    <3>1. stack = <<>> /\ ToSet(roots) = {}
      BY DEF SelectInv, Covered, ToSet
    <3> QED BY <3>1 DEF SelectInv, Covered
  <2> QED BY <1>1, <2>1, <2>2 DEF SelectInv, Covered
<1> QED BY <1>1, <1>2, MoveKeeps DEF Steps, SelectInv, Typed, TypeOK

LEMMA FlatKeeps == ASSUME SelectInv, Flat PROVE SelectInv'
<1>1. CASE WatchesOk(FlatEnvironment)
  BY <1>1, AnswerKeeps DEF Flat
<1>2. CASE ~WatchesOk(FlatEnvironment)
  <2>1. "watch" \in Errors \ {"", "cycle"} /\ Fail("watch")
    BY <1>2 DEF Flat, Errors
  <2> QED BY <2>1, FailKeeps DEF Flat
<1> QED BY <1>1, <1>2

LEMMA UnionKeeps == ASSUME SelectInv, Union PROVE SelectInv'
<1>1. /\ pc = "union"
      /\ UNCHANGED <<tree, mode, target, docs, bytes, queue, roots, stack, selected, acc>>
      /\ Fail("escape") \/ Fail("watch") \/ Fail("graph") \/ Answer(Composed)
  BY DEF Union
<1>2. {"escape", "watch", "graph"} \subseteq Errors \ {"", "cycle"}
  BY DEF Errors
<1>3. CASE Answer(Composed)
  BY <1>1, <1>3, AnswerKeeps
<1>4. CASE Fail("escape") \/ Fail("watch") \/ Fail("graph")
  BY <1>1, <1>2, <1>4, FailKeeps
<1> QED BY <1>1, <1>3, <1>4

LEMMA ValidateNextKeeps == ASSUME SelectInv, ValidateNext PROVE SelectInv'
<1>1. CASE todo = {}
  <2>1. /\ UNCHANGED <<tree, mode, target, docs, bytes, roots, stack, selected, error, acc>>
        /\ pc = "composed" /\ pc' = "accepted" /\ verdict' = "accepted"
    BY <1>1 DEF ValidateNext, Resolving
  <2>2. Covered'
    <3>1. Selection' = Selection
      BY <2>1, SameTarget
    <3> QED BY <2>1, <3>1 DEF SelectInv, Covered
  <2> QED BY <2>1, <2>2, MoveKeeps DEF Steps, SelectInv, Typed
<1>2. CASE todo # {}
  <2>1. PICK t \in todo : StartResolve(t) /\ UNCHANGED verdict
    BY <1>2 DEF ValidateNext
  <2> QED BY <2>1, StartKeeps DEF ValidateNext
<1> QED BY <1>1, <1>2

LEMMA ApplyAfterValidateKeeps == ASSUME SelectInv, ApplyAfterValidate PROVE SelectInv'
<1>1. /\ mode' = "apply" /\ pc' = "read" /\ error' = "" /\ docs' = {} /\ bytes' = 0 /\ roots' = <<>>
      /\ stack' = <<>> /\ selected' = <<>> /\ acc' = EmptyAccumulator
      /\ tree' = tree /\ verdict' = verdict
  BY DEF ApplyAfterValidate
<1>2. /\ Chained' /\ DependenciesFirst' /\ OnStack' = {} /\ ToSet(selected)' = {}
      /\ stack' \in Seq([name : Registered', next : Nat \ {0}])
      /\ selected' \in Seq(Registered') /\ ~Dups(selected)'
      /\ (\A i, j \in DOMAIN stack : stack[i].name = stack[j].name => i = j)'
  BY <1>1, NothingYetNext
<1>3. 0 \in 0..MaxBytes
  <2>1. MaxBytes \in Nat
    BY LimitsAssumption
  <2> QED BY <2>1
<1>4. TypeOK'
  BY <1>1, <1>2, <1>3 DEF SelectInv, TypeOK, Steps, Errors
<1>5. Typed'
  BY <1>1, <1>2, EmptySeq DEF SelectInv, Typed, EmptyAccumulator
<1>6. Covered'
  <2>1. roots' = <<>>
    BY <1>1
  <2>2. ToSet(roots)' = {}
    BY <2>1 DEF ToSet
  <2> QED BY <1>1, <2>2 DEF Covered
<1>7. Within'
  BY <1>1, <1>2 DEF Within
<1> QED BY <1>1, <1>2, <1>4, <1>5, <1>6, <1>7 DEF SelectInv, Cyclic

LEMMA SelectStep == SelectInv /\ [Next]_vars => SelectInv'
<1> SUFFICES ASSUME SelectInv, [Next]_vars PROVE SelectInv'
  OBVIOUS
<1>1. CASE Next
  BY <1>1, ReadRefusedKeeps, ReadForApplyKeeps, ReadForValidateKeeps, LoadAgainKeeps,
     LoadOneKeeps, LoadRefusedKeeps, LoadedKeeps, VisitKeeps, VisitEndKeeps,
     VisitRefusedKeeps, SelectedKeeps, AddNextKeeps, AddRefusedKeeps, FlatKeeps,
     UnionKeeps, ValidateNextKeeps, ApplyAfterValidateKeeps DEF Next
<1>2. CASE UNCHANGED vars
  <2>1. UNCHANGED <<tree, mode, pc, target, queue, docs, bytes, roots, stack, selected,
                    acc, error, verdict>>
    BY <1>2 DEF vars
  <2>2. /\ Chained' /\ DependenciesFirst' /\ OnStack' = OnStack /\ Registered' = Registered
        /\ Selection' = Selection /\ ClosedSets' = ClosedSets /\ Closure' = Closure
        /\ \A S : Circular(S)' = Circular(S)
    BY <2>1, SearchStays
  <2>3. TypeOK' /\ Typed'
    BY <2>1, <2>2 DEF SelectInv, TypeOK, Typed
  <2>4. Covered'
    BY <2>1, <2>2 DEF SelectInv, Covered
  <2>5. Within'
    BY <2>1, <2>2 DEF SelectInv, Within
  <2>6. Cyclic'
    BY <2>1, <2>2 DEF SelectInv, Cyclic
  <2> QED BY <2>2, <2>3, <2>4, <2>5, <2>6 DEF SelectInv
<1> QED BY <1>1, <1>2

\* The inductive invariant of the search (loadClosure and Select): the stack is a
\* chain of requirements, what a frame has passed is selected, and nothing is
\* read or visited that some closed set of modules is without.
THEOREM SelectInvariance == Spec => []SelectInv
<1> QED BY InitSelectInv, SelectStep, PTL DEF Spec

-----------------------------------------------------------------------------
(* What it is for.                                                         *)

\* A complete selection is the closure.
LEMMA CompleteIsClosure ==
    ASSUME SelectInv, pc = "composed"
    PROVE  ToSet(selected) = Closure
<1>1. selected \in Seq(Registered) /\ ToSet(selected) \subseteq Registered
  BY ToSetFinite DEF SelectInv, TypeOK
<1>2. CASE Registered = {}
  BY <1>1, <1>2, ClosureIsLeast
<1>3. CASE Registered # {}
  <2>1. Selection \subseteq ToSet(selected)
    BY <1>3 DEF SelectInv, Covered
  <2>2. ClosedUnder(ToSet(selected))
    <3> SUFFICES ASSUME NEW i \in DOMAIN selected PROVE ToSet(Requires(selected[i])) \subseteq ToSet(selected)
      BY DEF ClosedUnder, ToSet
    <3>1. ToSet(Requires(selected[i])) \subseteq {selected[j] : j \in 1..(i - 1)}
      BY DEF SelectInv, DependenciesFirst
    <3>2. DOMAIN selected = 1..Len(selected) /\ Len(selected) \in Nat
      BY <1>1, LenProperties
    <3>3. \A j \in 1..(i - 1) : j \in DOMAIN selected
      BY <3>2
    <3> QED BY <3>1, <3>3 DEF ToSet
  <2>3. ToSet(selected) \in ClosedSets
    BY <1>1, <2>1, <2>2 DEF ClosedSets
  <2>4. \A S \in ClosedSets : ToSet(selected) \subseteq S
    BY DEF SelectInv, Within
  <2> QED BY <1>1, <2>3, <2>4, ClosureIsLeast
<1> QED BY <1>2, <1>3

\* Of the members of a circular set the one selected first would have to come
\* after another.
LEMMA NothingCircular ==
    ASSUME SelectInv, NEW S, S \subseteq ToSet(selected)
    PROVE  ~Circular(S)
<1> SUFFICES ASSUME Circular(S) PROVE FALSE
  OBVIOUS
<1> DEFINE P == {i \in DOMAIN selected : selected[i] \in S}
<1>1. DOMAIN selected = 1..Len(selected) /\ Len(selected) \in Nat
  BY LenProperties DEF SelectInv, TypeOK
<1>2. P \subseteq Nat /\ P # {}
  <2>1. PICK n \in S : TRUE
    BY DEF Circular
  <2>2. PICK i \in DOMAIN selected : selected[i] = n
    BY <2>1 DEF ToSet
  <2>3. i \in P
    BY <2>1, <2>2
  <2> QED BY <1>1, <2>3
<1>3. PICK i \in P : \A j \in P : i <= j
  <2> HIDE DEF P
  <2> QED BY <1>2, SmallestOf
<1>4. PICK r \in ToSet(Requires(selected[i])) : r \in S
  BY DEF Circular
<1>5. PICK j \in 1..(i - 1) : r = selected[j]
  BY <1>4 DEF SelectInv, DependenciesFirst
<1>6. j \in DOMAIN selected /\ ~(i <= j)
  BY <1>1, <1>5
<1>7. j \in P
  BY <1>4, <1>5, <1>6
<1> QED BY <1>3, <1>6, <1>7

\* For every repository, of any number of modules and any requires graph: a
\* command reads nothing outside the closure of its selection and composes
\* exactly that, each module after all that it requires; Select reports a cycle
\* only if there is one, and composes none.
THEOREM SelectionIsClosure == Spec => []SelectsTheClosure
<1>1. SelectInv => SelectsTheClosure
  <2> SUFFICES ASSUME SelectInv PROVE SelectsTheClosure
    OBVIOUS
  <2>1. TypeOK /\ DependenciesFirst
    BY DEF SelectInv
  <2>2. ExactlyTheClosure
    <3>1. ASSUME mode = "apply" PROVE docs \subseteq Closure
      BY <3>1, ClosureIsLeast DEF SelectInv, TypeOK, Within
    <3> QED BY <3>1, CompleteIsClosure DEF ExactlyTheClosure
  <2>3. CycleIsReal
    BY CompleteIsClosure, NothingCircular DEF SelectInv, Cyclic, CycleIsReal
  <2> QED BY <2>1, <2>2, <2>3 DEF SelectsTheClosure
<1> QED BY <1>1, SelectInvariance, PTL

-----------------------------------------------------------------------------
(***************************************************************************)
(* The union.  A contributor's words are facts: who says what of which     *)
(* kind.  The accumulator holds exactly the facts of the contributors that *)
(* have been added (Gathers), or two of them clash (Outcome): that is what *)
(* Take keeps, one declaration after another, and so what Add keeps.  When *)
(* the queue is empty the contributors are the closure, which the search   *)
(* has shown, and the accumulator is the union of all that they say.       *)
(***************************************************************************)
\* What contributor c says of one thing.
Fact(c, kind, d) == [by |-> c, kind |-> kind, d |-> d]

Listables == {"package", "link", "template", "dir"}
NamedKinds == {"env", "alias", "service"}
Facts(c) ==
    {f \in [by : {c}, kind : Listables \cup NamedKinds, d : Declarations] :
        \/ f.kind \in Listables /\ f.d \in ToSet(Bundle(c).lists[f.kind])
        \/ /\ f.kind \in NamedKinds /\ <<f.kind, f.d.key>> \in DOMAIN Bundle(c).named
           /\ f.d = Bundle(c).named[<<f.kind, f.d.key>>]}

Said(f) ==
    [id |-> Identity(f.kind, f.d), val |-> Rewritten(f.d, Dir(f.by)), claim |-> Claim(f.kind, f.d)]
Origin(f) == [module |-> f.by, field |-> FieldFor(f.by, f.kind, f.d.key)]
Origins == [module : {""} \cup Registered, field : {"targets", "defaults"}]

\* Two entries cannot both be composed.
Clash(x, y) ==
    \/ x.id = y.id /\ x.val # y.val
    \/ x.claim.at = y.claim.at /\ x.claim.at # <<>> /\ x.claim.as # y.claim.as

\* The accumulator holds exactly the facts F: each as it was said, with all who
\* said it, and each destination as what it was claimed.
Resources(decl, F) ==
    /\ DOMAIN decl = {Said(f).id : f \in F}
    /\ \A f \in F : decl[Said(f).id] = Said(f).val

Owned(owners, F) ==
    /\ DOMAIN owners = {Said(f).id : f \in F}
    /\ \A id \in DOMAIN owners :
           /\ owners[id] \in Seq(Origins)
           /\ ToSet(owners[id]) = {Origin(f) : f \in {g \in F : Said(g).id = id}}

Destinations(dest, F) ==
    /\ DOMAIN dest = {Said(f).claim.at : f \in F} \ {<<>>}
    /\ \A f \in F : Said(f).claim.at # <<>> => dest[Said(f).claim.at] = Said(f).claim.as

Gathers(a, F) == Resources(a.decl, F) /\ Owned(a.owners, F) /\ Destinations(a.dest, F)

\* Of an accumulator.
Fields == {"decl", "owners", "dest", "packages", "sources", "hooks", "unsafe", "err"}

\* Of the contributors, those in `done' have been added, and nothing else.
Gathered ==
    \E done \in SUBSET ({""} \cup ToSet(selected)) :
        /\ done \cup ToSet(queue) = {""} \cup ToSet(selected)
        /\ ~RelativeUnits =>
               /\ Fields \subseteq DOMAIN acc /\ Gathers(acc, UNION {Facts(c) : c \in done})
               /\ acc.sources \in Seq(Seq(Words))
               /\ ToSet(acc.sources) = UNION {Sourced(c) : c \in done}
               /\ selected = <<>> => \/ queue = <<"">> /\ acc.hooks = <<>>
                                     \/ queue = <<>> /\ acc.hooks = Bundle("").lists["hook"]

UnionInv ==
    /\ pc = "flat" => ~HasModules
    /\ pc \in {"load", "select"} => acc = EmptyAccumulator
    /\ pc = "union" => Gathered
    /\ pc = "composed" /\ HasModules => Gathered /\ queue = <<>> /\ effective = Composed
    /\ error \in {"conflict", "claimed"} /\ ~RelativeUnits => Disagree


-----------------------------------------------------------------------------
(* What a contributor says.                                                *)

LEMMA FrontSeq == ASSUME NEW T, NEW s \in Seq(T) PROVE Front(s) \in Seq(T)
BY DEF Front

LEMMA ContributorDoc ==
    ASSUME tree \in Trees, NEW c, c = "" \/ c \in Registered
    PROVE  /\ IsBundle(Doc(c).defaults) /\ IsBundle(BundleOf(Doc(c), target))
           /\ Dir(c) \in Seq(Words)
<1>1. IsDocument(Doc(c))
  BY RepositoryAtHand DEF Doc
<1>2. CASE c = ""
  <2>1. Dir(c) = <<>>
    BY <1>2 DEF Dir
  <2>2. Dir(c) \in Seq(Words)
    BY <2>1, EmptySeq
  <2> QED BY <1>1, <2>2, BundleTyped
<1>3. CASE c # ""
  <2> DEFINE p == tree.registered[c]
  <2>1. p \in Seq(Words)
    BY <1>3, TreesAssumption DEF IsRepository, Registered, Words
  <2>2. Dir(c) = SubSeq(p, 1, Len(p) - 1)
    BY <1>3 DEF Dir, Front
  <2> HIDE DEF p
  <2>3. Dir(c) \in Seq(Words)
    BY <2>1, <2>2, FrontSeq DEF Front
  <2> QED BY <1>1, <2>3, BundleTyped
<1> QED BY <1>2, <1>3

\* What the merge of a document says: its target's word, where it has one.
LEMMA BundleLists ==
    ASSUME NEW c, NEW b \in ToSet(Blocks)
    PROVE  Bundle(c).lists[b] = IF BundleOf(Doc(c), target).lists[b].nil
                                THEN Doc(c).defaults.lists[b].items
                                ELSE BundleOf(Doc(c), target).lists[b].items
BY DEF Bundle, MergeBundle, MergeList

LEMMA BundleNamed ==
    ASSUME NEW c
    PROVE  LET d == Doc(c).defaults.named
               t == BundleOf(Doc(c), target).named
           IN  /\ DOMAIN Bundle(c).named = {k \in DOMAIN t : ~t[k].null}
                                           \cup {k \in DOMAIN d \ DOMAIN t : ~d[k].null}
               /\ \A k \in DOMAIN Bundle(c).named :
                      Bundle(c).named[k] = IF k \in DOMAIN t THEN t[k] ELSE d[k]
<1> DEFINE d == Doc(c).defaults.named
           t == BundleOf(Doc(c), target).named
           out == [k \in {j \in DOMAIN d : ~d[j].null} |-> d[k]]
           set == {k \in DOMAIN t : ~t[k].null}
<1>1. Bundle(c).named = MergeEntries(d, t)
  BY DEF Bundle, MergeBundle
<1> HIDE DEF d, t
<1>2. MergeEntries(d, t) = [k \in (DOMAIN out \ DOMAIN t) \cup set |-> IF k \in set THEN t[k] ELSE out[k]]
  BY DEF MergeEntries
<1>3. DOMAIN MergeEntries(d, t) = {k \in DOMAIN t : ~t[k].null} \cup {k \in DOMAIN d \ DOMAIN t : ~d[k].null}
  BY <1>2
<1>4. \A k \in DOMAIN MergeEntries(d, t) : MergeEntries(d, t)[k] = IF k \in DOMAIN t THEN t[k] ELSE d[k]
  BY <1>2
<1> QED BY <1>1, <1>3, <1>4 DEF d, t

\* A fact is a declaration of one of its contributor's blocks.
LEMMA FactOf ==
    ASSUME NEW c, NEW f \in Facts(c)
    PROVE  /\ f = Fact(c, f.kind, f.d) /\ f.by = c /\ f.d \in Declarations
           /\ \/ f.kind \in Listables /\ f.d \in ToSet(Bundle(c).lists[f.kind])
              \/ /\ f.kind \in NamedKinds /\ <<f.kind, f.d.key>> \in DOMAIN Bundle(c).named
                 /\ f.d = Bundle(c).named[<<f.kind, f.d.key>>]
BY DEF Facts, Fact

LEMMA ListedFact ==
    ASSUME tree \in Trees, NEW c, c = "" \/ c \in Registered,
           NEW b \in Listables, NEW d \in ToSet(Bundle(c).lists[b])
    PROVE  Fact(c, b, d) \in Facts(c) /\ d \in Declarations
<1>1. Bundle(c).lists[b] \in Seq(Declarations)
  BY BlocksNamed, ContributorTyped DEF Listables
<1>2. d \in Declarations
  BY <1>1, ToSetFinite
<1> QED BY <1>2 DEF Facts, Fact

LEMMA NamedFact ==
    ASSUME tree \in Trees, NEW c, c = "" \/ c \in Registered, NEW k \in DOMAIN Bundle(c).named
    PROVE  /\ Fact(c, k[1], Bundle(c).named[k]) \in Facts(c)
           /\ Bundle(c).named[k] \in Declarations /\ k[1] \in NamedKinds
           /\ k = <<k[1], Bundle(c).named[k].key>>
<1>1. /\ Bundle(c).named[k] \in Declarations /\ k[1] \in NamedKinds
      /\ k = <<k[1], Bundle(c).named[k].key>>
  <2>1. IsBundle(Doc(c).defaults) /\ IsBundle(BundleOf(Doc(c), target))
    BY ContributorDoc
  <2>2. \/ /\ k \in DOMAIN BundleOf(Doc(c), target).named
           /\ Bundle(c).named[k] = BundleOf(Doc(c), target).named[k]
        \/ k \in DOMAIN Doc(c).defaults.named /\ Bundle(c).named[k] = Doc(c).defaults.named[k]
    BY BundleNamed
  <2> QED BY <2>1, <2>2 DEF IsBundle, NamedKinds
<1> DEFINE x == Bundle(c).named[k]
<1>2. x \in Declarations /\ k[1] \in NamedKinds /\ k = <<k[1], x.key>> /\ x = Bundle(c).named[<<k[1], x.key>>]
  BY <1>1
<1>3. <<k[1], x.key>> \in DOMAIN Bundle(c).named
  BY <1>2
<1> HIDE DEF x
<1>4. Fact(c, k[1], x) \in Facts(c)
  BY <1>2, <1>3 DEF Facts, Fact
<1> QED BY <1>1, <1>4 DEF x

\* Live is what the facts say.
LEMMA LiveFacts ==
    ASSUME tree \in Trees, NEW c, c = "" \/ c \in Registered
    PROVE  Live(c) = {Said(f) : f \in Facts(c)}
<1> DEFINE d == Doc(c).defaults
           t == BundleOf(Doc(c), target)
           from(b) == IF t.lists[b].nil THEN d.lists[b].items ELSE t.lists[b].items
           read(x) == Rewritten(x, Dir(c))
           entry(b, x) == [id |-> Identity(b, x), val |-> read(x), claim |-> Claim(b, x)]
           ofTarget == {j \in DOMAIN t.named : ~t.named[j].null}
           ofDefaults == {j \in DOMAIN d.named \ DOMAIN t.named : ~d.named[j].null}
           named == {[id |-> k, claim |-> Claim(k[1], t.named[k]), val |-> read(t.named[k])] : k \in ofTarget}
                    \cup {[id |-> k, claim |-> Claim(k[1], d.named[k]), val |-> read(d.named[k])]
                             : k \in ofDefaults}
<1>1. Live(c) = (UNION {{entry(b, x) : x \in ToSet(from(b))} : b \in Listables}) \cup named
  BY DEF Live, Listables
<1>2. \A b \in Listables : from(b) = Bundle(c).lists[b]
  BY BundleLists, BlocksNamed DEF Listables
<1>3. /\ DOMAIN Bundle(c).named = ofTarget \cup ofDefaults
      /\ \A k \in ofTarget : Bundle(c).named[k] = t.named[k]
      /\ \A k \in ofDefaults : Bundle(c).named[k] = d.named[k]
  BY BundleNamed
<1>4. \A b, x : Said(Fact(c, b, x)) = entry(b, x)
  BY DEF Said, Fact
<1>5. \A k \in DOMAIN Bundle(c).named : Identity(k[1], Bundle(c).named[k]) = k
  <2> SUFFICES ASSUME NEW k \in DOMAIN Bundle(c).named PROVE Identity(k[1], Bundle(c).named[k]) = k
    OBVIOUS
  <2>1. k[1] \in NamedKinds /\ k = <<k[1], Bundle(c).named[k].key>>
    BY NamedFact
  <2> QED BY <2>1 DEF Identity, NamedKinds
<1>6. \A k \in DOMAIN Bundle(c).named :
          Said(Fact(c, k[1], Bundle(c).named[k]))
            = [id |-> k, claim |-> Claim(k[1], Bundle(c).named[k]), val |-> read(Bundle(c).named[k])]
  BY <1>4, <1>5
<1>7. \A x : x \in named <=>
          \E k \in DOMAIN Bundle(c).named :
             x = [id |-> k, claim |-> Claim(k[1], Bundle(c).named[k]), val |-> read(Bundle(c).named[k])]
  <2> DEFINE tn == t.named
             dn == d.named
             bn == Bundle(c).named
             is(k, y) == [id |-> k, claim |-> Claim(k[1], y), val |-> read(y)]
  <2>1. named = {is(k, tn[k]) : k \in ofTarget} \cup {is(k, dn[k]) : k \in ofDefaults}
    OBVIOUS
  <2>2. /\ DOMAIN bn = ofTarget \cup ofDefaults
        /\ \A k \in ofTarget : bn[k] = tn[k]
        /\ \A k \in ofDefaults : bn[k] = dn[k]
    BY <1>3
  <2> SUFFICES \A x : x \in named <=> \E k \in DOMAIN bn : x = is(k, bn[k])
    OBVIOUS
  <2> HIDE DEF tn, dn, bn, is, ofTarget, ofDefaults, named
  <2> QED BY <2>1, <2>2
<1>8. \A x : x \in named <=>
          \E k \in DOMAIN Bundle(c).named : x = Said(Fact(c, k[1], Bundle(c).named[k]))
  <2> HIDE DEF named, read
  <2> QED BY <1>6, <1>7
<1> HIDE DEF named, entry, from
<1> DEFINE of(b) == {entry(b, y) : y \in ToSet(from(b))}
<1>9. \A x : x \in Live(c) <=> x \in named \/ \E b \in Listables : x \in of(b)
  <2>1. Live(c) = (UNION {of(b) : b \in Listables}) \cup named
    BY <1>1
  <2> HIDE DEF of
  <2> SUFFICES ASSUME NEW x PROVE x \in Live(c) <=> x \in named \/ \E b \in Listables : x \in of(b)
    OBVIOUS
  <2>2. x \in UNION {of(b) : b \in Listables} <=> \E b \in Listables : x \in of(b)
    <3>1. ASSUME x \in UNION {of(b) : b \in Listables} PROVE \E b \in Listables : x \in of(b)
      <4>1. PICK S \in {of(b) : b \in Listables} : x \in S
        BY <3>1
      <4> QED BY <4>1
    <3>2. ASSUME NEW b \in Listables, x \in of(b) PROVE x \in UNION {of(e) : e \in Listables}
      <4>1. of(b) \in {of(e) : e \in Listables}
        OBVIOUS
      <4> QED BY <3>2, <4>1
    <3> QED BY <3>1, <3>2
  <2> DEFINE U == UNION {of(b) : b \in Listables}
  <2>3. Live(c) = U \cup named /\ (x \in U <=> \E b \in Listables : x \in of(b))
    BY <2>1, <2>2
  <2> HIDE DEF U
  <2> QED BY <2>3
<1>10. \A x : x \in Live(c) <=>
          x \in named \/ \E b \in Listables : \E y \in ToSet(Bundle(c).lists[b]) : x = Said(Fact(c, b, y))
  <2>1. ASSUME NEW b \in Listables, NEW x
        PROVE  x \in of(b) <=> \E y \in ToSet(Bundle(c).lists[b]) : x = Said(Fact(c, b, y))
    <3>1. from(b) = Bundle(c).lists[b]
      BY <1>2
    <3> QED BY <1>4, <3>1
  <2> HIDE DEF of
  <2> SUFFICES ASSUME NEW x
               PROVE  x \in Live(c) <=> \/ x \in named
                                        \/ \E b \in Listables : \E y \in ToSet(Bundle(c).lists[b]) :
                                               x = Said(Fact(c, b, y))
    OBVIOUS
  <2>2. x \in Live(c) <=> x \in named \/ \E b \in Listables : x \in of(b)
    BY <1>9
  <2> QED BY <2>1, <2>2
<1>11. ASSUME NEW x \in Live(c) PROVE \E f \in Facts(c) : x = Said(f)
  BY <1>8, <1>10, ListedFact, NamedFact
<1>12. ASSUME NEW f \in Facts(c) PROVE Said(f) \in Live(c)
  <2>1. CASE f.kind \in Listables /\ f.d \in ToSet(Bundle(c).lists[f.kind])
    <3>1. f = Fact(c, f.kind, f.d)
      BY FactOf
    <3>2. \E b \in Listables : \E y \in ToSet(Bundle(c).lists[b]) : Said(f) = Said(Fact(c, b, y))
      BY <2>1, <3>1
    <3> QED BY <1>10, <3>2
  <2>2. CASE /\ f.kind \in NamedKinds /\ <<f.kind, f.d.key>> \in DOMAIN Bundle(c).named
             /\ f.d = Bundle(c).named[<<f.kind, f.d.key>>]
    <3> DEFINE k == <<f.kind, f.d.key>>
    <3>1. k \in DOMAIN Bundle(c).named /\ f = Fact(c, k[1], Bundle(c).named[k])
      <4>1. k[1] = f.kind
        OBVIOUS
      <4>2. k \in DOMAIN Bundle(c).named /\ f.d = Bundle(c).named[k]
        BY Zenon, <2>2
      <4> HIDE DEF k
      <4>3. f = Fact(c, f.kind, f.d)
        BY FactOf
      <4> QED BY Zenon, <4>1, <4>2, <4>3
    <3> HIDE DEF k
    <3>2. Said(f) \in named
      BY <1>8, <3>1
    <3> QED BY <1>10, <3>2
  <2> QED BY <2>1, <2>2, FactOf
<1> QED BY <1>11, <1>12

\* The sources that the merge of a document lists.
LEMMA SourcedIs == ASSUME NEW c PROVE Sourced(c) = ToSet(Keys(Bundle(c).lists["source"]))
BY BundleLists, BlocksNamed DEF Sourced

-----------------------------------------------------------------------------
(* Where assets are read.                                                  *)

LEMMA RootAssets ==
    ASSUME NEW d \in Declarations
    PROVE  Rewritten(d, <<>>) = d
<1>1. <<>> \o d.asset = d.asset
  BY ConcatEmptySeq DEF Declarations
<1>2. SafePath(<<>>, d.asset) = d.asset
  BY <1>1 DEF SafePath
<1> QED BY <1>2 DEF Rewritten, Declarations

LEMMA NoAsset ==
    ASSUME NEW d \in Declarations, NEW dir, d.asset = <<>>
    PROVE  Rewritten(d, dir) = d
BY DEF Rewritten, SafePath, Absolute, Declarations

\* A declaration that Take compares as it is written means the same in its module.
LEMMA AsWritten ==
    ASSUME tree \in Trees, ~RelativeUnits, NEW c \in Contributors, NEW f \in Facts(c),
           f.kind \in {"service", "dir"}
    PROVE  Rewritten(f.d, Dir(c)) = f.d
<1>1. c = "" \/ c \in Registered
  BY DEF Contributors, Closure
<1>2. f.d \in Declarations /\ f.by = c
  BY <1>1, FactOf
<1>3. CASE Dir(c) = <<>>
  BY <1>2, <1>3, RootAssets
<1>4. CASE f.kind = "dir"
  <2>1. f.d \in ToSet(Bundle(c).lists["dir"])
    BY <1>1, <1>4, FactOf DEF NamedKinds
  <2>2. IsBundle(Doc(c).defaults) /\ IsBundle(BundleOf(Doc(c), target))
    BY <1>1, ContributorDoc
  <2>3. f.d.asset = <<>>
    BY <2>1, <2>2, BundleLists, BlocksNamed DEF IsBundle
  <2> QED BY <1>2, <2>3, NoAsset
<1>5. CASE f.kind = "service" /\ Dir(c) # <<>>
  <2> DEFINE p == f.d.asset
             dir == Dir(c)
             x == Said(f)
  <2>1. x \in Live(c) /\ c # ""
    BY <1>1, <1>5, LiveFacts DEF Dir
  <2>2. x.id = <<"service", f.d.key>> /\ x.id[1] = "service" 
        /\ x.val = Rewritten(f.d, dir) /\ x.claim = Claim("service", f.d)
    BY <1>2, <1>5 DEF Said, Identity
  <2>3. x.val.asset = SafePath(dir, p)
    BY <1>2, <2>2 DEF Rewritten, Declarations
  <2>4. x.val.asset = <<>> \/ x.claim.at = x.val.asset
    BY <1>5, <2>1, <2>2 DEF RelativeUnits
  <2>5. p \in Seq(Words) /\ dir \in Seq(Words)
    BY <1>1, <1>2, ContributorDoc DEF Declarations, Words
  <2>6. SafePath(dir, p) = p
    <3>1. CASE p = <<>>
      BY <3>1 DEF SafePath, Absolute
    <3>2. CASE p # <<>>
      <4>1. x.claim.at = p
        BY <2>2, <3>2 DEF Claim
      <4>2. SafePath(dir, p) = p \/ SafePath(dir, p) = dir \o p
        BY DEF SafePath
      <4>3. dir \o p # <<>>
        <5> HIDE DEF p, dir
        <5>1. Len(dir \o p) = Len(dir) + Len(p) /\ Len(p) # 0 /\ Len(p) \in Nat /\ Len(dir) \in Nat
          BY <2>5, <3>2, ConcatProperties, EmptySeq, LenProperties
        <5>2. Len(dir \o p) # 0
          BY <5>1
        <5> QED BY <5>2
      <4> QED BY <2>3, <2>4, <4>1, <4>2, <4>3
    <3> QED BY <3>1, <3>2
  <2> QED BY <1>2, <2>6 DEF Rewritten, Declarations
<1> QED BY <1>3, <1>4, <1>5

-----------------------------------------------------------------------------
(* The accumulator holds what it was given, or has refused.                *)

Outcome(a, F, s, h) ==
    /\ Fields \subseteq DOMAIN a
    /\ IF a.err = "" THEN Gathers(a, F) /\ a.sources = s /\ a.hooks = h
                     ELSE \E f, g \in F : Clash(Said(f), Said(g))

LEMMA PutIs ==
    ASSUME NEW f, NEW x, NEW y
    PROVE  /\ DOMAIN Put(f, x, y) = DOMAIN f \cup {x} /\ Put(f, x, y)[x] = y
           /\ \A z \in DOMAIN f : z # x => Put(f, x, y)[z] = f[z]
BY DEF Put

\* One destination more is claimed.
LEMMA Claimed ==
    ASSUME NEW dest, NEW F, NEW f,
           Destinations(dest, F),
           ~(Said(f).claim.at \in DOMAIN dest /\ dest[Said(f).claim.at] # Said(f).claim.as)
    PROVE  Destinations(IF Said(f).claim.at = <<>> THEN dest
                        ELSE Put(dest, Said(f).claim.at, Said(f).claim.as), F \cup {f})
<1> DEFINE next == IF Said(f).claim.at = <<>> THEN dest ELSE Put(dest, Said(f).claim.at, Said(f).claim.as)
<1> DEFINE at(g) == Said(g).claim.at
           as(g) == Said(g).claim.as
<1> HIDE DEF at, as
<1>1. /\ DOMAIN dest = {at(g) : g \in F} \ {<<>>}
      /\ \A g \in F : at(g) # <<>> => dest[at(g)] = as(g)
      /\ ~(at(f) \in DOMAIN dest /\ dest[at(f)] # as(f))
      /\ next = IF at(f) = <<>> THEN dest ELSE Put(dest, at(f), as(f))
  BY DEF at, as, Destinations
<1> HIDE DEF next
<1>2. DOMAIN next = {at(g) : g \in F \cup {f}} \ {<<>>}
  <2>1. CASE at(f) = <<>>
    BY <1>1, <2>1
  <2>2. CASE at(f) # <<>>
    <3>1. DOMAIN next = DOMAIN dest \cup {at(f)}
      BY <1>1, <2>2 DEF Put
    <3> QED BY <1>1, <2>2, <3>1
  <2> QED BY <2>1, <2>2
<1>3. \A g \in F \cup {f} : at(g) # <<>> => next[at(g)] = as(g)
  <2> SUFFICES ASSUME NEW g \in F \cup {f}, at(g) # <<>> PROVE next[at(g)] = as(g)
    OBVIOUS
  <2>1. CASE at(f) = <<>>
    BY <1>1, <2>1
  <2>2. CASE at(f) # <<>> /\ at(g) = at(f)
    <3>1. next[at(g)] = as(f)
      BY <1>1, <2>2 DEF Put
    <3>2. g \in F => as(g) = as(f)
      BY <1>1, <2>2
    <3> QED BY <3>1, <3>2
  <2>3. CASE at(f) # <<>> /\ at(g) # at(f)
    <3>1. g \in F /\ at(g) \in DOMAIN dest /\ dest[at(g)] = as(g)
      BY <1>1, <2>3
    <3> QED BY <1>1, <2>3, <3>1 DEF Put
  <2> QED BY <2>1, <2>2, <2>3
<1> QED BY <1>2, <1>3 DEF at, as, Destinations, next

\* One resource more is declared, or one owner more of the same.
LEMMA NewlyDeclared ==
    ASSUME NEW decl, NEW F, NEW f, Resources(decl, F), Said(f).id \notin DOMAIN decl
    PROVE  Resources(Put(decl, Said(f).id, Said(f).val), F \cup {f})
<1> DEFINE id(g) == Said(g).id
           val(g) == Said(g).val
           next == Put(decl, id(f), val(f))
<1>1. next = [k \in DOMAIN decl \cup {id(f)} |-> IF k = id(f) THEN val(f) ELSE decl[k]]
  BY DEF Put
<1> HIDE DEF id, val, next
<1>2. DOMAIN decl = {id(g) : g \in F} /\ (\A g \in F : decl[id(g)] = val(g)) /\ id(f) \notin DOMAIN decl
  BY DEF Resources, id, val
<1>3. DOMAIN next = {id(g) : g \in F \cup {f}}
  BY <1>1, <1>2
<1>4. \A g \in F \cup {f} : next[id(g)] = val(g)
  <2> SUFFICES ASSUME NEW g \in F \cup {f} PROVE next[id(g)] = val(g)
    OBVIOUS
  <2>1. CASE g \in F
    BY <1>1, <1>2, <2>1
  <2>2. CASE g = f
    BY <1>1, <2>2
  <2> QED BY <2>1, <2>2
<1> QED BY <1>3, <1>4 DEF Resources, id, val, next

LEMMA DeclaredAgain ==
    ASSUME NEW decl, NEW F, NEW f, Resources(decl, F), Said(f).id \in DOMAIN decl,
           decl[Said(f).id] = Said(f).val
    PROVE  Resources(decl, F \cup {f})
BY DEF Resources

LEMMA OwnedBy ==
    ASSUME NEW owners, NEW F, NEW f, Owned(owners, F), Origin(f) \in Origins,
           Said(f).id \notin DOMAIN owners
    PROVE  Owned(Put(owners, Said(f).id, <<Origin(f)>>), F \cup {f})
<1> DEFINE id(g) == Said(g).id
           of(H, k) == {Origin(g) : g \in {e \in H : id(e) = k}}
           next == Put(owners, id(f), <<Origin(f)>>)
           G == F \cup {f}
<1>1. next = [k \in DOMAIN owners \cup {id(f)} |-> IF k = id(f) THEN <<Origin(f)>> ELSE owners[k]]
  BY DEF Put
<1> HIDE DEF id, next
<1>2. /\ DOMAIN owners = {id(g) : g \in F} /\ id(f) \notin DOMAIN owners
      /\ \A k \in DOMAIN owners : owners[k] \in Seq(Origins) /\ ToSet(owners[k]) = of(F, k)
  BY DEF Owned, id
<1>3. DOMAIN next = {id(g) : g \in G}
  BY <1>1, <1>2
<1>4. <<Origin(f)>> \in Seq(Origins) /\ ToSet(<<Origin(f)>>) = {Origin(f)}
  BY DEF ToSet
<1>5. ASSUME NEW k \in DOMAIN next PROVE next[k] \in Seq(Origins) /\ ToSet(next[k]) = of(G, k)
  <2>1. CASE k = id(f)
    <3>1. of(G, k) = {Origin(f)}
      BY <1>2, <2>1
    <3> QED BY <1>1, <1>4, <2>1, <3>1
  <2>2. CASE k # id(f)
    <3>1. of(G, k) = of(F, k)
      BY <2>2
    <3>2. k \in DOMAIN owners /\ next[k] = owners[k]
      BY <1>1, <2>2
    <3> QED BY <1>2, <3>1, <3>2
  <2> QED BY <2>1, <2>2
<1> QED BY <1>3, <1>5 DEF Owned, id, next

LEMMA OwnedAlso ==
    ASSUME NEW owners, NEW F, NEW f, Owned(owners, F), Origin(f) \in Origins,
           Said(f).id \in DOMAIN owners, NEW next, DOMAIN next = DOMAIN owners,
           next[Said(f).id] = Append(owners[Said(f).id], Origin(f)),
           \A k \in DOMAIN owners : k # Said(f).id => next[k] = owners[k]
    PROVE  Owned(next, F \cup {f})
<1> DEFINE id(g) == Said(g).id
           of(H, k) == {Origin(g) : g \in {e \in H : id(e) = k}}
           G == F \cup {f}
<1> HIDE DEF id
<1>1. /\ DOMAIN next = DOMAIN owners /\ \A k \in DOMAIN owners : k # id(f) => next[k] = owners[k]
      /\ id(f) \in DOMAIN owners /\ next[id(f)] = Append(owners[id(f)], Origin(f))
  BY DEF id
<1>2. /\ DOMAIN owners = {id(g) : g \in F}
      /\ \A k \in DOMAIN owners : owners[k] \in Seq(Origins) /\ ToSet(owners[k]) = of(F, k)
  BY DEF Owned, id
<1>3. DOMAIN next = {id(g) : g \in G}
  BY <1>1, <1>2
<1>5. ASSUME NEW k \in DOMAIN next PROVE next[k] \in Seq(Origins) /\ ToSet(next[k]) = of(G, k)
  <2>1. CASE k = id(f)
    <3>1. of(G, k) = of(F, k) \cup {Origin(f)}
      BY <2>1
    <3>2. owners[k] \in Seq(Origins) /\ ToSet(owners[k]) = of(F, k) /\ next[k] = Append(owners[k], Origin(f))
      BY <1>1, <1>2, <2>1
    <3>3. next[k] \in Seq(Origins)
      BY <3>2, AppendProperties
    <3>4. ToSet(next[k]) = ToSet(owners[k]) \cup {Origin(f)}
      BY <3>2, ToSetAppend
    <3> QED BY <3>1, <3>2, <3>3, <3>4
  <2>2. CASE k # id(f)
    <3>1. of(G, k) = of(F, k)
      BY <2>2
    <3>2. k \in DOMAIN owners /\ next[k] = owners[k]
      BY <1>1, <2>2
    <3> QED BY <1>2, <3>1, <3>2
  <2> QED BY <2>1, <2>2
<1> QED BY <1>3, <1>5 DEF Owned, id

\* Take adds a declaration, coalesces it with an identical one, or refuses one that
\* clashes with another.
LEMMA TakeOutcome ==
    ASSUME tree \in Trees, ~RelativeUnits, NEW c \in Contributors, NEW f \in Facts(c),
           NEW a, NEW F, NEW s, NEW h, Outcome(a, F, s, h)
    PROVE  Outcome(Take(a, f.kind, f.d, c), F \cup {f}, s, h)
<1> DEFINE claim == Claim(f.kind, f.d)
           id == Identity(f.kind, f.d)
           origin == [module |-> c, field |-> FieldFor(c, f.kind, f.d.key)]
           unsafe == a.unsafe \/ Escapes(f.d.asset)
           mine == IF f.kind = "dir" THEN f.d ELSE Rewritten(f.d, Dir(c))
           compared == IF f.kind = "service" THEN f.d ELSE mine
           dest == IF claim.at = <<>> THEN a.dest ELSE Put(a.dest, claim.at, claim.as)
           result == Take(a, f.kind, f.d, c)
           G == F \cup {f}
<1> SUFFICES Outcome(result, G, s, h)
  OBVIOUS
<1>1. c = "" \/ c \in Registered
  BY DEF Contributors, Closure
<1>2. f.by = c /\ f.d \in Declarations
  BY <1>1, FactOf
<1>3. /\ Said(f).id = id /\ Said(f).val = mine /\ mine = compared /\ Said(f).claim = claim
      /\ Origin(f) = origin /\ origin \in Origins
  <2>1. Said(f).id = id /\ Said(f).claim = claim /\ Said(f).val = Rewritten(f.d, Dir(c))
    BY <1>2 DEF Said
  <2>2. f.kind \in {"service", "dir"} => Rewritten(f.d, Dir(c)) = f.d
    BY AsWritten
  <2>3. Origin(f) = origin
    BY <1>2 DEF Origin
  <2>4. origin \in Origins
    BY <1>1 DEF Origins, FieldFor
  <2> QED BY <2>1, <2>2, <2>3, <2>4
<1>4. Fields \subseteq DOMAIN a
  BY DEF Outcome
<1>5. result = IF a.err # "" THEN a
               ELSE IF claim.at \in DOMAIN a.dest /\ a.dest[claim.at] # claim.as
               THEN [a EXCEPT !.err = "claimed"]
               ELSE IF id \notin DOMAIN a.decl
               THEN [a EXCEPT !.decl = Put(@, id, mine), !.dest = dest, !.unsafe = unsafe,
                              !.owners = Put(@, id, <<origin>>),
                              !.packages = IF f.kind = "package" THEN Append(@, id) ELSE @]
               ELSE IF a.decl[id] = compared
               THEN [a EXCEPT !.owners[id] = Append(@, origin), !.dest = dest,
                              !.unsafe = IF f.kind = "service" THEN @ ELSE unsafe]
               ELSE [a EXCEPT !.err = "conflict"]
  BY DEF Take, SameDeclaration
<1>6. f \in G /\ F \subseteq G
  OBVIOUS
<1> HIDE DEF claim, id, origin, unsafe, mine, compared, result
<1>7. CASE a.err # ""
  BY <1>4, <1>5, <1>6, <1>7 DEF Outcome
<1>8. CASE a.err = ""
  <2>1. Gathers(a, F) /\ a.sources = s /\ a.hooks = h
    BY <1>8 DEF Outcome
  <2>2. CASE claim.at \in DOMAIN a.dest /\ a.dest[claim.at] # claim.as
    <3>1. Fields \subseteq DOMAIN result /\ result.err = "claimed"
      BY <1>4, <1>5, <1>8, <2>2 DEF Fields
    <3>2. PICK g \in F : Said(g).claim.at = claim.at /\ claim.at # <<>>
      BY <2>1, <2>2 DEF Gathers, Destinations
    <3>3. a.dest[claim.at] = Said(g).claim.as
      BY <2>1, <3>2 DEF Gathers, Destinations
    <3>4. Clash(Said(f), Said(g))
      BY <1>3, <2>2, <3>2, <3>3 DEF Clash
    <3> QED BY <1>6, <3>1, <3>4 DEF Outcome
  <2>3. CASE ~(claim.at \in DOMAIN a.dest /\ a.dest[claim.at] # claim.as)
    <3>1. Destinations(dest, G)
      <4>1. Destinations(a.dest, F)
        BY <2>1 DEF Gathers
      <4>2. /\ ~(Said(f).claim.at \in DOMAIN a.dest /\ a.dest[Said(f).claim.at] # Said(f).claim.as)
            /\ dest = IF Said(f).claim.at = <<>> THEN a.dest
                      ELSE Put(a.dest, Said(f).claim.at, Said(f).claim.as)
        BY <1>3, <2>3
      <4> HIDE DEF dest
      <4> QED BY <4>1, <4>2, Claimed
    <3> HIDE DEF dest
    <3>2. CASE id \notin DOMAIN a.decl
      <4>1. /\ Fields \subseteq DOMAIN result /\ result.err = ""
            /\ result.decl = Put(a.decl, id, mine) /\ result.dest = dest
            /\ result.owners = Put(a.owners, id, <<origin>>)
            /\ result.sources = s /\ result.hooks = h
        BY <1>4, <1>5, <1>8, <2>1, <2>3, <3>2 DEF Fields
      <4>2. Gathers(result, G)
        <5>1. Resources(result.decl, G)
          <6>1. Resources(a.decl, F) /\ Said(f).id \notin DOMAIN a.decl
                /\ result.decl = Put(a.decl, Said(f).id, Said(f).val)
            BY <1>3, <2>1, <3>2, <4>1 DEF Gathers
          <6> QED BY <6>1, NewlyDeclared
        <5>2. Owned(result.owners, G)
          <6>1. Owned(a.owners, F) /\ Said(f).id \notin DOMAIN a.owners /\ Origin(f) \in Origins
                /\ result.owners = Put(a.owners, Said(f).id, <<Origin(f)>>)
            BY <1>3, <2>1, <3>2, <4>1 DEF Gathers, Owned, Resources
          <6> QED BY <6>1, OwnedBy
        <5> QED BY <3>1, <4>1, <5>1, <5>2 DEF Gathers
      <4> QED BY <4>1, <4>2 DEF Outcome
    <3>3. CASE id \in DOMAIN a.decl /\ a.decl[id] = compared
      <4>1. /\ Fields \subseteq DOMAIN result /\ result.err = ""
            /\ result.decl = a.decl /\ result.dest = dest
            /\ result.owners = [a.owners EXCEPT ![id] = Append(@, origin)]
            /\ result.sources = s /\ result.hooks = h
        BY <1>4, <1>5, <1>8, <2>1, <2>3, <3>3 DEF Fields
      <4>2. Gathers(result, G)
        <5>1. Resources(result.decl, G)
          <6>1. Resources(a.decl, F) /\ Said(f).id \in DOMAIN a.decl
                /\ a.decl[Said(f).id] = Said(f).val /\ result.decl = a.decl
            BY <1>3, <2>1, <3>3, <4>1 DEF Gathers
          <6> QED BY <6>1, DeclaredAgain
        <5>2. Owned(result.owners, G)
          <6>1. Owned(a.owners, F) /\ Said(f).id \in DOMAIN a.owners /\ Origin(f) \in Origins
            BY <1>3, <2>1, <3>3 DEF Gathers, Owned, Resources
          <6>2. /\ DOMAIN result.owners = DOMAIN a.owners
                /\ result.owners[Said(f).id] = Append(a.owners[Said(f).id], Origin(f))
                /\ \A k \in DOMAIN a.owners : k # Said(f).id => result.owners[k] = a.owners[k]
            BY <1>3, <4>1, <6>1
          <6> QED BY <6>1, <6>2, OwnedAlso
        <5> QED BY <3>1, <4>1, <5>1, <5>2 DEF Gathers
      <4> QED BY <4>1, <4>2 DEF Outcome
    <3>4. CASE id \in DOMAIN a.decl /\ a.decl[id] # compared
      <4>1. Fields \subseteq DOMAIN result /\ result.err = "conflict"
        BY <1>4, <1>5, <1>8, <2>3, <3>4 DEF Fields
      <4>2. PICK g \in F : Said(g).id = id
        BY <2>1, <3>4 DEF Gathers, Resources
      <4>3. a.decl[id] = Said(g).val
        BY <2>1, <4>2 DEF Gathers, Resources
      <4>4. Clash(Said(f), Said(g))
        BY <1>3, <3>4, <4>2, <4>3 DEF Clash
      <4> QED BY <1>6, <4>1, <4>4 DEF Outcome
    <3> QED BY <3>2, <3>3, <3>4
  <2> QED BY <2>2, <2>3
<1> QED BY <1>7, <1>8

OfKind(c, kind) == {f \in Facts(c) : f.kind = kind}

LEMMA TakeAllOutcome ==
    ASSUME tree \in Trees, ~RelativeUnits, NEW c \in Contributors, NEW kind, NEW items,
           Len(items) \in Nat, DOMAIN items = 1..Len(items),
           \A f : f \in OfKind(c, kind) <=> \E i \in 1..Len(items) : f = Fact(c, kind, items[i]),
           NEW a, NEW F, NEW s, NEW h, Outcome(a, F, s, h)
    PROVE  Outcome(TakeAll(a, kind, items, c), F \cup OfKind(c, kind), s, h)
<1> DEFINE n == Len(items)
           Upto(m) == F \cup {Fact(c, kind, items[i]) : i \in 1..m}
<1>0. PICK taken : TakenFrom(taken, a, kind, items, c) /\ TakeAll(a, kind, items, c) = taken[n]
  BY TakeAllDef
<1>1. /\ taken[0] = a
      /\ \A i \in 1..n : taken[i] = Take(taken[i - 1], kind, items[i], c)
      /\ TakeAll(a, kind, items, c) = taken[n]
  BY <1>0 DEF TakenFrom
<1> DEFINE Good == {m \in Nat : m <= n => Outcome(taken[m], Upto(m), s, h)}
<1>2. 0 \in Good
  <2>1. Upto(0) = F
    OBVIOUS
  <2> HIDE DEF Upto
  <2> QED BY <1>1, <2>1
<1>3. ASSUME NEW m \in Nat, m \in Good PROVE m + 1 \in Good
  <2> SUFFICES ASSUME m + 1 <= n PROVE Outcome(taken[m + 1], Upto(m + 1), s, h)
    <3> HIDE DEF Upto
    <3> QED OBVIOUS
  <2> DEFINE f == Fact(c, kind, items[m + 1])
  <2>1. m + 1 \in 1..n /\ (m + 1) - 1 = m /\ m <= n
    OBVIOUS
  <2>2. Upto(m + 1) = Upto(m) \cup {f}
    <3>1. 1..(m + 1) = 1..m \cup {m + 1}
      OBVIOUS
    <3> QED BY <3>1
  <2>3. f \in Facts(c)
    <3> HIDE DEF f
    <3>1. f = Fact(c, kind, items[m + 1])
      BY DEF f
    <3>2. f \in OfKind(c, kind)
      BY <2>1, <3>1
    <3> QED BY <3>2 DEF OfKind
  <2>4. f.kind = kind /\ f.d = items[m + 1]
    BY DEF Fact
  <2> HIDE DEF Upto, f
  <2>5. Outcome(taken[m], Upto(m), s, h)
    BY <1>3, <2>1
  <2>6. Outcome(Take(taken[m], f.kind, f.d, c), Upto(m) \cup {f}, s, h)
    BY <2>3, <2>5, TakeOutcome
  <2>7. taken[m + 1] = Take(taken[m], f.kind, f.d, c)
    BY <1>1, <2>1, <2>4
  <2> QED BY <2>2, <2>6, <2>7
<1>4. n \in Good
  <2> HIDE DEF Good
  <2> QED BY <1>2, <1>3, SetInduction
<1>5. Upto(n) = F \cup OfKind(c, kind)
  <2>1. OfKind(c, kind) = {Fact(c, kind, items[i]) : i \in 1..n}
    OBVIOUS
  <2> QED BY <2>1
<1>6. Outcome(taken[n], Upto(n), s, h)
  <2> HIDE DEF Upto
  <2> QED BY <1>4
<1> HIDE DEF Upto
<1> QED BY <1>1, <1>5, <1>6

\* The declarations of one kind, from a list and from the named entries.
LEMMA ListedOfKind ==
    ASSUME tree \in Trees, NEW c, c = "" \/ c \in Registered, NEW b \in Listables
    PROVE  LET items == Bundle(c).lists[b] IN
           /\ items \in Seq(Declarations) /\ Len(items) \in Nat /\ DOMAIN items = 1..Len(items)
           /\ \A f : f \in OfKind(c, b) <=> \E i \in 1..Len(items) : f = Fact(c, b, items[i])
<1> DEFINE items == Bundle(c).lists[b]
<1>1. items \in Seq(Declarations)
  BY BlocksNamed, ContributorTyped DEF Listables
<1>2. Len(items) \in Nat /\ DOMAIN items = 1..Len(items)
  <2> HIDE DEF items
  <2> QED BY <1>1, LenProperties
<1>3. ASSUME NEW f \in OfKind(c, b) PROVE \E i \in 1..Len(items) : f = Fact(c, b, items[i])
  <2>1. f = Fact(c, b, f.d) /\ f.d \in ToSet(items)
    <3>1. f \in Facts(c) /\ f.kind = b /\ b \notin NamedKinds
      BY DEF OfKind, Listables, NamedKinds
    <3> QED BY <3>1, FactOf
  <2> HIDE DEF items
  <2>2. PICK i \in 1..Len(items) : f.d = items[i]
    BY <1>2, <2>1 DEF ToSet
  <2> QED BY <2>1, <2>2
<1>4. ASSUME NEW i \in 1..Len(items) PROVE Fact(c, b, items[i]) \in OfKind(c, b)
  <2>1. items[i] \in ToSet(items)
    BY <1>2 DEF ToSet
  <2>2. Fact(c, b, items[i]) \in Facts(c)
    BY <2>1, ListedFact
  <2> QED BY <2>2 DEF OfKind, Fact
<1> QED BY <1>1, <1>2, <1>3, <1>4

LEMMA NamedOfKind ==
    ASSUME tree \in Trees, NEW c, c = "" \/ c \in Registered, NEW kind \in NamedKinds
    PROVE  LET items == NamedItems(Bundle(c), kind) IN
           /\ Len(items) \in Nat /\ DOMAIN items = 1..Len(items)
           /\ \A f : f \in OfKind(c, kind) <=> \E i \in 1..Len(items) : f = Fact(c, kind, items[i])
<1> DEFINE named == Bundle(c).named
           K == {j \in DOMAIN named : j[1] = kind}
           I == {named[k] : k \in K}
           items == NamedItems(Bundle(c), kind)
<1>1. IsFiniteSet(I)
  <2>1. IsFiniteSet(DOMAIN named)
    <3>1. IsBundle(Doc(c).defaults) /\ IsBundle(BundleOf(Doc(c), target))
      BY ContributorDoc
    <3>2. DOMAIN named \subseteq DOMAIN Doc(c).defaults.named \cup DOMAIN BundleOf(Doc(c), target).named
      BY BundleNamed
    <3>3. IsFiniteSet(DOMAIN Doc(c).defaults.named) /\ IsFiniteSet(DOMAIN BundleOf(Doc(c), target).named)
      BY <3>1 DEF IsBundle
    <3> QED BY <3>2, <3>3, FS_Union, FS_Subset
  <2>2. IsFiniteSet(K)
    BY <2>1, FS_Subset
  <2> DEFINE g == [k \in K |-> named[k]]
  <2> HIDE DEF K, named
  <2>3. g \in Surjection(K, I)
    BY DEF Surjection
  <2> HIDE DEF g, I
  <2> QED BY <2>2, <2>3, FS_Surjection
<1>2. items = SetToSeq(I)
  BY DEF NamedItems
<1>3. items \in Seq(I) /\ ToSet(items) = I
  <2> HIDE DEF I, items
  <2> QED BY <1>1, <1>2, SetToSeqLemma
<1>4. Len(items) \in Nat /\ DOMAIN items = 1..Len(items)
  <2> HIDE DEF I, items
  <2> QED BY <1>3, LenProperties
<1>5. \A k \in DOMAIN named : Fact(c, k[1], named[k]) \in Facts(c)
  BY NamedFact
<1>6. ASSUME NEW f \in OfKind(c, kind) PROVE \E i \in 1..Len(items) : f = Fact(c, kind, items[i])
  <2>1. f = Fact(c, kind, f.d) /\ <<kind, f.d.key>> \in DOMAIN named /\ f.d = named[<<kind, f.d.key>>]
    <3>1. f \in Facts(c) /\ f.kind = kind /\ kind \notin Listables
      BY DEF OfKind, Listables, NamedKinds
    <3> HIDE DEF named
    <3> QED BY <3>1, FactOf DEF named
  <2>2. <<kind, f.d.key>> \in K
    BY <2>1
  <2>3. f.d \in I
    BY <2>1, <2>2
  <2> HIDE DEF items, I
  <2>4. PICK i \in 1..Len(items) : f.d = items[i]
    BY <1>3, <1>4, <2>3 DEF ToSet
  <2> QED BY <2>1, <2>4
<1>7. ASSUME NEW i \in 1..Len(items) PROVE Fact(c, kind, items[i]) \in OfKind(c, kind)
  <2>1. items[i] \in I
    <3> HIDE DEF items, I
    <3> QED BY <1>3, <1>4 DEF ToSet
  <2>2. PICK k \in DOMAIN named : k[1] = kind /\ items[i] = named[k]
    BY <2>1
  <2>3. Fact(c, kind, items[i]) \in Facts(c)
    BY <1>5, <2>2
  <2> QED BY <2>3 DEF OfKind, Fact
<1> QED BY <1>4, <1>6, <1>7

LEMMA SourcesLemma ==
    ASSUME NEW have \in Seq(Seq(Words)), NEW items \in Seq(Declarations)
    PROVE  /\ Sources(have, items) \in Seq(Seq(Words))
           /\ ToSet(Sources(have, items)) = ToSet(have) \cup ToSet(Keys(items))
<1> DEFINE keys == Keys(items)
           new == ToSet(keys) \ ToSet(have)
           kept == Keep(keys, new)
<1>1. keys \in Seq(Seq(Words))
  <2>1. \A d \in Declarations : d.key \in Seq(Words)
    BY DEF Declarations, Words
  <2>2. Len(items) \in Nat /\ DOMAIN items = 1..Len(items)
        /\ \A i \in 1..Len(items) : items[i] \in Declarations
    BY LenProperties, ElementOfSeq
  <2> QED BY <2>1, <2>2 DEF Keys
<1>2. kept \in Seq(Seq(Words)) /\ ToSet(kept) = ToSet(keys) \cap new
  <2> HIDE DEF keys, new
  <2> QED BY <1>1, KeepLemma
<1>3. Distinct(kept) \in Seq(Seq(Words)) /\ ToSet(Distinct(kept)) = ToSet(kept)
  <2> HIDE DEF kept
  <2> QED BY <1>2, DistinctLemma
<1>4. Sources(have, items) = have \o Distinct(kept)
  BY DEF Sources
<1> HIDE DEF keys, kept
<1>5. Sources(have, items) \in Seq(Seq(Words)) /\ ToSet(Sources(have, items)) = ToSet(have) \cup ToSet(kept)
  BY <1>3, <1>4, ToSetConcat
<1> QED BY <1>2, <1>5 DEF keys

\* The hooks that a contributor adds, relative to its directory.
HooksOf(c) ==
    LET items == Bundle(c).lists["hook"] IN [i \in DOMAIN items |-> Rewritten(items[i], Dir(c))]

\* A contributor is added whole, or refused.
LEMMA AddOutcome ==
    ASSUME tree \in Trees, ~RelativeUnits, NEW c \in Contributors,
           NEW a, NEW F, NEW s, NEW h, Outcome(a, F, s, h)
    PROVE  Outcome(Add(a, c), F \cup Facts(c), Sources(s, Bundle(c).lists["source"]), h \o HooksOf(c))
<1> DEFINE b == Bundle(c)
           packages == TakeAll(a, "package", b.lists["package"], c)
           serviced == TakeAll(packages, "service", NamedItems(b, "service"), c)
           env == TakeAll(serviced, "env", NamedItems(b, "env"), c)
           shell == IF env.err # "" THEN env
                    ELSE [env EXCEPT !.sources = Sources(@, b.lists["source"])]
           aliases == TakeAll(shell, "alias", NamedItems(b, "alias"), c)
           links == TakeAll(aliases, "link", b.lists["link"], c)
           templates == TakeAll(links, "template", b.lists["template"], c)
           dirs == TakeAll(templates, "dir", b.lists["dir"], c)
           s2 == Sources(s, b.lists["source"])
           F1 == F \cup OfKind(c, "package")
           F2 == F1 \cup OfKind(c, "service")
           F3 == F2 \cup OfKind(c, "env")
           F4 == F3 \cup OfKind(c, "alias")
           F5 == F4 \cup OfKind(c, "link")
           F6 == F5 \cup OfKind(c, "template")
           F7 == F6 \cup OfKind(c, "dir")
<1> SUFFICES Outcome(Add(a, c), F \cup Facts(c), s2, h \o HooksOf(c))
  OBVIOUS
<1>1. c = "" \/ c \in Registered
  BY DEF Contributors, Closure
<1>2. ASSUME NEW kind \in Listables, NEW x, NEW G, NEW u, Outcome(x, G, u, h)
      PROVE  Outcome(TakeAll(x, kind, b.lists[kind], c), G \cup OfKind(c, kind), u, h)
  <2> DEFINE items == b.lists[kind]
  <2>1. /\ Len(items) \in Nat /\ DOMAIN items = 1..Len(items)
        /\ \A f : f \in OfKind(c, kind) <=> \E i \in 1..Len(items) : f = Fact(c, kind, items[i])
    BY <1>1, ListedOfKind
  <2> HIDE DEF items
  <2>2. Outcome(TakeAll(x, kind, items, c), G \cup OfKind(c, kind), u, h)
    BY <1>2, <2>1, TakeAllOutcome
  <2> QED BY <2>2 DEF items
<1>3. ASSUME NEW kind \in NamedKinds, NEW x, NEW G, NEW u, Outcome(x, G, u, h)
      PROVE  Outcome(TakeAll(x, kind, NamedItems(b, kind), c), G \cup OfKind(c, kind), u, h)
  <2> DEFINE items == NamedItems(b, kind)
  <2>1. /\ Len(items) \in Nat /\ DOMAIN items = 1..Len(items)
        /\ \A f : f \in OfKind(c, kind) <=> \E i \in 1..Len(items) : f = Fact(c, kind, items[i])
    BY <1>1, NamedOfKind
  <2> HIDE DEF items
  <2>2. Outcome(TakeAll(x, kind, items, c), G \cup OfKind(c, kind), u, h)
    BY <1>3, <2>1, TakeAllOutcome
  <2> QED BY <2>2 DEF items
<1>4. /\ "package" \in Listables /\ "link" \in Listables /\ "template" \in Listables /\ "dir" \in Listables
      /\ "env" \in NamedKinds /\ "alias" \in NamedKinds /\ "service" \in NamedKinds
  BY DEF Listables, NamedKinds
<1>5. Add(a, c) = IF dirs.err # "" THEN dirs ELSE Hooks(dirs, b.lists["hook"], c)
  BY DEF Add
<1> HIDE DEF b
<1>6. Outcome(packages, F1, s, h)
  BY <1>2, <1>4
<1>7. Outcome(serviced, F2, s, h)
  <2> HIDE DEF packages, F1
  <2> QED BY <1>3, <1>4, <1>6
<1>8. Outcome(env, F3, s, h)
  <2> HIDE DEF serviced, F2
  <2> QED BY <1>3, <1>4, <1>7
<1>9. Outcome(shell, F3, s2, h)
  <2> HIDE DEF env, F3, s2
  <2>1. CASE env.err # ""
    BY <1>8, <2>1 DEF Outcome
  <2>2. CASE env.err = ""
    <3>1. Fields \subseteq DOMAIN env /\ Gathers(env, F3) /\ env.sources = s /\ env.hooks = h
      BY <1>8, <2>2 DEF Outcome
    <3>2. shell = [env EXCEPT !.sources = s2]
      BY <2>2, <3>1 DEF s2
    <3>3. /\ Fields \subseteq DOMAIN shell /\ shell.err = "" /\ shell.sources = s2 /\ shell.hooks = h
          /\ shell.decl = env.decl /\ shell.owners = env.owners /\ shell.dest = env.dest
      BY <2>2, <3>1, <3>2 DEF Fields
    <3> QED BY <3>1, <3>3 DEF Outcome, Gathers
  <2> QED BY <2>1, <2>2
<1>10. Outcome(aliases, F4, s2, h)
  <2> HIDE DEF shell, F3, s2
  <2> QED BY <1>3, <1>4, <1>9
<1>11. Outcome(links, F5, s2, h)
  <2> HIDE DEF aliases, F4, s2
  <2> QED BY <1>2, <1>4, <1>10
<1>12. Outcome(templates, F6, s2, h)
  <2> HIDE DEF links, F5, s2
  <2> QED BY <1>2, <1>4, <1>11
<1>13. Outcome(dirs, F7, s2, h)
  <2> HIDE DEF templates, F6, s2
  <2> QED BY <1>2, <1>4, <1>12
<1>14. F7 = F \cup Facts(c)
  <2>1. \A f \in Facts(c) : f.kind \in {"package", "service", "env", "alias", "link", "template", "dir"}
    BY FactOf DEF Listables, NamedKinds
  <2> QED BY <2>1 DEF OfKind
<1> HIDE DEF dirs, F7, s2
<1>15. CASE dirs.err # ""
  BY <1>5, <1>13, <1>14, <1>15 DEF Outcome
<1>16. CASE dirs.err = ""
  <2>1. Fields \subseteq DOMAIN dirs /\ Gathers(dirs, F7) /\ dirs.sources = s2 /\ dirs.hooks = h
    BY <1>13, <1>16 DEF Outcome
  <2> DEFINE more == [i \in DOMAIN b.lists["hook"] |-> Rewritten(b.lists["hook"][i], Dir(c))]
             final == Hooks(dirs, b.lists["hook"], c)
  <2>2. final = [dirs EXCEPT !.hooks = @ \o more,
                             !.unsafe = @ \/ \E i \in DOMAIN b.lists["hook"] :
                                                  Escapes(b.lists["hook"][i].asset)]
    BY DEF Hooks
  <2> HIDE DEF final, more
  <2>3. /\ Fields \subseteq DOMAIN final /\ final.err = "" /\ final.sources = s2 /\ final.hooks = h \o more
        /\ final.decl = dirs.decl /\ final.owners = dirs.owners /\ final.dest = dirs.dest
    BY <1>16, <2>1, <2>2 DEF Fields
  <2>4. more = HooksOf(c)
    BY DEF more, HooksOf, b
  <2>5. Add(a, c) = final
    BY <1>5, <1>16 DEF final
  <2> QED BY <1>14, <2>1, <2>3, <2>4, <2>5 DEF Outcome, Gathers
<1> QED BY <1>15, <1>16

-----------------------------------------------------------------------------
(* Steps: nothing that a document says changes while one target is composed. *)

LEMMA SameWords ==
    ASSUME tree' = tree, target' = target
    PROVE  /\ \A c : /\ Facts(c)' = Facts(c) /\ Sourced(c)' = Sourced(c)
                     /\ Bundle(c)' = Bundle(c) /\ Live(c)' = Live(c)
           /\ \A f : Said(f)' = Said(f) /\ Origin(f)' = Origin(f)
           /\ Origins' = Origins
           /\ RelativeUnits' <=> RelativeUnits
           /\ Disagree' <=> Disagree
           /\ HasModules' <=> HasModules
<1>1. \A c : /\ Doc(c)' = Doc(c) /\ Dir(c)' = Dir(c) /\ BundleOf(Doc(c), target)' = BundleOf(Doc(c), target)
  BY DEF Doc, File, Dir, BundleOf
<1>2. \A c : Bundle(c)' = Bundle(c)
  BY <1>1 DEF Bundle
<1>3. \A c : Facts(c)' = Facts(c)
  BY <1>2 DEF Facts
<1>4. \A c : Sourced(c)' = Sourced(c) /\ Live(c)' = Live(c)
  BY <1>1, <1>2 DEF Sourced, Live
<1>5. \A f : Said(f)' = Said(f) /\ Origin(f)' = Origin(f)
  BY <1>1 DEF Said, Origin, FieldFor
<1>6. Origins' = Origins
  BY DEF Origins, Registered
<1>8. Closure' = Closure
  BY SameTarget
<1>9. Contributors' = Contributors
  BY <1>8 DEF Contributors
<1>10. RelativeUnits' <=> RelativeUnits
  BY <1>1, <1>4, <1>9 DEF RelativeUnits
<1>11. AllLive' = AllLive
  BY <1>4, <1>9 DEF AllLive
<1>12. Disagree' <=> Disagree
  BY <1>11 DEF Disagree
<1>13. HasModules' <=> HasModules
  BY DEF HasModules, Registered
<1> QED BY <1>2, <1>3, <1>4, <1>5, <1>6, <1>10, <1>12, <1>13

LEMMA GathersNext ==
    ASSUME tree' = tree, target' = target, NEW done, Gathers(acc', UNION {Facts(c) : c \in done})
    PROVE  Gathers(acc, UNION {Facts(c) : c \in done})'
<1> DEFINE F == UNION {Facts(c) : c \in done}
<1>1. /\ \A f : Said(f)' = Said(f) /\ Origin(f)' = Origin(f)
      /\ Origins' = Origins
  BY SameWords
<1>2. F' = F
  <2>1. \A c : Facts(c)' = Facts(c)
    BY SameWords
  <2> QED BY <2>1
<1> HIDE DEF F
<1>3. Gathers(acc', F)
  BY DEF F
<1>4. Resources(acc.decl, F)'
  BY <1>1, <1>2, <1>3 DEF Gathers, Resources
<1>5. Owned(acc.owners, F)'
  BY <1>1, <1>2, <1>3 DEF Gathers, Owned
<1>6. Destinations(acc.dest, F)'
  BY <1>1, <1>2, <1>3 DEF Gathers, Destinations
<1>7. Gathers(acc, F)'
  BY <1>4, <1>5, <1>6 DEF Gathers
<1> QED BY <1>7 DEF F

\* Nothing is gathered outside the union.
LEMMA Quiet ==
    ASSUME UnionInv, acc' \in {acc, EmptyAccumulator}, error' \notin {"conflict", "claimed"},
           pc' \notin {"flat", "union", "composed"},
           pc' \in {"load", "select"} => acc' = EmptyAccumulator
    PROVE  UnionInv'
BY DEF UnionInv

LEMMA StartQuiet ==
    ASSUME UnionInv, NEW t, StartResolve(t), tree' = tree, error' = ""
    PROVE  UnionInv'
<1>1. acc' = EmptyAccumulator
  BY DEF StartResolve
<1>3. HasModules' <=> HasModules
  BY DEF HasModules, Registered
<1>4. pc' = IF HasModules THEN "load" ELSE "flat"
  BY DEF StartResolve
<1> QED BY <1>1, <1>3, <1>4 DEF UnionInv

LEMMA Singleton == ASSUME NEW T, NEW x \in T PROVE <<x>> \in Seq(T) /\ ToSet(<<x>>) = {x}
<1>1. <<x>> \in Seq(T) /\ DOMAIN <<x>> = {1} /\ <<x>>[1] = x
  OBVIOUS
<1> QED BY <1>1 DEF ToSet

LEMMA HeadOf == ASSUME NEW x PROVE Head(<<x>>) = x /\ Tail(<<x>>) = <<>>
OBVIOUS

LEMMA ToSetCons ==
    ASSUME NEW T, NEW x \in T, NEW s \in Seq(T)
    PROVE  ToSet(<<x>> \o s) = {x} \cup ToSet(s)
<1>1. PICK one : one = <<x>>
  OBVIOUS
<1>2. one \in Seq(T) /\ ToSet(one) = {x}
  BY <1>1, Singleton
<1>3. ToSet(one \o s) = ToSet(one) \cup ToSet(s)
  BY <1>2, ToSetConcat
<1> QED BY <1>1, <1>2, <1>3

LEMMA InitUnion == Init => UnionInv
BY DEF Init, UnionInv

\* Where the union begins, nothing has been added.
LEMMA SelectedUnion == ASSUME SelectInv, UnionInv, Selected PROVE UnionInv'
<1>1. /\ pc = "select" /\ pc' = "union" /\ queue' = <<"">> \o selected /\ acc' = acc /\ error' = error
      /\ selected' = selected /\ tree' = tree /\ target' = target
  BY DEF Selected
<1>2. acc = EmptyAccumulator /\ error = "" /\ selected \in Seq(Registered) /\ tree \in Trees
  BY <1>1 DEF UnionInv, SelectInv, TypeOK, Typed
<1>3. ToSet(queue') = {""} \cup ToSet(selected)
  <2> DEFINE T == {""} \cup Registered
  <2>1. selected \in Seq(T)
    <3>1. Registered \subseteq T
      OBVIOUS
    <3> HIDE DEF T
    <3> QED BY <1>2, <3>1, SeqMonotonic
  <2>2. "" \in T
    OBVIOUS
  <2> HIDE DEF T
  <2>3. ToSet(<<"">> \o selected) = {""} \cup ToSet(selected)
    <3>1. PICK root : root = ""
      OBVIOUS
    <3>2. root \in T
      BY <2>2, <3>1
    <3>3. PICK list : list = selected
      OBVIOUS
    <3>4. list \in Seq(T)
      BY <2>1, <3>3
    <3>5. ToSet(<<root>> \o list) = {root} \cup ToSet(list)
      BY <3>2, <3>4, ToSetCons
    <3> QED BY <3>1, <3>3, <3>5
  <2> QED BY <1>1, <2>3
<1>4. UNION {Facts(c)' : c \in {}} = {} /\ UNION {Sourced(c)' : c \in {}} = {}
  OBVIOUS
<1>6. /\ acc'.sources = <<>> /\ acc'.hooks = <<>> /\ acc'.decl = <<>> /\ acc'.owners = <<>>
      /\ acc'.dest = <<>>
      /\ ToSet(<<>>) = {} /\ DOMAIN <<>> = {}
  <2>1. DOMAIN <<>> = {}
    OBVIOUS
  <2> QED BY <1>1, <1>2, <2>1 DEF EmptyAccumulator, ToSet
<1>5. Gathers(acc, {})'
  <2>1. Resources(acc.decl, {})' /\ Owned(acc.owners, {})' /\ Destinations(acc.dest, {})'
    BY <1>6 DEF Resources, Owned, Destinations
  <2> QED BY <2>1 DEF Gathers
<1>9. Fields \subseteq DOMAIN acc'
  BY <1>1, <1>2 DEF EmptyAccumulator, Fields
<1>7. selected' = <<>> => queue' = <<"">>
  <2>1. <<"">> \in Seq({""})
    BY Singleton
  <2>2. <<"">> \o <<>> = <<"">>
    BY <2>1, ConcatEmptySeq
  <2> QED BY <1>1, <2>2
<1>8. Gathered'
  <2>1. <<>> \in Seq(Seq(Words))
    BY EmptySeq
  <2>2. {} \in SUBSET ({""} \cup ToSet(selected')) /\ {} \cup ToSet(queue') = {""} \cup ToSet(selected')
    BY <1>1, <1>3
  <2>3. selected' = <<>> => queue' = <<"">> /\ acc'.hooks = <<>>
    BY <1>6, <1>7
  <2>4. acc'.sources \in Seq(Seq(Words)) /\ ToSet(acc'.sources) = UNION {Sourced(c)' : c \in {}}
    BY <1>4, <1>6, <2>1
  <2>5. Gathers(acc, UNION {Facts(c) : c \in {}})'
    BY <1>4, <1>5
  <2>6. (~RelativeUnits =>
            /\ Fields \subseteq DOMAIN acc /\ Gathers(acc, UNION {Facts(c) : c \in {}})
            /\ acc.sources \in Seq(Seq(Words))
            /\ ToSet(acc.sources) = UNION {Sourced(c) : c \in {}}
            /\ selected = <<>> => \/ queue = <<"">> /\ acc.hooks = <<>>
                                  \/ queue = <<>> /\ acc.hooks = Bundle("").lists["hook"])'
    BY <1>9, <2>3, <2>4, <2>5
  <2> QED BY <2>2, <2>6 DEF Gathered
<1> QED BY <1>1, <1>2, <1>8 DEF UnionInv

\* While the union is made, all contributors are known.
LEMMA UnionOf ==
    ASSUME SelectInv, NEW done \in SUBSET ({""} \cup ToSet(selected))
    PROVE  done \subseteq Contributors
<1>1. ToSet(selected) \subseteq Registered /\ \A S \in ClosedSets : ToSet(selected) \subseteq S
  BY ToSetFinite DEF SelectInv, TypeOK, Within
<1>2. ToSet(selected) \subseteq Closure
  BY <1>1, ClosureIsLeast
<1> QED BY <1>2 DEF Contributors

LEMMA RootHooks ==
    ASSUME tree \in Trees
    PROVE  <<>> \o HooksOf("") = Bundle("").lists["hook"]
<1> DEFINE items == Bundle("").lists["hook"]
<1>1. items \in Seq(Declarations)
  BY BlocksNamed, ContributorTyped
<1>2. HooksOf("") = [i \in DOMAIN items |-> Rewritten(items[i], <<>>)]
  BY DEF HooksOf, Dir
<1> HIDE DEF items
<1>3. DOMAIN items = 1..Len(items) /\ \A i \in 1..Len(items) : items[i] \in Declarations
  BY <1>1, LenProperties, ElementOfSeq
<1>4. \A i \in DOMAIN items : Rewritten(items[i], <<>>) = items[i]
  BY <1>3, RootAssets
<1>5. [i \in DOMAIN items |-> Rewritten(items[i], <<>>)] = [i \in DOMAIN items |-> items[i]]
  BY <1>4
<1>6. [i \in DOMAIN items |-> items[i]] = items
  BY <1>1, SeqDef
<1>7. <<>> \o items = items
  BY <1>1, ConcatEmptySeq
<1> QED BY <1>2, <1>5, <1>6, <1>7 DEF items

\* A contributor's words join what was gathered.
LEMMA AddedOutcome ==
    ASSUME SelectInv, pc = "union", queue # <<>>, ~RelativeUnits,
           NEW done \in SUBSET ({""} \cup ToSet(selected)),
           done \cup ToSet(queue) = {""} \cup ToSet(selected),
           Fields \subseteq DOMAIN acc, Gathers(acc, UNION {Facts(c) : c \in done})
    PROVE  /\ Head(queue) \in Contributors /\ done \subseteq Contributors
           /\ Outcome(Add(acc, Head(queue)), UNION {Facts(c) : c \in done \cup {Head(queue)}},
                      Sources(acc.sources, Bundle(Head(queue)).lists["source"]),
                      acc.hooks \o HooksOf(Head(queue)))
<1> DEFINE c == Head(queue)
           F == UNION {Facts(e) : e \in done}
<1>1. queue \in Seq({""} \cup Registered) /\ acc.err = "" /\ tree \in Trees
  BY DEF SelectInv, Typed
<1>2. ToSet(queue) = {c} \cup ToSet(Tail(queue))
  BY <1>1, ToSetTail
<1>3. c \in {""} \cup ToSet(selected)
  BY <1>2
<1>4. done \subseteq Contributors /\ c \in Contributors
  <2>1. {c} \in SUBSET ({""} \cup ToSet(selected))
    BY <1>3
  <2> HIDE DEF c
  <2>2. {c} \subseteq Contributors
    BY <2>1, UnionOf
  <2> QED BY <2>2, UnionOf
<1>5. Outcome(acc, F, acc.sources, acc.hooks)
  BY <1>1 DEF Outcome
<1>6. UNION {Facts(e) : e \in done \cup {c}} = F \cup Facts(c)
  <2> HIDE DEF c
  <2> QED OBVIOUS
<1> HIDE DEF c, F
<1>7. Outcome(Add(acc, c), F \cup Facts(c), Sources(acc.sources, Bundle(c).lists["source"]),
              acc.hooks \o HooksOf(c))
  BY <1>1, <1>4, <1>5, AddOutcome
<1> QED BY <1>4, <1>6, <1>7 DEF c

LEMMA AddNextUnion == ASSUME SelectInv, UnionInv, AddNext PROVE UnionInv'
<1> DEFINE c == Head(queue)
<1>1. /\ pc = "union" /\ queue # <<>> /\ acc' = Add(acc, c) /\ acc'.err = "" /\ queue' = Tail(queue)
      /\ tree' = tree /\ target' = target /\ selected' = selected /\ pc' = pc /\ error' = error
  BY DEF AddNext
<1>2. error = "" /\ queue \in Seq({""} \cup Registered) /\ tree \in Trees
  BY <1>1 DEF SelectInv, TypeOK, Typed
<1>3. PICK done \in SUBSET ({""} \cup ToSet(selected)) :
        /\ done \cup ToSet(queue) = {""} \cup ToSet(selected)
        /\ ~RelativeUnits =>
               /\ Fields \subseteq DOMAIN acc /\ Gathers(acc, UNION {Facts(e) : e \in done})
               /\ acc.sources \in Seq(Seq(Words))
               /\ ToSet(acc.sources) = UNION {Sourced(e) : e \in done}
               /\ selected = <<>> => \/ queue = <<"">> /\ acc.hooks = <<>>
                                     \/ queue = <<>> /\ acc.hooks = Bundle("").lists["hook"]
  BY <1>1 DEF UnionInv, Gathered
<1> DEFINE more == done \cup {c}
<1>4. ToSet(queue) = {c} \cup ToSet(queue')
  BY <1>1, <1>2, ToSetTail
<1>5. more \in SUBSET ({""} \cup ToSet(selected')) /\ more \cup ToSet(queue') = {""} \cup ToSet(selected')
  BY <1>1, <1>3, <1>4
<1>6. ASSUME ~RelativeUnits
      PROVE  /\ Fields \subseteq DOMAIN acc' /\ Gathers(acc', UNION {Facts(e) : e \in more})
             /\ acc'.sources \in Seq(Seq(Words))
             /\ ToSet(acc'.sources) = UNION {Sourced(e) : e \in more}
             /\ selected' = <<>> => \/ queue' = <<"">> /\ acc'.hooks = <<>>
                                    \/ queue' = <<>> /\ acc'.hooks = Bundle("").lists["hook"]
  <2> DEFINE items == Bundle(c).lists["source"]
  <2>1. /\ c \in Contributors
        /\ Outcome(acc', UNION {Facts(e) : e \in more}, Sources(acc.sources, items), acc.hooks \o HooksOf(c))
    BY <1>1, <1>3, <1>6, AddedOutcome
  <2>2. c = "" \/ c \in Registered
    BY <2>1 DEF Contributors, Closure
  <2>3. items \in Seq(Declarations)
    BY <1>2, <2>2, BlocksNamed, ContributorTyped
  <2>4. Sourced(c) = ToSet(Keys(items))
    BY SourcedIs
  <2> HIDE DEF more, items
  <2>5. /\ Fields \subseteq DOMAIN acc' /\ Gathers(acc', UNION {Facts(e) : e \in more})
        /\ acc'.sources = Sources(acc.sources, items) /\ acc'.hooks = acc.hooks \o HooksOf(c)
    BY <1>1, <2>1 DEF Outcome
  <2>6. acc'.sources \in Seq(Seq(Words)) /\ ToSet(acc'.sources) = ToSet(acc.sources) \cup Sourced(c)
    BY <1>3, <1>6, <2>3, <2>4, <2>5, SourcesLemma
  <2>7. UNION {Sourced(e) : e \in more} = (UNION {Sourced(e) : e \in done}) \cup Sourced(c)
    BY DEF more
  <2>8. ASSUME selected' = <<>> PROVE queue' = <<>> /\ acc'.hooks = Bundle("").lists["hook"]
    <3>1. queue = <<"">> /\ acc.hooks = <<>>
      BY <1>1, <1>3, <1>6, <2>8
    <3>2. c = "" /\ queue' = <<>>
      <4>1. Head(<<"">>) = "" /\ Tail(<<"">>) = <<>>
        BY HeadOf
      <4> QED BY <1>1, <3>1, <4>1
    <3> QED BY <1>2, <2>5, <3>1, <3>2, RootHooks
  <2> QED BY <1>3, <1>6, <2>5, <2>6, <2>7, <2>8
<1>7. Gathered'
  <2> HIDE DEF more
  <2>0. PICK m : m = more
    OBVIOUS
  <2>1. /\ \A e : Facts(e)' = Facts(e) /\ Sourced(e)' = Sourced(e) /\ Bundle(e)' = Bundle(e)
        /\ RelativeUnits' <=> RelativeUnits
    BY <1>1, SameWords
  <2>2. UNION {Sourced(e)' : e \in m} = UNION {Sourced(e) : e \in m}
    BY <2>1
  <2>3. ASSUME ~RelativeUnits
        PROVE  /\ Fields \subseteq DOMAIN acc' /\ Gathers(acc, UNION {Facts(e) : e \in m})'
               /\ acc'.sources \in Seq(Seq(Words))
               /\ ToSet(acc'.sources) = UNION {Sourced(e)' : e \in m}
               /\ selected' = <<>> => \/ queue' = <<"">> /\ acc'.hooks = <<>>
                                      \/ queue' = <<>> /\ acc'.hooks = (Bundle("").lists["hook"])'
    <3>1. Gathers(acc', UNION {Facts(e) : e \in m})
      BY <1>6, <2>0, <2>3
    <3>2. Gathers(acc, UNION {Facts(e) : e \in m})'
      BY <1>1, <3>1, GathersNext
    <3> QED BY <1>6, <2>0, <2>1, <2>2, <2>3, <3>2
  <2>4. m \in SUBSET ({""} \cup ToSet(selected')) /\ m \cup ToSet(queue') = {""} \cup ToSet(selected')
    BY <1>5, <2>0
  <2> QED BY <2>1, <2>3, <2>4 DEF Gathered, Fields
<1> QED BY <1>1, <1>2, <1>7 DEF UnionInv

\* What contributors say is what the properties speak of.
LEMMA SaidLive ==
    ASSUME tree \in Trees
    PROVE  AllLive = {Said(f) : f \in UNION {Facts(c) : c \in Contributors}}
<1>1. \A c \in Contributors : Live(c) = {Said(f) : f \in Facts(c)}
  BY LiveFacts DEF Contributors, Closure
<1>2. ASSUME NEW x \in AllLive PROVE \E f \in UNION {Facts(c) : c \in Contributors} : x = Said(f)
  <2>1. PICK c \in Contributors : x \in Live(c)
    BY DEF AllLive
  <2>2. PICK f \in Facts(c) : x = Said(f)
    BY <1>1, <2>1
  <2> QED BY <2>2
<1>3. ASSUME NEW f \in UNION {Facts(c) : c \in Contributors} PROVE Said(f) \in AllLive
  <2>1. PICK c \in Contributors : f \in Facts(c)
    OBVIOUS
  <2>2. Said(f) \in Live(c)
    BY <1>1, <2>1
  <2> QED BY <2>2 DEF AllLive
<1> QED BY <1>2, <1>3

LEMMA DisagreeIs == Disagree <=> \E x, y \in AllLive : Clash(x, y)
BY DEF Disagree, Clash

LEMMA AddRefusedUnion == ASSUME SelectInv, UnionInv, AddRefused PROVE UnionInv'
<1> DEFINE c == Head(queue)
<1>1. /\ pc = "union" /\ queue # <<>> /\ Add(acc, c).err # "" /\ pc' = "failed"
      /\ acc' = acc /\ tree' = tree /\ target' = target
  BY DEF AddRefused, Fail, Resolving
<1>2. tree \in Trees
  BY DEF SelectInv, Typed
<1>3. ASSUME ~RelativeUnits PROVE Disagree
  <2>1. PICK done \in SUBSET ({""} \cup ToSet(selected)) :
          /\ done \cup ToSet(queue) = {""} \cup ToSet(selected)
          /\ Fields \subseteq DOMAIN acc /\ Gathers(acc, UNION {Facts(e) : e \in done})
    BY <1>1, <1>3 DEF UnionInv, Gathered
  <2> DEFINE more == done \cup {c}
  <2>2. /\ c \in Contributors /\ done \subseteq Contributors
        /\ Outcome(Add(acc, c), UNION {Facts(e) : e \in more},
                   Sources(acc.sources, Bundle(c).lists["source"]), acc.hooks \o HooksOf(c))
    BY <1>1, <1>3, <2>1, AddedOutcome
  <2>3. more \subseteq Contributors
    BY <2>2
  <2> HIDE DEF more
  <2>4. PICK f, g \in UNION {Facts(e) : e \in more} : Clash(Said(f), Said(g))
    BY <1>1, <2>2 DEF Outcome
  <2>5. f \in UNION {Facts(e) : e \in Contributors} /\ g \in UNION {Facts(e) : e \in Contributors}
    BY <2>3
  <2>6. Said(f) \in AllLive /\ Said(g) \in AllLive
    BY <1>2, <2>5, SaidLive
  <2> QED BY <2>4, <2>6, DisagreeIs
<1>4. (Disagree' <=> Disagree) /\ (RelativeUnits' <=> RelativeUnits)
  BY <1>1, SameWords
<1> QED BY <1>1, <1>3, <1>4 DEF UnionInv

\* What was gathered stays.
LEMMA GatheredStays ==
    ASSUME Gathered, tree' = tree, target' = target, acc' = acc, queue' = queue, selected' = selected
    PROVE  Gathered'
<1>1. PICK done \in SUBSET ({""} \cup ToSet(selected)) :
        /\ done \cup ToSet(queue) = {""} \cup ToSet(selected)
        /\ ~RelativeUnits =>
               /\ Fields \subseteq DOMAIN acc /\ Gathers(acc, UNION {Facts(e) : e \in done})
               /\ acc.sources \in Seq(Seq(Words))
               /\ ToSet(acc.sources) = UNION {Sourced(e) : e \in done}
               /\ selected = <<>> => \/ queue = <<"">> /\ acc.hooks = <<>>
                                     \/ queue = <<>> /\ acc.hooks = Bundle("").lists["hook"]
  BY DEF Gathered
<1>2. /\ \A e : Sourced(e)' = Sourced(e) /\ Bundle(e)' = Bundle(e)
      /\ RelativeUnits' <=> RelativeUnits
  BY SameWords
<1>3. UNION {Sourced(e)' : e \in done} = UNION {Sourced(e) : e \in done}
  BY <1>2
<1>4. ~RelativeUnits => Gathers(acc, UNION {Facts(e) : e \in done})'
  <2> SUFFICES ASSUME ~RelativeUnits PROVE Gathers(acc, UNION {Facts(e) : e \in done})'
    OBVIOUS
  <2>1. Gathers(acc', UNION {Facts(e) : e \in done})
    BY <1>1
  <2> QED BY <2>1, GathersNext
<1> QED BY <1>1, <1>2, <1>3, <1>4 DEF Gathered, Fields

LEMMA FlatUnion == ASSUME SelectInv, UnionInv, Flat PROVE UnionInv'
<1>1. /\ pc = "flat" /\ tree' = tree /\ target' = target /\ acc' = acc /\ ~HasModules
      /\ error = ""
  BY DEF Flat, UnionInv, SelectInv, TypeOK
<1>2. HasModules' <=> HasModules
  BY <1>1, SameWords
<1>3. \/ pc' = "composed" /\ error' = error
      \/ pc' = "failed" /\ error' = "watch"
  BY DEF Flat, Answer, Fail
<1> QED BY <1>1, <1>2, <1>3 DEF UnionInv

LEMMA UnionUnion == ASSUME SelectInv, UnionInv, Union PROVE UnionInv'
<1>1. /\ pc = "union" /\ queue = <<>> /\ error = ""
      /\ tree' = tree /\ target' = target /\ acc' = acc /\ queue' = queue /\ selected' = selected
  BY DEF Union, SelectInv, TypeOK
<1>2. CASE pc' = "failed"
  <2>1. error' \in {"escape", "watch", "graph"}
    BY <1>1, <1>2 DEF Union, Answer, Fail
  <2> QED BY <1>1, <1>2, <2>1, Quiet
<1>3. CASE pc' = "composed"
  <2>1. effective' = Composed /\ error' = ""
    BY <1>1, <1>3 DEF Union, Answer, Fail
  <2>2. Composed' = Composed
    BY <1>1 DEF Composed
  <2>3. Gathered
    BY <1>1 DEF UnionInv
  <2>4. Gathered'
    BY <1>1, <2>3, GatheredStays
  <2> QED BY <1>1, <1>3, <2>1, <2>2, <2>4 DEF UnionInv
<1>4. pc' \in {"failed", "composed"}
  BY DEF Union, Answer, Fail
<1> QED BY <1>2, <1>3, <1>4

LEMMA UnionStep == SelectInv /\ UnionInv /\ [Next]_vars => UnionInv'
<1> SUFFICES ASSUME SelectInv, UnionInv, [Next]_vars PROVE UnionInv'
  OBVIOUS
<1>0. pc # "failed" => error = ""
  BY DEF SelectInv, TypeOK
<1>1. CASE ReadRefused
  BY <1>0, <1>1, Quiet DEF ReadRefused, Fail, Resolving
<1>2. CASE ReadForApply
  BY <1>0, <1>2, StartQuiet DEF ReadForApply
<1>3. CASE ReadForValidate
  <2>1. pc' \in {"accepted", "loadAll"} /\ acc' = acc /\ error' = ""
    BY <1>0, <1>3 DEF ReadForValidate, Resolving
  <2> QED BY <2>1, Quiet
<1>4. CASE LoadAgain
  <2>1. pc' = pc /\ pc \in {"load", "loadAll"} /\ acc' = acc /\ error' = ""
    BY <1>0, <1>4 DEF LoadAgain, Loading
  <2> QED BY <2>1, Quiet DEF UnionInv
<1>5. CASE LoadOne
  <2>1. pc' = pc /\ pc \in {"load", "loadAll"} /\ acc' = acc /\ error' = ""
    BY <1>0, <1>5 DEF LoadOne, Loading
  <2> QED BY <2>1, Quiet DEF UnionInv
<1>6. CASE LoadRefused
  <2>1. pc' = "failed" /\ acc' = acc /\ error' \in {"limit", "missing", "escape", "invalidModule", ""}
    BY <1>6 DEF LoadRefused, LoadFault, Fail, Resolving
  <2> QED BY <2>1, Quiet
<1>7. CASE Loaded
  <2>1. CASE pc = "load"
    <3>1. pc' = "select" /\ acc' = acc /\ error' = "" /\ acc = EmptyAccumulator
      BY <1>0, <1>7, <2>1 DEF Loaded, Resolving, UnionInv
    <3> QED BY <3>1, Quiet
  <2>2. CASE pc # "load"
    <3>1. PICK t \in todo : StartResolve(t)
      BY <1>7, <2>2 DEF Loaded
    <3>2. tree' = tree /\ error' = ""
      BY <1>0, <1>7 DEF Loaded
    <3> QED BY <3>1, <3>2, StartQuiet
  <2> QED BY <2>1, <2>2
<1>8. CASE Visit
  <2>1. pc' = pc /\ pc = "select" /\ acc' = acc /\ error' = ""
    BY <1>0, <1>8 DEF Visit, Ask
  <2> QED BY <2>1, Quiet DEF UnionInv
<1>9. CASE VisitEnd
  <2>1. pc' = pc /\ pc = "select" /\ acc' = acc /\ error' = ""
    BY <1>0, <1>9 DEF VisitEnd
  <2> QED BY <2>1, Quiet DEF UnionInv
<1>10. CASE VisitRefused
  <2>1. pc' = "failed" /\ acc' = acc /\ error' \in {"limit", "missing", "cycle"}
    BY <1>10 DEF VisitRefused, VisitFault, Fail, Resolving
  <2> QED BY <2>1, Quiet
<1>11. CASE Selected
  BY <1>11, SelectedUnion
<1>12. CASE AddNext
  BY <1>12, AddNextUnion
<1>13. CASE AddRefused
  BY <1>13, AddRefusedUnion
<1>14. CASE Flat
  BY <1>14, FlatUnion
<1>15. CASE Union
  BY <1>15, UnionUnion
<1>16. CASE ValidateNext
  <2>1. CASE todo = {}
    <3>1. pc' = "accepted" /\ acc' = acc /\ error' = ""
      BY <1>0, <1>16, <2>1 DEF ValidateNext, Resolving
    <3> QED BY <3>1, Quiet
  <2>2. CASE todo # {}
    <3>1. PICK t \in todo : StartResolve(t)
      BY <1>16, <2>2 DEF ValidateNext
    <3>2. tree' = tree /\ error' = ""
      BY <1>0, <1>16 DEF ValidateNext
    <3> QED BY <3>1, <3>2, StartQuiet
  <2> QED BY <2>1, <2>2
<1>17. CASE ApplyAfterValidate
  <2>1. pc' = "read" /\ acc' = EmptyAccumulator /\ error' = ""
    BY <1>17 DEF ApplyAfterValidate
  <2> QED BY <2>1, Quiet
<1>18. CASE UNCHANGED vars
  <2>1. /\ tree' = tree /\ target' = target /\ pc' = pc /\ acc' = acc /\ queue' = queue
        /\ selected' = selected /\ effective' = effective /\ error' = error
    BY <1>18 DEF vars
  <2>2. /\ HasModules' <=> HasModules
        /\ Disagree' <=> Disagree
        /\ RelativeUnits' <=> RelativeUnits
    BY <2>1, SameWords
  <2>3. Composed' = Composed
    BY <2>1 DEF Composed
  <2>4. Gathered => Gathered'
    BY <2>1, GatheredStays
  <2> QED BY <2>1, <2>2, <2>3, <2>4 DEF UnionInv
<1> QED BY <1>1, <1>2, <1>3, <1>4, <1>5, <1>6, <1>7, <1>8, <1>9, <1>10, <1>11, <1>12, <1>13, <1>14,
           <1>15, <1>16, <1>17, <1>18 DEF Next

-----------------------------------------------------------------------------
(* The properties.                                                         *)

LEMMA EmptyDomain == DOMAIN <<>> = {}
OBVIOUS

LEMMA NoKeys == ToSet(Keys(<<>>)) = {}
BY EmptyDomain DEF ToSet, Keys

\* The owner of a declaration has it in the block that is named.
LEMMA OwnerHolds ==
    ASSUME tree \in Trees, NEW c, c = "" \/ c \in Registered, NEW f \in Facts(c),
           NEW id, id = Said(f).id, acc.decl[id] = Said(f).val
    PROVE  Holds(Origin(f), id)
<1> DEFINE t == BundleOf(Doc(c), target)
           d == Doc(c).defaults
           b == IF Origin(f).field = "targets" THEN t ELSE d
           In(e) == {e.named[k] : k \in {j \in DOMAIN e.named : j = id}}
                    \cup UNION {{x \in ToSet(e.lists[l].items) : Identity(l, x) = id}
                                  : l \in {"package", "link", "template", "dir"}}
           here == In(b)
<1>1. /\ f.by = c /\ f.d \in Declarations
      /\ \/ f.kind \in Listables /\ f.d \in ToSet(Bundle(c).lists[f.kind])
         \/ /\ f.kind \in NamedKinds /\ <<f.kind, f.d.key>> \in DOMAIN Bundle(c).named
            /\ f.d = Bundle(c).named[<<f.kind, f.d.key>>]
  BY FactOf
<1>2. id = Identity(f.kind, f.d) /\ Rewritten(f.d, Dir(c)) = acc.decl[id]
  BY <1>1 DEF Said
<1>3. /\ Origin(f).module = c
      /\ Origin(f).field = IF Declares(t, f.kind, f.d.key) THEN "targets"
                           ELSE IF Declares(d, f.kind, f.d.key) THEN "defaults" ELSE "targets"
  BY <1>1 DEF Origin, FieldFor
<1>4. IsBundle(d) /\ IsBundle(t)
  BY ContributorDoc
<1>7. Holds(Origin(f), id) <=> \E x \in here : Rewritten(x, Dir(c)) = acc.decl[id]
  <2> DEFINE m == Origin(f).module
             e == IF Origin(f).field = "targets" THEN BundleOf(Doc(m), target) ELSE Doc(m).defaults
  <2>1. Holds(Origin(f), id) <=> \E x \in In(e) : Rewritten(x, Dir(m)) = acc.decl[id]
    BY DEF Holds
  <2>2. m = c
    BY <1>3
  <2> HIDE DEF m, In
  <2> QED BY <2>1, <2>2
<1> HIDE DEF t, d
<1>5. CASE f.kind \in Listables
  <2>1. f.kind \in ToSet(Blocks) /\ f.kind \notin NamedKinds
    BY <1>5, BlocksNamed DEF Listables, NamedKinds
  <2>2. f.d \in ToSet(IF t.lists[f.kind].nil THEN d.lists[f.kind].items ELSE t.lists[f.kind].items)
    BY <1>1, <2>1, BundleLists DEF t, d
  <2>3. ASSUME NEW e, f.d \in ToSet(e.lists[f.kind].items) PROVE Declares(e, f.kind, f.d.key)
    <3>1. f.d.key \in ToSet(Keys(e.lists[f.kind].items))
      BY <2>3 DEF ToSet, Keys
    <3> QED BY <2>1, <3>1 DEF Declares
  <2>4. f.d \in ToSet(b.lists[f.kind].items)
    <3>1. CASE ~t.lists[f.kind].nil
      <4>1. f.d \in ToSet(t.lists[f.kind].items)
        BY <2>2, <3>1
      <4>2. Origin(f).field = "targets"
        BY <1>3, <2>3, <4>1
      <4> QED BY <4>1, <4>2
    <3>2. CASE t.lists[f.kind].nil
      <4>1. f.d \in ToSet(d.lists[f.kind].items) /\ Declares(d, f.kind, f.d.key)
        BY <2>2, <2>3, <3>2
      <4>2. t.lists[f.kind].items = <<>>
        BY <1>4, <2>1, <3>2 DEF IsBundle
      <4>3. ToSet(Keys(t.lists[f.kind].items)) = {}
        BY <4>2, NoKeys
      <4>4. \A k \in DOMAIN t.named : k[1] \in NamedKinds
        BY <1>4 DEF IsBundle, NamedKinds
      <4>5. <<f.kind, f.d.key>> \notin DOMAIN t.named
        BY <2>1, <4>4
      <4>6. ~Declares(t, f.kind, f.d.key)
        BY <4>3, <4>5 DEF Declares
      <4>7. Origin(f).field = "defaults"
        BY <1>3, <4>1, <4>6
      <4> QED BY <4>1, <4>7
    <3> QED BY <3>1, <3>2
  <2>5. f.d \in {x \in ToSet(b.lists[f.kind].items) : Identity(f.kind, x) = id}
    BY <1>2, <2>4
  <2>6. f.d \in here
    <3> DEFINE S(l) == {x \in ToSet(b.lists[l].items) : Identity(l, x) = id}
               U == UNION {S(l) : l \in {"package", "link", "template", "dir"}}
    <3>1. f.d \in S(f.kind) /\ f.kind \in {"package", "link", "template", "dir"}
      BY <1>5, <2>5 DEF Listables
    <3>2. U \subseteq here
      OBVIOUS
    <3> HIDE DEF S, here
    <3>3. f.d \in U
      BY <3>1
    <3> QED BY <3>2, <3>3
  <2> HIDE DEF here
  <2> QED BY <1>2, <1>7, <2>6
<1>6. CASE f.kind \in NamedKinds
  <2> DEFINE k == <<f.kind, f.d.key>>
  <2>1. f.kind \notin ToSet(Blocks) /\ f.kind \notin Listables
    BY <1>6, BlocksNamed DEF Listables, NamedKinds
  <2>2. k \in DOMAIN Bundle(c).named /\ f.d = Bundle(c).named[k]
    BY <1>1, <2>1
  <2>3. id = k
    BY <1>2, <1>6 DEF Identity, NamedKinds
  <2>4. \A e : Declares(e, f.kind, f.d.key) <=> k \in DOMAIN e.named
    BY <2>1 DEF Declares
  <2> HIDE DEF k
  <2>5. k \in DOMAIN b.named /\ f.d = b.named[k]
    <3>1. CASE k \in DOMAIN t.named
      <4>1. f.d = t.named[k]
        BY <2>2, <3>1, BundleNamed DEF t, d
      <4>2. Origin(f).field = "targets"
        BY <1>3, <2>4, <3>1
      <4> QED BY <3>1, <4>1, <4>2
    <3>2. CASE k \notin DOMAIN t.named
      <4>1. k \in DOMAIN d.named /\ f.d = d.named[k]
        BY <2>2, <3>2, BundleNamed DEF t, d
      <4>2. Origin(f).field = "defaults"
        BY <1>3, <2>4, <3>2, <4>1
      <4> QED BY <4>1, <4>2
    <3> QED BY <3>1, <3>2
  <2>6. f.d \in here
    BY <2>3, <2>5
  <2> HIDE DEF here
  <2> QED BY <1>2, <1>7, <2>6
<1> QED BY <1>1, <1>5, <1>6

\* All that the contributors say.
AllFacts == UNION {Facts(c) : c \in Contributors}

\* A composed environment has been gathered from every contributor.
LEMMA AllGathered ==
    ASSUME SelectInv, UnionInv, pc = "composed", HasModules
    PROVE  /\ effective = Composed /\ tree \in Trees
           /\ ~RelativeUnits =>
                  /\ Gathers(acc, AllFacts) /\ ToSet(acc.sources) = UNION {Sourced(c) : c \in Contributors}
                  /\ selected = <<>> => acc.hooks = Bundle("").lists["hook"]
<1>1. Gathered /\ queue = <<>> /\ effective = Composed
  BY DEF UnionInv
<1>2. PICK done \in SUBSET ({""} \cup ToSet(selected)) :
        /\ done \cup ToSet(queue) = {""} \cup ToSet(selected)
        /\ ~RelativeUnits =>
               /\ Fields \subseteq DOMAIN acc /\ Gathers(acc, UNION {Facts(e) : e \in done})
               /\ acc.sources \in Seq(Seq(Words))
               /\ ToSet(acc.sources) = UNION {Sourced(e) : e \in done}
               /\ selected = <<>> => \/ queue = <<"">> /\ acc.hooks = <<>>
                                     \/ queue = <<>> /\ acc.hooks = Bundle("").lists["hook"]
  BY <1>1 DEF Gathered
<1>3. ToSet(selected) = Closure
  BY CompleteIsClosure
<1>4. ToSet(queue) = {}
  BY <1>1, EmptyDomain DEF ToSet
<1>5. done = Contributors
  BY <1>2, <1>3, <1>4 DEF Contributors
<1>6. queue # <<"">>
  <2>1. ToSet(<<"">>) = {""}
    BY Singleton
  <2> QED BY <1>4, <2>1
<1> QED BY <1>1, <1>2, <1>5, <1>6 DEF AllFacts, SelectInv, Typed

LEMMA ComposedFields ==
    /\ Composed.decls = {<<id, acc.decl[id]>> : id \in DOMAIN acc.decl}
    /\ Composed.lists["source"] = acc.sources /\ Composed.lists["hook"] = acc.hooks
BY DEF Composed

\* Each resource is composed as it was said.
LEMMA DeclsAreSaid ==
    ASSUME NEW decl, NEW F, Resources(decl, F)
    PROVE  {<<id, decl[id]>> : id \in DOMAIN decl} = {<<Said(f).id, Said(f).val>> : f \in F}
BY DEF Resources

LEMMA NoneDisagree ==
    ASSUME NEW a, NEW F, Gathers(a, F), NEW f \in F, NEW g \in F
    PROVE  ~Clash(Said(f), Said(g))
BY DEF Gathers, Resources, Destinations, Clash

\* The document on its own.
LEMMA FlatIsBundle ==
    LET m == MergeTarget(tree.root.defaults, BundleOf(tree.root, target)) IN
    /\ \A b \in ToSet(Blocks) : m.lists[b] = Bundle("").lists[b]
    /\ DOMAIN m.named = DOMAIN Bundle("").named
    /\ \A k \in DOMAIN m.named : m.named[k] = Bundle("").named[k]
<1> DEFINE d == tree.root.defaults
           t == BundleOf(tree.root, target)
           m == MergeTarget(d, t)
<1>1. Doc("") = tree.root
  BY DEF Doc
<1>2. \A b \in ToSet(Blocks) : m.lists[b] = Bundle("").lists[b]
  <2> SUFFICES ASSUME NEW b \in ToSet(Blocks) PROVE m.lists[b] = Bundle("").lists[b]
    OBVIOUS
  <2>1. m.lists[b] = IF ~t.lists[b].nil THEN t.lists[b].items ELSE d.lists[b].items
    BY DEF MergeTarget, FlatList
  <2> HIDE DEF m
  <2> QED BY <1>1, <2>1, BundleLists
<1>3. m.named = FlatEntries(d.named, t.named)
  BY DEF MergeTarget
<1> HIDE DEF m
<1> DEFINE dn == d.named
           tn == t.named
           live == {k \in DOMAIN dn : ~dn[k].null}
           kept == (live \cup DOMAIN tn) \ {k \in DOMAIN tn : tn[k].null}
<1>4. m.named = [k \in kept |-> IF k \in DOMAIN tn THEN tn[k] ELSE dn[k]]
  BY <1>3 DEF FlatEntries
<1>5. /\ DOMAIN Bundle("").named = {k \in DOMAIN tn : ~tn[k].null}
                                    \cup {k \in DOMAIN dn \ DOMAIN tn : ~dn[k].null}
      /\ \A k \in DOMAIN Bundle("").named : Bundle("").named[k] = IF k \in DOMAIN tn THEN tn[k] ELSE dn[k]
  <2> DEFINE D == Doc("").defaults.named
             T == BundleOf(Doc(""), target).named
  <2>1. /\ DOMAIN Bundle("").named = {k \in DOMAIN T : ~T[k].null}
                                      \cup {k \in DOMAIN D \ DOMAIN T : ~D[k].null}
        /\ \A k \in DOMAIN Bundle("").named : Bundle("").named[k] = IF k \in DOMAIN T THEN T[k] ELSE D[k]
    BY BundleNamed
  <2>2. D = dn /\ T = tn
    BY <1>1
  <2> HIDE DEF D, T, dn, tn
  <2> QED BY <2>1, <2>2
<1> HIDE DEF dn, tn
<1>6. DOMAIN m.named = DOMAIN Bundle("").named
  BY <1>4, <1>5
<1> HIDE DEF kept
<1>7. \A k \in DOMAIN m.named : m.named[k] = Bundle("").named[k]
  BY <1>4, <1>5, <1>6
<1> QED BY <1>2, <1>6, <1>7 DEF m

LEMMA FlatDecls ==
    ASSUME tree \in Trees
    PROVE  FlatEnvironment.decls = {<<Said(f).id, Said(f).val>> : f \in Facts("")}
<1> DEFINE m == MergeTarget(tree.root.defaults, BundleOf(tree.root, target))
           listed(b) == {<<Identity(b, d), d>> : d \in ToSet(m.lists[b])}
           L == UNION {listed(b) : b \in {"package", "link", "template", "dir"}}
           N == {<<k, m.named[k]>> : k \in DOMAIN m.named}
<1>1. FlatEnvironment.decls = N \cup L
  BY DEF FlatEnvironment
<1>2. /\ \A b \in Listables : m.lists[b] = Bundle("").lists[b]
      /\ DOMAIN m.named = DOMAIN Bundle("").named
      /\ \A k \in DOMAIN m.named : m.named[k] = Bundle("").named[k]
  BY FlatIsBundle, BlocksNamed DEF Listables
<1> HIDE DEF m
<1>3. ASSUME NEW f \in Facts("") PROVE Said(f).id = Identity(f.kind, f.d) /\ Said(f).val = f.d
  <2>1. f.by = "" /\ f.d \in Declarations
    BY FactOf
  <2>2. Rewritten(f.d, Dir("")) = f.d
    BY <2>1, RootAssets DEF Dir
  <2> QED BY <2>1, <2>2 DEF Said
<1>4. ASSUME NEW x \in N PROVE \E f \in Facts("") : x = <<Said(f).id, Said(f).val>>
  <2>1. PICK k \in DOMAIN m.named : x = <<k, m.named[k]>>
    OBVIOUS
  <2> DEFINE f == Fact("", k[1], Bundle("").named[k])
  <2>2. k \in DOMAIN Bundle("").named /\ x = <<k, Bundle("").named[k]>>
    BY <1>2, <2>1
  <2>3. f \in Facts("") /\ k[1] \in NamedKinds /\ k = <<k[1], Bundle("").named[k].key>>
    BY <2>2, NamedFact
  <2>4. f.kind = k[1] /\ f.d = Bundle("").named[k]
    BY DEF Fact
  <2>5. Identity(f.kind, f.d) = <<k[1], Bundle("").named[k].key>>
    BY <2>3, <2>4 DEF Identity, NamedKinds
  <2> HIDE DEF f
  <2> QED BY <1>3, <2>2, <2>3, <2>4, <2>5
<1>5. ASSUME NEW x \in L PROVE \E f \in Facts("") : x = <<Said(f).id, Said(f).val>>
  <2>1. PICK b \in {"package", "link", "template", "dir"} : x \in listed(b)
    <3> HIDE DEF listed
    <3> QED OBVIOUS
  <2>2. b \in Listables
    BY <2>1 DEF Listables
  <2>3. PICK d \in ToSet(Bundle("").lists[b]) : x = <<Identity(b, d), d>>
    BY <1>2, <2>1, <2>2
  <2> DEFINE f == Fact("", b, d)
  <2>4. f \in Facts("")
    BY <2>2, <2>3, ListedFact
  <2>5. f.kind = b /\ f.d = d
    BY DEF Fact
  <2> HIDE DEF f
  <2> QED BY <1>3, <2>3, <2>4, <2>5
<1>6. ASSUME NEW f \in Facts("") PROVE <<Said(f).id, Said(f).val>> \in N \cup L
  <2>1. <<Said(f).id, Said(f).val>> = <<Identity(f.kind, f.d), f.d>>
    BY <1>3
  <2>2. CASE f.kind \in Listables /\ f.d \in ToSet(Bundle("").lists[f.kind])
    <3>1. f.d \in ToSet(m.lists[f.kind])
      BY <1>2, <2>2
    <3>2. <<Identity(f.kind, f.d), f.d>> \in listed(f.kind)
      BY <3>1
    <3>3. f.kind \in {"package", "link", "template", "dir"}
      BY <2>2 DEF Listables
    <3> HIDE DEF listed
    <3>4. <<Identity(f.kind, f.d), f.d>> \in L
      BY <3>2, <3>3
    <3> QED BY <2>1, <3>4
  <2>3. CASE /\ f.kind \in NamedKinds /\ <<f.kind, f.d.key>> \in DOMAIN Bundle("").named
             /\ f.d = Bundle("").named[<<f.kind, f.d.key>>]
    <3>1. Identity(f.kind, f.d) = <<f.kind, f.d.key>>
      BY <2>3 DEF Identity, NamedKinds
    <3>2. <<f.kind, f.d.key>> \in DOMAIN m.named /\ f.d = m.named[<<f.kind, f.d.key>>]
      BY <1>2, <2>3
    <3>3. <<<<f.kind, f.d.key>>, f.d>> \in N
      BY <3>2
    <3> QED BY <2>1, <3>1, <3>3
  <2> QED BY <2>2, <2>3, FactOf
<1> HIDE DEF N, L
<1>7. FlatEnvironment.decls \subseteq {<<Said(f).id, Said(f).val>> : f \in Facts("")}
  BY <1>1, <1>4, <1>5
<1>8. {<<Said(f).id, Said(f).val>> : f \in Facts("")} \subseteq FlatEnvironment.decls
  BY <1>1, <1>6
<1> QED BY <1>7, <1>8

LEMMA UnionIsComposed == SelectInv /\ UnionInv => ComposesTheUnion
<1> SUFFICES ASSUME SelectInv, UnionInv PROVE ComposesTheUnion
  OBVIOUS
<1>0. tree \in Trees
  BY DEF SelectInv, Typed
<1>1. ASSUME pc = "composed", HasModules
      PROVE  /\ effective = Composed
             /\ ~RelativeUnits =>
                    /\ Gathers(acc, AllFacts) /\ ToSet(acc.sources) = UNION {Sourced(c) : c \in Contributors}
                    /\ selected = <<>> => acc.hooks = Bundle("").lists["hook"]
  BY <1>1, AllGathered
<1>2. AllLive = {Said(f) : f \in AllFacts}
  BY <1>0, SaidLive DEF AllFacts
<1>3. RefusedOnlyIfTheyDisagree
  <2>1. ASSUME pc = "composed", HasModules, ~RelativeUnits PROVE ~Disagree
    <3>1. Gathers(acc, AllFacts)
      BY <1>1, <2>1
    <3>2. \A f, g \in AllFacts : ~Clash(Said(f), Said(g))
      BY <3>1, NoneDisagree
    <3> QED BY <1>2, <3>2, DisagreeIs
  <2>2. error \in {"conflict", "claimed"} /\ ~RelativeUnits => Disagree
    BY DEF UnionInv
  <2> QED BY <2>1, <2>2 DEF RefusedOnlyIfTheyDisagree
<1>4. ASSUME pc = "composed", HasModules, ~RelativeUnits
      PROVE  effective.decls = {<<Said(f).id, Said(f).val>> : f \in AllFacts}
  <2>1. Resources(acc.decl, AllFacts) /\ effective = Composed
    BY <1>1, <1>4 DEF Gathers
  <2>2. {<<id, acc.decl[id]>> : id \in DOMAIN acc.decl} = {<<Said(f).id, Said(f).val>> : f \in AllFacts}
    BY <2>1, DeclsAreSaid
  <2> QED BY <2>1, <2>2, ComposedFields
<1>5. UnionOfDocuments
  <2> SUFFICES ASSUME pc = "composed", HasModules, ~RelativeUnits
               PROVE  /\ effective.decls = {<<x.id, x.val>> : x \in AllLive}
                      /\ ToSet(effective.lists["source"]) = UNION {Sourced(c) : c \in Contributors}
    BY DEF UnionOfDocuments
  <2>1. {<<x.id, x.val>> : x \in AllLive} = {<<Said(f).id, Said(f).val>> : f \in AllFacts}
    BY <1>2
  <2>2. effective.lists["source"] = acc.sources
    BY <1>1, ComposedFields
  <2> QED BY <1>1, <1>4, <2>1, <2>2
<1>6. LikeMergeTarget
  <2> SUFFICES ASSUME pc = "composed", HasModules, selected = <<>>
               PROVE  /\ effective.decls = FlatEnvironment.decls
                      /\ effective.lists["hook"] = FlatEnvironment.lists["hook"]
                      /\ ToSet(effective.lists["source"]) = ToSet(FlatEnvironment.lists["source"])
    BY DEF LikeMergeTarget
  <2> DEFINE m == MergeTarget(tree.root.defaults, BundleOf(tree.root, target))
  <2>1. ToSet(selected) = {}
    BY EmptyDomain DEF ToSet
  <2>2. Contributors = {""}
    BY <2>1, CompleteIsClosure DEF Contributors
  <2>3. ~RelativeUnits
    BY <2>2 DEF RelativeUnits
  <2>4. AllFacts = Facts("")
    BY <2>2 DEF AllFacts
  <2>5. effective.decls = FlatEnvironment.decls
    BY <1>0, <1>4, <2>3, <2>4, FlatDecls
  <2>6. m.lists["hook"] = Bundle("").lists["hook"] /\ m.lists["source"] = Bundle("").lists["source"]
    BY FlatIsBundle, BlocksNamed
  <2>7. /\ FlatEnvironment.lists["hook"] = m.lists["hook"]
        /\ FlatEnvironment.lists["source"] = Keys(m.lists["source"])
    BY DEF FlatEnvironment
  <2> HIDE DEF m
  <2>8. effective.lists["hook"] = FlatEnvironment.lists["hook"]
    BY <1>1, <2>3, <2>6, <2>7, ComposedFields
  <2>9. ToSet(effective.lists["source"]) = ToSet(FlatEnvironment.lists["source"])
    <3>1. ToSet(acc.sources) = Sourced("")
      BY <1>1, <2>2, <2>3
    <3>2. Sourced("") = ToSet(Keys(m.lists["source"]))
      BY <2>6, SourcedIs
    <3>3. effective.lists["source"] = acc.sources
      BY <1>1, ComposedFields
    <3> QED BY <2>7, <3>1, <3>2, <3>3
  <2> QED BY <2>5, <2>8, <2>9
<1>7. OwnersDeclare
  <2> SUFFICES ASSUME pc = "composed", HasModules, ~RelativeUnits, NEW id \in DOMAIN acc.decl
               PROVE  /\ {acc.owners[id][i].module : i \in DOMAIN acc.owners[id]}
                           = {c \in Contributors : \E x \in Live(c) : x.id = id}
                      /\ \A i \in DOMAIN acc.owners[id] : Holds(acc.owners[id][i], id)
    BY DEF OwnersDeclare
  <2> DEFINE own == acc.owners[id]
  <2>1. /\ Resources(acc.decl, AllFacts) /\ Owned(acc.owners, AllFacts)
    BY <1>1 DEF Gathers
  <2>2. \A f \in AllFacts : Said(f).id = id => acc.decl[id] = Said(f).val
    BY <2>1 DEF Resources
  <2>3. ToSet(own) = {Origin(f) : f \in {g \in AllFacts : Said(g).id = id}}
    BY <2>1 DEF Owned, Resources
  <2>4. \A f \in AllFacts : f.by \in Contributors /\ f \in Facts(f.by)
    BY FactOf DEF AllFacts
  <2>5. \A f : Origin(f).module = f.by
    BY DEF Origin
  <2>6. \A c \in Contributors : Live(c) = {Said(f) : f \in Facts(c)}
    BY <1>0, LiveFacts DEF Contributors, Closure
  <2>7. \A f \in AllFacts : Said(f).id = id => Holds(Origin(f), id)
    <3> SUFFICES ASSUME NEW f \in AllFacts, Said(f).id = id PROVE Holds(Origin(f), id)
      OBVIOUS
    <3> DEFINE c == f.by
    <3>1. f \in Facts(c) /\ (c = "" \/ c \in Registered)
      BY <2>4 DEF Contributors, Closure
    <3>2. acc.decl[id] = Said(f).val
      BY <2>2
    <3> HIDE DEF c
    <3> QED BY <1>0, <3>1, <3>2, OwnerHolds
  <2>8. \A i \in DOMAIN own : \E f \in AllFacts : Said(f).id = id /\ own[i] = Origin(f)
    BY <2>3 DEF ToSet
  <2>9. \A f \in AllFacts : Said(f).id = id => \E i \in DOMAIN own : own[i] = Origin(f)
    BY <2>3 DEF ToSet
  <2> HIDE DEF own
  <2>10. ASSUME NEW i \in DOMAIN own
         PROVE  own[i].module \in Contributors /\ \E x \in Live(own[i].module) : x.id = id
    <3>1. PICK f \in AllFacts : Said(f).id = id /\ own[i] = Origin(f)
      BY <2>8
    <3>2. own[i].module = f.by /\ f.by \in Contributors /\ f \in Facts(f.by)
      BY <2>4, <2>5, <3>1
    <3> QED BY <2>6, <3>1, <3>2
  <2>11. ASSUME NEW c \in Contributors, NEW x \in Live(c), x.id = id
         PROVE  \E i \in DOMAIN own : own[i].module = c
    <3>1. PICK f \in Facts(c) : x = Said(f)
      BY <2>6
    <3>2. f \in AllFacts /\ f.by = c
      BY <3>1, FactOf DEF AllFacts
    <3>3. PICK i \in DOMAIN own : own[i] = Origin(f)
      BY <2>9, <2>11, <3>1, <3>2
    <3> QED BY <2>5, <3>2, <3>3
  <2>12. {own[i].module : i \in DOMAIN own} = {c \in Contributors : \E x \in Live(c) : x.id = id}
    BY <2>10, <2>11
  <2>13. \A i \in DOMAIN own : Holds(own[i], id)
    BY <2>7, <2>8
  <2> QED BY <2>12, <2>13 DEF own
<1> QED BY <1>3, <1>5, <1>6, <1>7 DEF ComposesTheUnion

\* A composition is the union of what its documents say, and is refused only where
\* two of them disagree; without a selected module it is the merge of the root
\* document; each owner of a resource declares it in the block that `genv explain`
\* names (compose.go Resolve, add and declareIdentity; provenance.go), for every
\* repository.
THEOREM CompositionIsUnion == Spec => []ComposesTheUnion
<1>1. Init => UnionInv
  BY InitUnion
<1>2. SelectInv /\ UnionInv /\ [Next]_vars => UnionInv'
  BY UnionStep
<1>3. SelectInv /\ UnionInv => ComposesTheUnion
  BY UnionIsComposed
<1> QED BY <1>1, <1>2, <1>3, SelectInvariance, PTL DEF Spec

-----------------------------------------------------------------------------
(***************************************************************************)
(* What is validated composes.  `genv validate` composes every target and  *)
(* `genv apply` composes one again: the second time is the first time over *)
(* again, because a resolution past its loading is a function of the       *)
(* documents and the target.  Ahead is that function on configurations and *)
(* Fails what stops it, so a validated target has a set of configurations  *)
(* that holds its first one, that Ahead does not leave and in which nothing*)
(* fails (Good).                                                           *)
(***************************************************************************)
\* Add for target t, whose document doc is in directory dir and has the block
\* overlay for t, so that it can be said of targets other than the current one.
FieldOf(doc, overlay, kind, key) ==
    IF Declares(overlay, kind, key) THEN "targets"
    ELSE IF Declares(doc.defaults, kind, key) THEN "defaults"
    ELSE "targets"

TakeOf(a, kind, d, c, doc, overlay, dir) ==
    LET claim == Claim(kind, d)
        id == Identity(kind, d)
        origin == [module |-> c, field |-> FieldOf(doc, overlay, kind, d.key)]
        unsafe == a.unsafe \/ Escapes(d.asset)
        mine == IF kind = "dir" THEN d ELSE Rewritten(d, dir)
        compared == IF kind = "service" THEN d ELSE mine
        dest == IF claim.at = <<>> THEN a.dest ELSE Put(a.dest, claim.at, claim.as)
    IN IF a.err # "" THEN a
       ELSE IF claim.at \in DOMAIN a.dest /\ a.dest[claim.at] # claim.as
       THEN [a EXCEPT !.err = "claimed"]
       ELSE IF id \notin DOMAIN a.decl
       THEN [a EXCEPT !.decl = Put(@, id, mine), !.dest = dest, !.unsafe = unsafe,
                      !.owners = Put(@, id, <<origin>>),
                      !.packages = IF kind = "package" THEN Append(@, id) ELSE @]
       ELSE IF SameDeclaration(a.decl[id], compared)
       THEN [a EXCEPT !.owners[id] = Append(@, origin), !.dest = dest,
                      !.unsafe = IF kind = "service" THEN @ ELSE unsafe]
       ELSE [a EXCEPT !.err = "conflict"]

TakeAllOf(a, kind, items, c, doc, overlay, dir) ==
    LET taken[i \in 0..Len(items)] ==
            IF i = 0 THEN a ELSE TakeOf(taken[i - 1], kind, items[i], c, doc, overlay, dir)
    IN taken[Len(items)]

WithHooks(a, items, dir) ==
    [a EXCEPT !.hooks = @ \o [i \in DOMAIN items |-> Rewritten(items[i], dir)],
              !.unsafe = @ \/ \E i \in DOMAIN items : Escapes(items[i].asset)]

AddOf(a, c, doc, overlay, dir) ==
    LET b == MergeBundle(doc.defaults, overlay)
        packages == TakeAllOf(a, "package", b.lists["package"], c, doc, overlay, dir)
        supervised == TakeAllOf(packages, "service", NamedItems(b, "service"), c, doc, overlay, dir)
        env == TakeAllOf(supervised, "env", NamedItems(b, "env"), c, doc, overlay, dir)
        shell == IF env.err # "" THEN env
                 ELSE [env EXCEPT !.sources = Sources(@, b.lists["source"])]
        aliases == TakeAllOf(shell, "alias", NamedItems(b, "alias"), c, doc, overlay, dir)
        links == TakeAllOf(aliases, "link", b.lists["link"], c, doc, overlay, dir)
        templates == TakeAllOf(links, "template", b.lists["template"], c, doc, overlay, dir)
        dirs == TakeAllOf(templates, "dir", b.lists["dir"], c, doc, overlay, dir)
    IN IF dirs.err # "" THEN dirs ELSE WithHooks(dirs, b.lists["hook"], dir)

AddFor(t, a, c) == AddOf(a, c, Doc(c), BundleOf(Doc(c), t), Dir(c))

ComposedOf(a) ==
    [decls |-> {<<id, a.decl[id]>> : id \in DOMAIN a.decl},
     lists |-> [b \in {"package", "source", "hook"} |->
                   CASE b = "package" -> a.packages
                     [] b = "source" -> a.sources
                     [] b = "hook" -> a.hooks]]

Incomposable(a) == a.unsafe \/ ~WatchesOk(ComposedOf(a)) \/ ~Buildable(ComposedOf(a))

\* A configuration of a resolution that has loaded its documents.
At(step, selections, frames, placed, left, sum) ==
    [pc |-> step, roots |-> selections, stack |-> frames, selected |-> placed,
     queue |-> left, acc |-> sum]

Here == At(pc, roots, stack, selected, queue, acc)
First(t) == At("select", BundleSelections(t), <<>>, <<>>, <<>>, EmptyAccumulator)

\* What the search of configuration c asks for, if anything.
Asking(c) ==
    IF c.stack = <<>> THEN c.roots # <<>>
    ELSE Last(c.stack).next <= Len(Requires(Last(c.stack).name))
Wanted(c) ==
    IF c.stack = <<>> THEN Head(c.roots)
    ELSE Requires(Last(c.stack).name)[Last(c.stack).next]
Frames(c) == IF Wanted(c) \in ToSet(c.selected) THEN <<>> ELSE <<[name |-> Wanted(c), next |-> 1]>>

Fails(t, c) ==
    \/ /\ c.pc = "select" /\ Asking(c) /\ Wanted(c) \notin ToSet(c.selected)
       /\ \/ \E i \in DOMAIN c.stack : c.stack[i].name = Wanted(c)
          \/ Len(c.stack) >= MaxDepth
    \/ c.pc = "union" /\ c.queue # <<>> /\ AddFor(t, c.acc, Head(c.queue)).err # ""
    \/ c.pc = "union" /\ c.queue = <<>> /\ Incomposable(c.acc)

Ahead(t, c) ==
    CASE c.pc = "select" /\ Asking(c) /\ c.stack = <<>> ->
             At(c.pc, Tail(c.roots), Frames(c), c.selected, c.queue, c.acc)
      [] c.pc = "select" /\ Asking(c) /\ c.stack # <<>> ->
             At(c.pc, c.roots, [c.stack EXCEPT ![Len(c.stack)].next = @ + 1] \o Frames(c),
                c.selected, c.queue, c.acc)
      [] c.pc = "select" /\ ~Asking(c) /\ c.stack # <<>> ->
             At(c.pc, c.roots, Front(c.stack), Append(c.selected, Last(c.stack).name), c.queue, c.acc)
      [] c.pc = "select" /\ ~Asking(c) /\ c.stack = <<>> ->
             At("union", c.roots, c.stack, c.selected, <<"">> \o c.selected, c.acc)
      [] c.pc = "union" /\ c.queue # <<>> ->
             At(c.pc, c.roots, c.stack, c.selected, Tail(c.queue), AddFor(t, c.acc, Head(c.queue)))
      [] c.pc = "union" /\ c.queue = <<>> ->
             At("composed", c.roots, c.stack, c.selected, c.queue, c.acc)
      [] OTHER -> c

\* Nothing fails at c, and what comes after it is in S.
Passes(t, c, S) == ~Fails(t, c) /\ Ahead(t, c) \in S
Good(t) == \E S : First(t) \in S /\ \A c \in S : Passes(t, c, S)
\* A resolution of t under way: so far nothing has failed.
SoFar(t, here) == \E S : First(t) \in S /\ here \in S /\ \A c \in S \ {here} : Passes(t, c, S)
\* A resolution of t that cannot fail any more.
OnTrack(t, here) == \E S : here \in S /\ \A c \in S : Passes(t, c, S)

Sound(n) == File(n).kind = "regular" /\ ModuleOk(File(n))

\* As many pairs as the documents in D have bytes.
Weight(D) == {w \in D \X Nat : w[2] \in 1..File(w[1]).bytes}
Weighs(D) == IsFiniteSet(Weight(D)) /\ Cardinality(Weight(D)) <= MaxBytes

\* No load can fail.
Loadable ==
    /\ Cardinality(Registered) <= MaxRegistered /\ Weighs(Registered)
    /\ \A n \in Registered : Sound(n) /\ ToSet(Requires(n)) \subseteq Registered

Targets == DOMAIN tree.root.targets

\* The documents read were sound, and what they require is read or queued.
LoadInv ==
    /\ pc \in {"load", "loadAll"} =>
           /\ Weighs(docs) /\ bytes = Cardinality(Weight(docs))
           /\ docs # {} => Cardinality(Registered) <= MaxRegistered
           /\ \A n \in docs : Sound(n) /\ ToSet(Requires(n)) \subseteq docs \cup ToSet(queue)
    /\ pc = "load" =>
           /\ Selection \subseteq docs \cup ToSet(queue)
           /\ roots = BundleSelections(target) /\ stack = <<>> /\ selected = <<>>
           /\ acc = EmptyAccumulator
    /\ pc = "loadAll" => Registered \subseteq docs \cup ToSet(queue)
    /\ pc = "select" => docs \in ClosedSets /\ queue = <<>>

Resolutions == {"load", "select", "union", "composed"}

Validating ==
    /\ pc \notin {"read", "failed"} => RootOk
    /\ mode = "validate" /\ pc = "loadAll" => Registered # {} /\ todo = Targets
    /\ mode = "validate" /\ pc \in Resolutions \cup {"flat"} =>
           /\ pc # "flat" /\ Registered # {} /\ Loadable
           /\ target \in Targets /\ todo \subseteq Targets
           /\ \A t \in Targets \ todo : t # target => Good(t)
    /\ mode = "validate" /\ pc \in Resolutions \ {"load"} => SoFar(target, Here)

Validated ==
    /\ verdict = "accepted" => RootOk /\ (mode = "validate" => pc = "accepted")
    /\ verdict = "accepted" /\ Registered # {} => Loadable /\ \A t \in Targets : Good(t)

Applying ==
    /\ mode = "apply" => target = tree.active
    /\ mode = "apply" /\ verdict = "accepted" /\ Registered # {} /\ tree.active \in Targets =>
           /\ pc # "failed"
           /\ pc \in Resolutions \ {"load"} => OnTrack(target, Here)

ValidInv == LoadInv /\ Validating /\ Validated /\ Applying

-----------------------------------------------------------------------------
(* Lemmas.                                                                 *)

\* Add is AddFor of the current target.
LEMMA TakeForIs ==
    ASSUME NEW a, NEW kind, NEW items, NEW c
    PROVE  TakeAllOf(a, kind, items, c, Doc(c), BundleOf(Doc(c), target), Dir(c))
             = TakeAll(a, kind, items, c)
BY DEF TakeAllOf, TakeAll, TakeOf, Take, FieldOf, FieldFor

LEMMA AddForIs == ASSUME NEW a, NEW c PROVE AddFor(target, a, c) = Add(a, c)
<1> DEFINE doc == Doc(c)
           overlay == BundleOf(Doc(c), target)
           dir == Dir(c)
<1>1. \A b, kind, items : TakeAllOf(b, kind, items, c, doc, overlay, dir) = TakeAll(b, kind, items, c)
  BY TakeForIs
<1>2. \A b, items : WithHooks(b, items, dir) = Hooks(b, items, c)
  BY DEF WithHooks, Hooks
<1>3. MergeBundle(doc.defaults, overlay) = Bundle(c)
  BY DEF Bundle
<1>4. AddFor(target, a, c) = AddOf(a, c, doc, overlay, dir)
  BY DEF AddFor
<1> HIDE DEF doc, overlay, dir
<1> DEFINE b == Bundle(c)
           packages == TakeAll(a, "package", b.lists["package"], c)
           serviced == TakeAll(packages, "service", NamedItems(b, "service"), c)
           env == TakeAll(serviced, "env", NamedItems(b, "env"), c)
           shell == IF env.err # "" THEN env
                    ELSE [env EXCEPT !.sources = Sources(@, b.lists["source"])]
           aliases == TakeAll(shell, "alias", NamedItems(b, "alias"), c)
           links == TakeAll(aliases, "link", b.lists["link"], c)
           templates == TakeAll(links, "template", b.lists["template"], c)
           dirs == TakeAll(templates, "dir", b.lists["dir"], c)
           Of(x, kind, items) == TakeAllOf(x, kind, items, c, doc, overlay, dir)
           B == MergeBundle(doc.defaults, overlay)
           packages2 == Of(a, "package", B.lists["package"])
           services2 == Of(packages2, "service", NamedItems(B, "service"))
           env2 == Of(services2, "env", NamedItems(B, "env"))
           shell2 == IF env2.err # "" THEN env2
                     ELSE [env2 EXCEPT !.sources = Sources(@, B.lists["source"])]
           aliases2 == Of(shell2, "alias", NamedItems(B, "alias"))
           links2 == Of(aliases2, "link", B.lists["link"])
           templates2 == Of(links2, "template", B.lists["template"])
           dirs2 == Of(templates2, "dir", B.lists["dir"])
<1>5. Add(a, c) = IF dirs.err # "" THEN dirs ELSE Hooks(dirs, b.lists["hook"], c)
  BY DEF Add
<1>6. AddOf(a, c, doc, overlay, dir) = IF dirs2.err # "" THEN dirs2 ELSE WithHooks(dirs2, B.lists["hook"], dir)
  BY DEF AddOf
<1>7. B = b /\ \A x, kind, items : Of(x, kind, items) = TakeAll(x, kind, items, c)
  BY <1>1, <1>3
<1> HIDE DEF b, B, Of
<1>8. packages2 = packages
  BY <1>7
<1> HIDE DEF packages, packages2
<1>9. services2 = serviced
  BY <1>7, <1>8
<1> HIDE DEF serviced, services2
<1>10. env2 = env
  BY <1>7, <1>9
<1> HIDE DEF env, env2
<1>11. shell2 = shell
  BY <1>7, <1>10
<1> HIDE DEF shell, shell2
<1>12. aliases2 = aliases
  BY <1>7, <1>11
<1> HIDE DEF aliases, aliases2
<1>13. links2 = links
  BY <1>7, <1>12
<1> HIDE DEF links, links2
<1>14. templates2 = templates
  BY <1>7, <1>13
<1> HIDE DEF templates, templates2
<1>15. dirs2 = dirs
  BY <1>7, <1>14
<1> HIDE DEF dirs, dirs2
<1> QED BY <1>2, <1>4, <1>5, <1>6, <1>7, <1>15

\* What depends on the documents alone stays as long as they do.
LEMMA SameTreeAgain ==
    ASSUME tree' = tree
    PROVE  /\ RootOk' = RootOk /\ Targets' = Targets
           /\ \A n : Sound(n)' = Sound(n)
           /\ \A ns : Weight(ns)' = Weight(ns) /\ Weighs(ns)' = Weighs(ns)
           /\ Loadable' = Loadable
           /\ \A t, c : Fails(t, c)' = Fails(t, c) /\ Ahead(t, c)' = Ahead(t, c)
           /\ \A t, c, S : Passes(t, c, S)' = Passes(t, c, S)
           /\ \A t : First(t)' = First(t) /\ Good(t)' = Good(t)
           /\ \A t, c : SoFar(t, c)' = SoFar(t, c) /\ OnTrack(t, c)' = OnTrack(t, c)
<1>1. /\ Registered' = Registered /\ \A n : File(n)' = File(n) /\ Requires(n)' = Requires(n)
      /\ \A t : BundleSelections(t)' = BundleSelections(t)
  BY SameTree
<1>2. \A n : ModuleOk(File(n))' = ModuleOk(File(n))
  <2>1. \A doc : ModuleOk(doc)' = ModuleOk(doc)
    BY DEF ModuleOk, BundleOk, PackageListOk, TombstonesOk, ServiceFieldsOk, RequiresGraphOk,
           DeclaredEverywhere
  <2> QED BY <1>1, <2>1
<1>3. RootOk' = RootOk /\ Targets' = Targets
  BY <1>1 DEF RootOk, Targets, RegistryOk, BundleOk, PackageListOk, TombstonesOk, ServiceFieldsOk,
              RequiresGraphOk, DeclaredEverywhere, UseModulesOk, KnownTombstones
<1>4. \A n : Sound(n)' = Sound(n)
  BY <1>1, <1>2 DEF Sound
<1>5. \A ns : Weight(ns)' = Weight(ns)
  BY <1>1 DEF Weight
<1>6. \A ns : Weighs(ns)' = Weighs(ns)
  BY <1>5 DEF Weighs
<1>7. Loadable' = Loadable
  BY <1>1, <1>4, <1>6 DEF Loadable
<1>8. \A t, a, c : AddFor(t, a, c)' = AddFor(t, a, c)
  <2>1. \A c : Doc(c)' = Doc(c) /\ Dir(c)' = Dir(c)
    BY DEF Doc, Dir, File
  <2>2. \A doc, t : BundleOf(doc, t)' = BundleOf(doc, t)
    BY DEF BundleOf
  <2> QED BY <2>1, <2>2 DEF AddFor
<1>9. \A c : Asking(c)' = Asking(c) /\ Wanted(c)' = Wanted(c)
  BY <1>1 DEF Asking, Wanted
<1>10. \A t, c : Fails(t, c)' = Fails(t, c)
  BY <1>8, <1>9 DEF Fails
<1>11. \A t, c : Ahead(t, c)' = Ahead(t, c)
  BY <1>8, <1>9 DEF Ahead, Frames
<1>12. \A t, c, S : Passes(t, c, S)' = Passes(t, c, S)
  BY <1>10, <1>11 DEF Passes
<1>13. \A t : First(t)' = First(t)
  BY <1>1 DEF First
<1>14. \A t : Good(t)' = Good(t)
  BY <1>12, <1>13 DEF Good
<1>15. \A t, c : SoFar(t, c)' = SoFar(t, c)
  BY <1>12, <1>13 DEF SoFar
<1>16. \A t, c : OnTrack(t, c)' = OnTrack(t, c)
  BY <1>12 DEF OnTrack
<1> QED BY <1>3, <1>4, <1>5, <1>6, <1>7, <1>10, <1>11, <1>12, <1>13, <1>14, <1>15, <1>16

\* Where a resolution begins, where it goes on and where it ends.
LEMMA BeginsSoFar == ASSUME NEW t PROVE SoFar(t, First(t))
<1>1. First(t) \in {First(t)} /\ \A c \in {First(t)} \ {First(t)} : FALSE
  OBVIOUS
<1> QED BY <1>1 DEF SoFar

LEMMA GoesOnSoFar ==
    ASSUME NEW t, NEW c, SoFar(t, c), ~Fails(t, c)
    PROVE  SoFar(t, Ahead(t, c))
<1> DEFINE d == Ahead(t, c)
<1>1. PICK S : First(t) \in S /\ c \in S /\ \A e \in S \ {c} : Passes(t, e, S)
  BY DEF SoFar
<1>2. ASSUME NEW e \in (S \cup {d}) \ {d} PROVE Passes(t, e, S \cup {d})
  <2>1. CASE e = c
    BY <2>1 DEF Passes
  <2>2. CASE e # c
    BY <1>1, <2>2 DEF Passes
  <2> QED BY <2>1, <2>2
<1>3. First(t) \in S \cup {d} /\ d \in S \cup {d}
  BY <1>1
<1> QED BY <1>2, <1>3 DEF SoFar

LEMMA EndsGood ==
    ASSUME NEW t, NEW c, SoFar(t, c), ~Fails(t, c), Ahead(t, c) = c
    PROVE  Good(t)
BY DEF SoFar, Good, Passes

LEMMA TrackBegins == ASSUME NEW t, Good(t) PROVE OnTrack(t, First(t))
BY DEF Good, OnTrack

LEMMA StaysOnTrack ==
    ASSUME NEW t, NEW c, OnTrack(t, c)
    PROVE  ~Fails(t, c) /\ OnTrack(t, Ahead(t, c))
BY DEF OnTrack, Passes

\* One more document weighs as much more as it has bytes.
LEMMA WeightOfNone == Weight({}) = {} /\ Weighs({}) /\ Cardinality(Weight({})) = 0
<1>1. Weight({}) = {}
  BY DEF Weight
<1>2. IsFiniteSet({}) /\ Cardinality({}) = 0 /\ MaxBytes \in Nat
  BY FS_EmptySet, LimitsAssumption
<1> QED BY <1>1, <1>2 DEF Weighs

LEMMA WeightOfMore ==
    ASSUME NEW ns, NEW n, n \notin ns, IsFiniteSet(Weight(ns)), File(n).bytes \in Nat
    PROVE  /\ IsFiniteSet(Weight(ns \cup {n}))
           /\ Cardinality(Weight(ns \cup {n})) = Cardinality(Weight(ns)) + File(n).bytes
<1> DEFINE k == File(n).bytes
           I == 1..k
           X == {n} \X I
<1>1. IsFiniteSet(I) /\ Cardinality(I) = k
  BY FS_Interval
<1>2. IsFiniteSet({n}) /\ Cardinality({n}) = 1
  BY FS_Singleton
<1>3. IsFiniteSet(X) /\ Cardinality(X) = Cardinality({n}) * Cardinality(I)
  <2> HIDE DEF I
  <2> QED BY <1>1, <1>2, FS_Product
<1>4. Cardinality(X) = k
  <2> HIDE DEF X, I
  <2> QED BY <1>1, <1>2, <1>3
<1>5. Weight(ns \cup {n}) = Weight(ns) \cup X
  <2>1. ASSUME NEW w \in Weight(ns \cup {n}) PROVE w \in Weight(ns) \cup X
    BY DEF Weight
  <2>2. Weight(ns) \subseteq Weight(ns \cup {n})
    BY DEF Weight
  <2>3. ASSUME NEW w \in X PROVE w \in Weight(ns \cup {n})
    <3>1. w[1] = n /\ w[2] \in 1..File(n).bytes /\ w \in (ns \cup {n}) \X Nat
      OBVIOUS
    <3> QED BY <3>1 DEF Weight
  <2> HIDE DEF X
  <2> QED BY <2>1, <2>2, <2>3
<1>6. Weight(ns) \cap X = {}
  BY DEF Weight
<1> HIDE DEF X
<1>7. IsFiniteSet(Weight(ns) \cup X) /\ Cardinality(Weight(ns) \cup X)
        = Cardinality(Weight(ns)) + Cardinality(X) - Cardinality(Weight(ns) \cap X)
  BY <1>3, FS_Union
<1>8. Cardinality(Weight(ns)) \in Nat /\ Cardinality(Weight(ns) \cap X) = 0
  BY <1>6, FS_CardinalityType, FS_EmptySet
<1>9. Cardinality(Weight(ns) \cup X) = Cardinality(Weight(ns)) + k
  <2>1. k \in Nat
    OBVIOUS
  <2> HIDE DEF k
  <2> QED BY <1>4, <1>7, <1>8, <2>1
<1> QED BY <1>5, <1>7, <1>9

LEMMA WeightGrows ==
    ASSUME NEW ns, NEW ms, ns \subseteq ms, Weighs(ms)
    PROVE  Weighs(ns) /\ Cardinality(Weight(ns)) <= MaxBytes
<1>1. Weight(ns) \in SUBSET Weight(ms)
  BY DEF Weight
<1>2. /\ IsFiniteSet(Weight(ns)) /\ Cardinality(Weight(ns)) <= Cardinality(Weight(ms))
      /\ Cardinality(Weight(ms)) <= MaxBytes
  BY <1>1, FS_Subset DEF Weighs
<1>3. Cardinality(Weight(ns)) \in Nat /\ Cardinality(Weight(ms)) \in Nat /\ MaxBytes \in Nat
  BY <1>2, FS_CardinalityType, LimitsAssumption DEF Weighs
<1>4. Cardinality(Weight(ns)) <= MaxBytes
  BY <1>2, <1>3
<1> QED BY <1>2, <1>4 DEF Weighs

\* A document that an earlier command has loaded loads again.
LEMMA LoadsAgain ==
    ASSUME SelectInv, LoadInv, Loadable, pc = "load",
           NEW n \in Registered, n \notin docs
    PROVE  LoadFault(n) = ""
<1>1. docs \subseteq Registered /\ tree \in Trees
  BY DEF SelectInv, TypeOK, Typed
<1>2. File(n).bytes \in Nat /\ Requires(n) = File(n).requires
  BY <1>1, RepositoryAtHand DEF Requires
<1>3. Weighs(docs) /\ bytes = Cardinality(Weight(docs)) /\ IsFiniteSet(Weight(docs))
  BY DEF LoadInv, Weighs
<1>4. Cardinality(Weight(docs \cup {n})) = bytes + File(n).bytes
  BY <1>2, <1>3, WeightOfMore
<1>5. docs \cup {n} \subseteq Registered /\ Weighs(Registered)
  BY <1>1 DEF Loadable
<1>6. Cardinality(Weight(docs \cup {n})) <= MaxBytes
  BY <1>5, WeightGrows
<1>7. ~(bytes + File(n).bytes > MaxBytes)
  <2>1. bytes \in Nat /\ MaxBytes \in Nat
    BY <1>3, FS_CardinalityType, LimitsAssumption
  <2> QED BY <1>2, <1>4, <1>6, <2>1
<1>8. ~(Cardinality(Registered) > MaxRegistered)
  <2>1. Cardinality(Registered) \in Nat /\ MaxRegistered \in Nat /\ Cardinality(Registered) <= MaxRegistered
    BY <1>1, RepositoryAtHand, FS_CardinalityType, LimitsAssumption DEF Loadable
  <2> QED BY <2>1
<1>9. Sound(n) /\ ToSet(File(n).requires) \subseteq Registered
  BY <1>2 DEF Loadable
<1> QED BY <1>7, <1>8, <1>9 DEF LoadFault, Sound

\* A valid root selects registered modules only.
LEMMA SelectsRegistered ==
    ASSUME tree \in Trees, RootOk, NEW t \in Targets
    PROVE  ToSet(BundleSelections(t)) \subseteq Registered
<1> DEFINE a == tree.root.defaults.use
           b == BundleOf(tree.root, t).use
<1>1. a \in Seq(Words) /\ b \in Seq(Words)
  BY RepositoryAtHand, BundleTyped
<1>2. UseModulesOk(tree.root.defaults) /\ UseModulesOk(BundleOf(tree.root, t))
  BY DEF RootOk, Targets, BundleOf
<1>3. ToSet(a) \subseteq Registered /\ ToSet(b) \subseteq Registered
  BY <1>2 DEF UseModulesOk, ToSet
<1> HIDE DEF a, b
<1>4. a \o b \in Seq(Words) /\ ToSet(a \o b) = ToSet(a) \cup ToSet(b)
  BY <1>1, ToSetConcat
<1>5. BundleSelections(t) = Distinct(a \o b)
  BY DEF BundleSelections, a, b
<1>6. ToSet(Distinct(a \o b)) = ToSet(a \o b)
  BY <1>4, DistinctLemma
<1> QED BY <1>3, <1>4, <1>5, <1>6

-----------------------------------------------------------------------------
(* Steps, as the function of the configuration sees them.                  *)

LEMMA HereIs ==
    /\ Here.pc = pc /\ Here.roots = roots /\ Here.stack = stack /\ Here.selected = selected
    /\ Here.queue = queue /\ Here.acc = acc
BY DEF Here, At

LEMMA AskingHere == \A n : Asked(n) <=> Asking(Here) /\ n = Wanted(Here)
BY HereIs DEF Asked, Asking, Wanted

LEMMA VisitAhead ==
    ASSUME Visit
    PROVE  ~Fails(target, Here) /\ Here' = Ahead(target, Here)
<1>1. PICK n : Ask(n) /\ VisitFault(n) \in {"", "done"} /\ Advance(Entered(n))
  BY DEF Visit
<1>2. pc = "select" /\ Asking(Here) /\ n = Wanted(Here)
  BY <1>1, AskingHere DEF Ask
<1>3. VisitFault(n) = "done" <=> n \in ToSet(selected)
  BY DEF VisitFault
<1>4. Entered(n) = Frames(Here)
  BY <1>2, <1>3, HereIs DEF Entered, Frames
<1>5. ~Fails(target, Here)
  BY <1>1, <1>2, HereIs DEF Fails, VisitFault, OnStack
<1>6. UNCHANGED <<pc, selected, queue, acc>>
  BY DEF Visit
<1>7. CASE stack = <<>>
  <2>1. Here' = At(pc, Tail(roots), Frames(Here), selected, queue, acc)
    BY <1>1, <1>4, <1>6, <1>7 DEF Here, Advance
  <2> QED BY <1>2, <1>5, <1>7, <2>1, HereIs DEF Ahead
<1>8. CASE stack # <<>>
  <2>1. Here' = At(pc, roots, [stack EXCEPT ![Len(stack)].next = @ + 1] \o Frames(Here), selected, queue, acc)
    BY <1>1, <1>4, <1>6, <1>8 DEF Here, Advance
  <2> QED BY <1>2, <1>5, <1>8, <2>1, HereIs DEF Ahead
<1> QED BY <1>7, <1>8

LEMMA VisitEndAhead ==
    ASSUME SelectInv, VisitEnd
    PROVE  ~Fails(target, Here) /\ Here' = Ahead(target, Here)
<1>1. pc = "select" /\ stack # <<>> /\ ~Asking(Here)
  <2>1. pc = "select" /\ stack # <<>> /\ Last(stack).next > Len(Requires(Last(stack).name))
    BY DEF VisitEnd
  <2>2. Last(stack).next \in Nat /\ Len(Requires(Last(stack).name)) \in Nat
    <3>1. tree \in Trees /\ stack \in Seq([name : Registered, next : Nat \ {0}])
      BY DEF SelectInv, Typed
    <3>2. Last(stack) \in [name : Registered, next : Nat \ {0}]
      <4>1. Len(stack) \in Nat \ {0} /\ Len(stack) \in 1..Len(stack)
        BY <2>1, <3>1, EmptySeq
      <4> QED BY <3>1, <4>1, ElementOfSeq DEF Last
    <3>3. Requires(Last(stack).name) \in Seq(Words)
      BY <3>1, <3>2, RepositoryAtHand
    <3> QED BY <3>2, <3>3
  <2>3. ~(Last(stack).next <= Len(Requires(Last(stack).name)))
    BY <2>1, <2>2
  <2> QED BY <2>1, <2>3, HereIs DEF Asking
<1>2. ~Fails(target, Here)
  BY <1>1, HereIs DEF Fails
<1>3. Here' = At(pc, roots, Front(stack), Append(selected, Last(stack).name), queue, acc)
  BY DEF VisitEnd, Here, Ordered
<1> QED BY <1>1, <1>2, <1>3, HereIs DEF Ahead

LEMMA SelectedAhead ==
    ASSUME Selected
    PROVE  ~Fails(target, Here) /\ Here' = Ahead(target, Here)
<1>1. pc = "select" /\ stack = <<>> /\ ~Asking(Here)
  BY HereIs DEF Selected, Asking
<1>2. ~Fails(target, Here)
  BY <1>1, HereIs DEF Fails
<1>3. Here' = At("union", roots, stack, selected, <<"">> \o selected, acc)
  BY DEF Selected, Here
<1> QED BY <1>1, <1>2, <1>3, HereIs DEF Ahead

LEMMA AddNextAhead ==
    ASSUME AddNext
    PROVE  ~Fails(target, Here) /\ Here' = Ahead(target, Here)
<1>1. /\ pc = "union" /\ queue # <<>> /\ acc' = Add(acc, Head(queue)) /\ acc'.err = ""
      /\ AddFor(target, acc, Head(queue)) = Add(acc, Head(queue))
  BY AddForIs DEF AddNext
<1>2. ~Fails(target, Here)
  BY <1>1, HereIs DEF Fails
<1>3. Here' = At(pc, roots, stack, selected, Tail(queue), AddFor(target, acc, Head(queue)))
  BY <1>1 DEF AddNext, Here
<1> QED BY <1>1, <1>2, <1>3, HereIs DEF Ahead

\* The union is checked: it fails, or the configuration is the last one.
LEMMA UnionAhead ==
    ASSUME Union
    PROVE  \/ Fails(target, Here) /\ \E why : Fail(why)
           \/ /\ ~Fails(target, Here) /\ Here' = Ahead(target, Here)
              /\ pc' = "composed" /\ UNCHANGED verdict
<1>1. Composed = ComposedOf(acc)
  BY DEF Composed, ComposedOf
<1>2. pc = "union" /\ queue = <<>>
  BY DEF Union
<1>3. Fails(target, Here) <=> Incomposable(acc)
  BY <1>2, HereIs DEF Fails
<1>4. CASE Incomposable(acc)
  <2>1. \E why : Fail(why)
    BY <1>1, <1>4 DEF Union, Incomposable
  <2> QED BY <1>3, <1>4, <2>1
<1>5. CASE ~Incomposable(acc)
  <2>1. Answer(Composed)
    BY <1>1, <1>5 DEF Union, Incomposable
  <2>2. Here' = At("composed", roots, stack, selected, queue, acc)
    BY <2>1 DEF Union, Here, Answer
  <2> QED BY <1>2, <1>3, <1>5, <2>1, <2>2, HereIs DEF Ahead, Answer
<1> QED BY <1>4, <1>5

LEMMA AddRefusedFails == ASSUME AddRefused PROVE Fails(target, Here)
<1>1. pc = "union" /\ queue # <<>> /\ Add(acc, Head(queue)).err # ""
  BY DEF AddRefused
<1>2. AddFor(target, acc, Head(queue)) = Add(acc, Head(queue))
  BY AddForIs
<1> QED BY <1>1, <1>2, HereIs DEF Fails

LEMMA VisitRefusedFails == ASSUME SelectInv, LoadInv, VisitRefused PROVE Fails(target, Here)
<1>1. PICK n : Ask(n) /\ VisitFault(n) \notin {"", "done"}
  BY DEF VisitRefused
<1>2. pc = "select" /\ Asking(Here) /\ n = Wanted(Here) /\ Asked(n)
  BY <1>1, AskingHere DEF Ask
<1>3. n \in docs
  BY <1>2, AskedFor DEF LoadInv
<1>4. n \notin ToSet(selected) /\ (n \in OnStack \/ Len(stack) >= MaxDepth)
  BY <1>1, <1>3 DEF VisitFault
<1> QED BY <1>2, <1>4, HereIs DEF Fails, OnStack

-----------------------------------------------------------------------------
(* Every step.                                                             *)

\* What was validated cannot fail.
Due == mode = "apply" /\ verdict = "accepted" /\ Registered # {} /\ tree.active \in Targets

LEMMA FailValid ==
    ASSUME SelectInv, ValidInv, NEW why, Fail(why), UNCHANGED <<tree, mode, target>>, ~Due
    PROVE  ValidInv'
<1>1. pc' = "failed" /\ (verdict' = "accepted" => verdict = "accepted" /\ mode = "apply")
  BY DEF Fail, SelectInv, TypeOK
<1>2. /\ Registered' = Registered /\ RootOk' = RootOk /\ Targets' = Targets /\ Loadable' = Loadable
      /\ \A t : Good(t)' = Good(t)
  BY SameTree, SameTreeAgain
<1>3. LoadInv'
  BY <1>1 DEF LoadInv
<1>4. Validating'
  BY <1>1 DEF Validating, Resolutions
<1>5. Validated'
  BY <1>1, <1>2 DEF ValidInv, Validated
<1>6. Applying'
  BY <1>1, <1>2 DEF ValidInv, Applying, Due
<1> QED BY <1>3, <1>4, <1>5, <1>6 DEF ValidInv

LEMMA StartValid ==
    ASSUME SelectInv, ValidInv, NEW t, StartResolve(t), UNCHANGED <<tree, mode, verdict>>, RootOk,
           verdict = "accepted" => mode = "apply",
           mode = "apply" => t = tree.active,
           mode = "validate" => /\ Registered # {} /\ Loadable /\ t \in Targets /\ todo' \subseteq Targets
                                /\ \A u \in Targets \ todo' : u # t => Good(u)
    PROVE  ValidInv'
<1>1. /\ target' = t /\ docs' = {} /\ bytes' = 0 /\ stack' = <<>> /\ selected' = <<>>
      /\ acc' = EmptyAccumulator
      /\ pc' = "load" => queue' = BundleSelections(t) /\ roots' = BundleSelections(t)
      /\ pc' \in {"load", "flat"} /\ (Registered # {} => pc' = "load")
  BY DEF StartResolve, HasModules
<1>2. /\ Registered' = Registered /\ RootOk' = RootOk /\ Targets' = Targets /\ Loadable' = Loadable
      /\ \A u : Good(u)' = Good(u) /\ BundleSelections(u)' = BundleSelections(u)
  BY SameTree, SameTreeAgain
<1>3. Selection' = ToSet(BundleSelections(t)) /\ BundleSelections(target)' = BundleSelections(t)
  BY <1>1, <1>2 DEF Selection
<1>4. LoadInv'
  <2>1. Weighs({})' /\ Cardinality(Weight({}))' = 0
    BY WeightOfNone, SameTreeAgain
  <2>2. Weighs(docs)' /\ bytes' = Cardinality(Weight(docs))'
    BY <1>1, <2>1
  <2> QED BY <1>1, <1>3, <2>2 DEF LoadInv, ToSet
<1>5. Validating'
  BY <1>1, <1>2 DEF Validating, Resolutions
<1>6. Validated'
  BY <1>1, <1>2 DEF ValidInv, Validated
<1>7. Applying'
  BY <1>1, <1>2 DEF ValidInv, Applying, Resolutions
<1> QED BY <1>4, <1>5, <1>6, <1>7 DEF ValidInv

\* A step of loadClosure.
LEMMA LoadValid ==
    ASSUME SelectInv, ValidInv, pc \in {"load", "loadAll"},
           UNCHANGED <<tree, mode, pc, target, todo, roots, stack, selected, acc, verdict>>,
           LoadInv'
    PROVE  ValidInv'
<1>1. /\ Registered' = Registered /\ RootOk' = RootOk /\ Targets' = Targets /\ Loadable' = Loadable
      /\ \A u : Good(u)' = Good(u)
  BY SameTree, SameTreeAgain
<1>2. Validating'
  BY <1>1 DEF ValidInv, Validating, Resolutions
<1>3. Validated'
  BY <1>1 DEF ValidInv, Validated
<1>4. Applying'
  BY <1>1 DEF ValidInv, Applying, Resolutions
<1> QED BY <1>2, <1>3, <1>4 DEF ValidInv

\* A step of Select or of the union.
LEMMA AheadValid ==
    ASSUME ValidInv, pc \in {"select", "union"}, pc' \in {"select", "union", "composed"},
           UNCHANGED <<tree, mode, target, todo, docs, verdict>>,
           pc' = "select" => pc = "select" /\ queue' = queue,
           ~Fails(target, Here) /\ Here' = Ahead(target, Here)
    PROVE  ValidInv'
<1>1. /\ Registered' = Registered /\ RootOk' = RootOk /\ Targets' = Targets /\ Loadable' = Loadable
      /\ \A u : Good(u)' = Good(u)
      /\ \A u, c : SoFar(u, c)' = SoFar(u, c) /\ OnTrack(u, c)' = OnTrack(u, c)
  BY SameTree, SameTreeAgain
<1>2. ClosedSets' = ClosedSets
  BY SameTarget
<1>3. LoadInv'
  BY <1>2 DEF ValidInv, LoadInv
<1>4. Validating'
  <2>1. SoFar(target, Here) => SoFar(target, Ahead(target, Here))
    BY GoesOnSoFar
  <2>2. SoFar(target, Here)' = SoFar(target, Ahead(target, Here))
    <3>1. \A u, c : u = target' /\ c = Here' => (SoFar(target, Here)' <=> SoFar(u, c)')
      OBVIOUS
    <3> QED BY <1>1, <3>1
  <2> QED BY <1>1, <2>1, <2>2 DEF ValidInv, Validating, Resolutions
<1>5. Validated'
  BY <1>1 DEF ValidInv, Validated
<1>6. Applying'
  <2>1. OnTrack(target, Here) => OnTrack(target, Ahead(target, Here))
    BY StaysOnTrack
  <2>2. OnTrack(target, Here)' = OnTrack(target, Ahead(target, Here))
    <3>1. \A u, c : u = target' /\ c = Here' => (OnTrack(target, Here)' <=> OnTrack(u, c)')
      OBVIOUS
    <3> QED BY <1>1, <3>1
  <2> QED BY <1>1, <2>1, <2>2 DEF ValidInv, Applying, Resolutions
<1> QED BY <1>3, <1>4, <1>5, <1>6 DEF ValidInv

LEMMA NotDue ==
    ASSUME ValidInv, pc \in {"select", "union"}, Fails(target, Here)
    PROVE  ~Due
BY StaysOnTrack DEF ValidInv, Applying, Due, Resolutions

LEMMA InitValid == Init => ValidInv
BY DEF Init, ValidInv, LoadInv, Validating, Validated, Applying, Resolutions

LEMMA ReadRefusedValid == ASSUME SelectInv, ValidInv, ReadRefused PROVE ValidInv'
<1>1. PICK why : Fail(why)
  BY DEF ReadRefused
<1>2. ~Due
  BY DEF ReadRefused, Due, ValidInv, Validated, Targets
<1> QED BY <1>1, <1>2, FailValid DEF ReadRefused, Resolving

LEMMA ReadForApplyValid == ASSUME SelectInv, ValidInv, ReadForApply PROVE ValidInv'
BY StartValid DEF ReadForApply

LEMMA ReadForValidateValid == ASSUME SelectInv, ValidInv, ReadForValidate PROVE ValidInv'
<1>1. pc = "read" /\ RootOk /\ mode = "validate" /\ UNCHANGED <<tree, mode>>
      /\ verdict # "accepted"
  BY DEF ReadForValidate, ValidInv, Validated
<1>2. /\ Registered' = Registered /\ RootOk' = RootOk /\ Targets' = Targets /\ Loadable' = Loadable
      /\ \A u : Good(u)' = Good(u)
  BY <1>1, SameTree, SameTreeAgain
<1>3. CASE Registered = {}
  <2>1. pc' = "accepted" /\ verdict' = "accepted" /\ UNCHANGED <<todo, Resolving>>
    BY <1>3 DEF ReadForValidate
  <2> QED BY <1>1, <1>2, <1>3, <2>1
          DEF ValidInv, LoadInv, Validating, Validated, Applying, Resolutions
<1>4. CASE Registered # {}
  <2>1. /\ pc' = "loadAll" /\ todo' = DOMAIN tree.root.targets /\ UNCHANGED <<target, verdict>>
        /\ queue' = SetToSeq(Registered) /\ docs' = {} /\ bytes' = 0
    BY <1>4 DEF ReadForValidate
  <2>2. ToSet(SetToSeq(Registered)) = Registered
    BY AllRegistered DEF SelectInv, Typed
  <2>3. Weighs(docs)' /\ bytes' = Cardinality(Weight(docs))'
    <3>1. Weighs({})' /\ Cardinality(Weight({}))' = 0
      BY <1>1, WeightOfNone, SameTreeAgain
    <3> QED BY <2>1, <3>1
  <2>4. LoadInv'
    <3>1. ToSet(queue)' = Registered
      BY <2>1, <2>2 DEF ToSet
    <3> QED BY <1>2, <2>1, <2>3, <3>1 DEF LoadInv
  <2> QED BY <1>1, <1>2, <1>4, <2>1, <2>4
          DEF ValidInv, Validating, Validated, Applying, Resolutions, Targets
<1> QED BY <1>3, <1>4

LEMMA LoadAgainValid == ASSUME SelectInv, ValidInv, LoadAgain PROVE ValidInv'
<1>1. /\ pc \in {"load", "loadAll"} /\ queue # <<>> /\ queue' = Tail(queue) /\ Head(queue) \in docs
      /\ UNCHANGED <<tree, mode, pc, target, todo, roots, stack, selected, acc, verdict, docs, bytes>>
  BY DEF LoadAgain, Loading
<1>2. queue \in Seq(Words)
  BY <1>1 DEF SelectInv, Typed
<1>3. ToSet(queue) = {Head(queue)} \cup ToSet(Tail(queue))
  BY <1>1, <1>2, ToSetTail
<1>4. docs' \cup ToSet(queue)' = docs \cup ToSet(queue)
  <2>1. ToSet(queue)' = ToSet(Tail(queue))
    BY <1>1 DEF ToSet
  <2> QED BY <1>1, <1>3, <2>1
<1>5. /\ Registered' = Registered /\ Selection' = Selection /\ BundleSelections(target)' = BundleSelections(target)
      /\ \A n : Sound(n)' = Sound(n) /\ Requires(n)' = Requires(n) /\ ToSet(Requires(n))' = ToSet(Requires(n))
      /\ \A ns : Weight(ns)' = Weight(ns) /\ Weighs(ns)' = Weighs(ns)
  <2>1. \A n : Requires(n)' = Requires(n)
    BY <1>1, SameTree
  <2>2. \A n : ToSet(Requires(n))' = ToSet(Requires(n))
    BY <2>1 DEF ToSet
  <2> QED BY <1>1, <2>1, <2>2, SameTree, SameTarget, SameTreeAgain
<1>6. LoadInv'
  <2>1. Weighs(docs)' /\ bytes' = Cardinality(Weight(docs))'
    <3>1. Weighs(docs) /\ bytes = Cardinality(Weight(docs))
      BY <1>1 DEF ValidInv, LoadInv
    <3> QED BY <1>1, <1>5, <3>1
  <2> QED BY <1>1, <1>4, <1>5, <2>1 DEF ValidInv, LoadInv
<1> QED BY <1>1, <1>6, LoadValid

LEMMA LoadOneValid == ASSUME SelectInv, ValidInv, LoadOne PROVE ValidInv'
<1> DEFINE n == Head(queue)
           more == SetToSeq(ToSet(File(n).requires) \ docs')
<1>1. /\ pc \in {"load", "loadAll"} /\ queue # <<>> /\ queue' = Tail(queue) \o more
      /\ n \notin docs /\ docs' = docs \cup {n} /\ bytes' = bytes + File(n).bytes
      /\ UNCHANGED <<tree, mode, pc, target, todo, roots, stack, selected, acc, verdict>>
  BY DEF LoadOne, Loading
<1>2. LoadFault(n) = ""
  BY DEF LoadOne
<1>3. /\ n \in Registered /\ Sound(n) /\ ~(bytes + File(n).bytes > MaxBytes)
      /\ ~(Cardinality(Registered) > MaxRegistered)
  BY <1>2 DEF LoadFault, Sound
<1>4. queue \in Seq(Words) /\ tree \in Trees /\ docs \subseteq Registered
  BY <1>1 DEF SelectInv, Typed, TypeOK
<1>5. File(n).bytes \in Nat /\ File(n).requires \in Seq(Words) /\ Requires(n) = File(n).requires
  BY <1>3, <1>4, RepositoryAtHand DEF Requires
<1>6. ToSet(queue) = {n} \cup ToSet(Tail(queue)) /\ Tail(queue) \in Seq(Words)
  BY <1>1, <1>4, ToSetTail
<1> HIDE DEF n
<1>7. more \in Seq(Words) /\ ToSet(more) = ToSet(File(n).requires) \ docs'
  <2>1. IsFiniteSet(ToSet(File(n).requires) \ docs') /\ ToSet(File(n).requires) \subseteq Words
    BY <1>5, ToSetFinite, FS_Difference
  <2>2. more \in Seq(ToSet(File(n).requires) \ docs') /\ ToSet(more) = ToSet(File(n).requires) \ docs'
    BY <2>1, SetToSeqLemma
  <2> HIDE DEF more
  <2> QED BY <2>1, <2>2, SeqMonotonic
<1> HIDE DEF more
<1>8. ToSet(queue)' = ToSet(Tail(queue)) \cup ToSet(more)
  <2> DEFINE rest == Tail(queue)
  <2>1. rest \in Seq(Words) /\ queue' = rest \o more
    BY <1>1, <1>6
  <2> HIDE DEF rest
  <2>2. ToSet(rest \o more) = ToSet(rest) \cup ToSet(more)
    BY <1>7, <2>1, ToSetConcat
  <2>3. ToSet(queue)' = ToSet(rest \o more)
    BY <2>1 DEF ToSet
  <2> QED BY <2>2, <2>3 DEF rest
<1>9. /\ docs \cup ToSet(queue) \subseteq docs' \cup ToSet(queue)'
      /\ ToSet(Requires(n)) \subseteq docs' \cup ToSet(queue)'
  BY <1>1, <1>5, <1>6, <1>7, <1>8
<1>10. /\ Registered' = Registered /\ Selection' = Selection
       /\ BundleSelections(target)' = BundleSelections(target)
       /\ \A m : Sound(m)' = Sound(m) /\ Requires(m)' = Requires(m)
       /\ \A m : ToSet(Requires(m))' = ToSet(Requires(m))
       /\ \A ns : Weight(ns)' = Weight(ns) /\ Weighs(ns)' = Weighs(ns)
  <2>1. \A m : Requires(m)' = Requires(m)
    BY <1>1, SameTree
  <2>2. \A m : ToSet(Requires(m))' = ToSet(Requires(m))
    BY <2>1 DEF ToSet
  <2> QED BY <1>1, <2>1, <2>2, SameTree, SameTarget, SameTreeAgain
<1>11. Weighs(docs \cup {n}) /\ bytes' = Cardinality(Weight(docs \cup {n}))
  <2>1. IsFiniteSet(Weight(docs)) /\ bytes = Cardinality(Weight(docs))
    BY <1>1 DEF ValidInv, LoadInv, Weighs
  <2>2. /\ IsFiniteSet(Weight(docs \cup {n}))
        /\ Cardinality(Weight(docs \cup {n})) = bytes + File(n).bytes
    BY <1>1, <1>5, <2>1, WeightOfMore
  <2>3. bytes \in Nat /\ MaxBytes \in Nat
    BY <2>1, FS_CardinalityType, LimitsAssumption
  <2>4. bytes + File(n).bytes <= MaxBytes
    BY <1>3, <1>5, <2>3
  <2> QED BY <1>1, <2>2, <2>4 DEF Weighs
<1>12. Cardinality(Registered) <= MaxRegistered
  <2>1. Cardinality(Registered) \in Nat /\ MaxRegistered \in Nat
    BY <1>4, RepositoryAtHand, FS_CardinalityType, LimitsAssumption
  <2> QED BY <1>3, <2>1
<1>13. LoadInv'
  <2>1. Weighs(docs)' /\ bytes' = Cardinality(Weight(docs))'
    BY <1>1, <1>10, <1>11
  <2>2. \A m \in docs' : Sound(m)' /\ ToSet(Requires(m))' \subseteq docs' \cup ToSet(queue)'
    <3>1. \A m \in docs : Sound(m) /\ ToSet(Requires(m)) \subseteq docs \cup ToSet(queue)
      BY <1>1 DEF ValidInv, LoadInv
    <3> QED BY <1>1, <1>3, <1>9, <1>10, <3>1
  <2>3. Cardinality(Registered)' <= MaxRegistered
    BY <1>10, <1>12
  <2>4. pc = "load" => /\ Selection \subseteq docs \cup ToSet(queue)
                       /\ roots = BundleSelections(target) /\ stack = <<>> /\ selected = <<>>
                       /\ acc = EmptyAccumulator
    BY DEF ValidInv, LoadInv
  <2>5. pc = "loadAll" => Registered \subseteq docs \cup ToSet(queue)
    BY DEF ValidInv, LoadInv
  <2> QED BY <1>1, <1>9, <1>10, <2>1, <2>2, <2>3, <2>4, <2>5 DEF LoadInv
<1> QED BY <1>1, <1>13, LoadValid

LEMMA LoadRefusedValid == ASSUME SelectInv, ValidInv, LoadRefused PROVE ValidInv'
<1> DEFINE n == Head(queue)
<1>1. /\ pc \in {"load", "loadAll"} /\ queue # <<>> /\ n \notin docs /\ LoadFault(n) # ""
      /\ Fail(LoadFault(n)) /\ UNCHANGED <<tree, mode, target>>
  BY DEF LoadRefused, Loading, Resolving
<1>2. ASSUME Due PROVE FALSE
  <2>1. mode = "apply" /\ pc = "load" /\ target = tree.active /\ target \in Targets
    BY <1>1, <1>2 DEF SelectInv, Typed, ValidInv, Applying, Due
  <2>2. Loadable /\ RootOk
    BY <1>2 DEF ValidInv, Validated, Due
  <2>3. tree \in Trees /\ queue \in Seq(Words)
    BY <2>1 DEF SelectInv, Typed
  <2>4. Selection \subseteq Registered
    BY <2>1, <2>2, <2>3, SelectsRegistered DEF Selection
  <2>5. Registered \in ClosedSets
    BY <2>2, <2>4 DEF ClosedSets, ClosedUnder, Loadable
  <2>6. ToSet(queue) \subseteq Registered
    BY <2>1, <2>5 DEF SelectInv, Within
  <2>7. n \in ToSet(queue)
    <3>1. queue # <<>>
      BY <1>1
    <3>2. ToSet(queue) = {Head(queue)} \cup ToSet(Tail(queue))
      BY <2>3, <3>1, ToSetTail
    <3> QED BY <3>2
  <2>8. LoadFault(n) = ""
    <3> HIDE DEF n
    <3> QED BY <1>1, <2>1, <2>2, <2>6, <2>7, LoadsAgain DEF ValidInv
  <2> QED BY <1>1, <2>8
<1> HIDE DEF n
<1> QED BY <1>1, <1>2, FailValid

LEMMA LoadedValid == ASSUME SelectInv, ValidInv, Loaded PROVE ValidInv'
<1>0. /\ ToSet(<<>>) = {} /\ queue = <<>> /\ UNCHANGED <<tree, mode, verdict>>
      /\ pc \in {"load", "loadAll"} /\ docs \subseteq Registered /\ tree \in Trees
  <2>1. ToSet(<<>>) = {}
    BY DEF ToSet
  <2>2. queue = <<>> /\ UNCHANGED <<tree, mode, verdict>> /\ pc \in {"load", "loadAll"}
    BY DEF Loaded
  <2>3. docs \subseteq Registered /\ tree \in Trees
    BY DEF SelectInv, Typed, TypeOK
  <2> QED BY <2>1, <2>2, <2>3
<1>1. CASE pc = "load"
  <2>1. /\ pc' = "select" /\ UNCHANGED <<target, todo, docs, queue, roots, stack, selected, acc>>
    BY <1>1 DEF Loaded, Resolving
  <2>2. /\ Registered' = Registered /\ RootOk' = RootOk /\ Targets' = Targets /\ Loadable' = Loadable
        /\ \A u : Good(u)' = Good(u)
        /\ \A u, c : SoFar(u, c)' = SoFar(u, c) /\ OnTrack(u, c)' = OnTrack(u, c)
        /\ ClosedSets' = ClosedSets
    BY <1>0, <2>1, SameTree, SameTarget, SameTreeAgain
  <2>3. docs \in ClosedSets
    <3>1. /\ \A n \in docs : ToSet(Requires(n)) \subseteq docs
          /\ Selection \subseteq docs
      BY <1>0, <1>1 DEF ValidInv, LoadInv
    <3> QED BY <1>0, <3>1 DEF ClosedSets, ClosedUnder
  <2>4. LoadInv'
    BY <1>0, <2>1, <2>2, <2>3 DEF LoadInv
  <2>5. Here' = First(target)
    <3>1. /\ roots = BundleSelections(target) /\ stack = <<>> /\ selected = <<>>
          /\ acc = EmptyAccumulator
      BY <1>1 DEF ValidInv, LoadInv
    <3> QED BY <1>0, <2>1, <3>1 DEF Here, First
  <2>6. SoFar(target, First(target)) /\ (Good(target) => OnTrack(target, First(target)))
    BY BeginsSoFar, TrackBegins
  <2>7. SoFar(target, Here)' /\ (Good(target) => OnTrack(target, Here)')
    <3>1. \A u, c : u = target' /\ c = Here' => /\ SoFar(target, Here)' <=> SoFar(u, c)'
                                                /\ OnTrack(target, Here)' <=> OnTrack(u, c)'
      OBVIOUS
    <3> QED BY <2>1, <2>2, <2>5, <2>6, <3>1
  <2>8. Validating'
    BY <1>0, <1>1, <2>1, <2>2, <2>7 DEF ValidInv, Validating, Resolutions
  <2>9. Validated'
    BY <1>0, <1>1, <2>1, <2>2 DEF ValidInv, Validated
  <2>10. Applying'
    BY <1>0, <1>1, <2>1, <2>2, <2>7 DEF ValidInv, Validated, Applying, Resolutions
  <2> QED BY <2>4, <2>8, <2>9, <2>10 DEF ValidInv
<1>2. CASE pc = "loadAll"
  <2>1. PICK t \in todo : StartResolve(t) /\ todo' = todo \ {t}
    BY <1>2 DEF Loaded
  <2>2. mode = "validate" /\ Registered # {} /\ todo = Targets /\ RootOk /\ verdict # "accepted"
    BY <1>2 DEF SelectInv, Typed, TypeOK, ValidInv, Validating, Validated
  <2>3. docs = Registered
    BY <1>0, <1>2 DEF ValidInv, LoadInv
  <2>4. Loadable
    BY <1>0, <1>2, <2>2, <2>3 DEF ValidInv, LoadInv, Loadable
  <2> QED BY <1>0, <2>1, <2>2, <2>4, StartValid
<1> QED BY <1>0, <1>1, <1>2

LEMMA SearchValid ==
    ASSUME SelectInv, ValidInv, Visit \/ VisitEnd \/ Selected \/ AddNext
    PROVE  ValidInv'
<1>1. ~Fails(target, Here) /\ Here' = Ahead(target, Here)
  BY VisitAhead, VisitEndAhead, SelectedAhead, AddNextAhead
<1>2. /\ pc \in {"select", "union"} /\ pc' \in {"select", "union", "composed"}
      /\ UNCHANGED <<tree, mode, target, todo, docs, verdict>>
      /\ pc' = "select" => pc = "select" /\ queue' = queue
  BY DEF Visit, Ask, VisitEnd, Selected, AddNext
<1> QED BY <1>1, <1>2, AheadValid

LEMMA VisitRefusedValid == ASSUME SelectInv, ValidInv, VisitRefused PROVE ValidInv'
<1>1. Fails(target, Here) /\ pc = "select"
  BY VisitRefusedFails DEF ValidInv, VisitRefused, Ask
<1>2. PICK why : Fail(why)
  BY DEF VisitRefused
<1>3. UNCHANGED <<tree, mode, target>>
  BY DEF VisitRefused, Resolving
<1> QED BY <1>1, <1>2, <1>3, NotDue, FailValid

LEMMA AddRefusedValid == ASSUME SelectInv, ValidInv, AddRefused PROVE ValidInv'
<1>1. Fails(target, Here) /\ pc = "union"
  BY AddRefusedFails DEF AddRefused
<1>2. PICK why : Fail(why)
  BY DEF AddRefused
<1>3. UNCHANGED <<tree, mode, target>>
  BY DEF AddRefused, Resolving
<1> QED BY <1>1, <1>2, <1>3, NotDue, FailValid

LEMMA UnionValid == ASSUME SelectInv, ValidInv, Union PROVE ValidInv'
<1>1. pc = "union" /\ UNCHANGED <<tree, mode, target, todo, docs>>
  BY DEF Union
<1>2. CASE Fails(target, Here) /\ \E why : Fail(why)
  <2>1. ~Due
    BY <1>1, <1>2, NotDue
  <2> QED BY <1>1, <1>2, <2>1, FailValid
<1>3. CASE /\ ~Fails(target, Here) /\ Here' = Ahead(target, Here)
           /\ pc' = "composed" /\ UNCHANGED verdict
  BY <1>1, <1>3, AheadValid
<1> QED BY <1>2, <1>3, UnionAhead

LEMMA FlatValid == ASSUME SelectInv, ValidInv, Flat PROVE ValidInv'
<1>1. pc = "flat" /\ Registered = {} /\ mode = "apply" /\ UNCHANGED <<tree, mode, target>>
  BY DEF Flat, SelectInv, Covered, TypeOK, ValidInv, Validating, Resolutions
<1>2. CASE \E why : Fail(why)
  BY <1>1, <1>2, FailValid DEF Due
<1>3. CASE Answer(FlatEnvironment)
  <2>1. pc' = "composed" /\ verdict' = verdict
    BY <1>3 DEF Answer
  <2>2. Registered' = Registered /\ RootOk' = RootOk
    BY <1>1, SameTree, SameTreeAgain
  <2> QED BY <1>1, <2>1, <2>2 DEF ValidInv, LoadInv, Validating, Validated, Applying, Resolutions
<1> QED BY <1>2, <1>3 DEF Flat

LEMMA ValidateNextValid == ASSUME SelectInv, ValidInv, ValidateNext PROVE ValidInv'
<1>1. pc = "composed" /\ mode = "validate" /\ UNCHANGED <<tree, mode>>
  BY DEF ValidateNext
<1>2. /\ Registered # {} /\ Loadable /\ target \in Targets /\ todo \subseteq Targets
      /\ RootOk /\ SoFar(target, Here) /\ verdict # "accepted"
      /\ \A t \in Targets \ todo : t # target => Good(t)
  BY <1>1 DEF ValidInv, Validating, Validated, Resolutions
<1>3. Good(target)
  <2>1. ~Fails(target, Here) /\ Ahead(target, Here) = Here
    BY <1>1, HereIs DEF Fails, Ahead
  <2> QED BY <1>2, <2>1, EndsGood
<1>4. CASE todo = {}
  <2>1. pc' = "accepted" /\ verdict' = "accepted"
    BY <1>4 DEF ValidateNext
  <2>2. /\ Registered' = Registered /\ RootOk' = RootOk /\ Targets' = Targets /\ Loadable' = Loadable
        /\ \A u : Good(u)' = Good(u)
    BY <1>1, SameTree, SameTreeAgain
  <2>3. \A t \in Targets : Good(t)
    BY <1>2, <1>3, <1>4
  <2> QED BY <1>1, <1>2, <2>1, <2>2, <2>3
          DEF LoadInv, ValidInv, Validating, Validated, Applying, Resolutions
<1>5. CASE todo # {}
  <2>1. PICK t \in todo : StartResolve(t) /\ todo' = todo \ {t} /\ UNCHANGED verdict
    BY <1>5 DEF ValidateNext
  <2>2. \A u \in Targets \ todo' : u # t => Good(u)
    BY <1>2, <1>3, <2>1
  <2> QED BY <1>1, <1>2, <2>1, <2>2, StartValid
<1> QED BY <1>4, <1>5

LEMMA ApplyAfterValid == ASSUME SelectInv, ValidInv, ApplyAfterValidate PROVE ValidInv'
<1>1. /\ mode' = "apply" /\ pc' = "read" /\ target' = tree.active /\ UNCHANGED <<tree, verdict>>
  BY DEF ApplyAfterValidate
<1>2. /\ Registered' = Registered /\ RootOk' = RootOk /\ Targets' = Targets /\ Loadable' = Loadable
      /\ \A u : Good(u)' = Good(u)
  BY <1>1, SameTree, SameTreeAgain
<1> QED BY <1>1, <1>2 DEF LoadInv, ValidInv, Validating, Validated, Applying, Resolutions

LEMMA ValidStep == SelectInv /\ ValidInv /\ [Next]_vars => ValidInv'
<1> SUFFICES ASSUME SelectInv, ValidInv, [Next]_vars PROVE ValidInv'
  OBVIOUS
<1>1. CASE ReadRefused \/ ReadForApply \/ ReadForValidate
  BY <1>1, ReadRefusedValid, ReadForApplyValid, ReadForValidateValid
<1>2. CASE LoadAgain \/ LoadOne \/ LoadRefused \/ Loaded
  BY <1>2, LoadAgainValid, LoadOneValid, LoadRefusedValid, LoadedValid
<1>3. CASE Visit \/ VisitEnd \/ VisitRefused \/ Selected
  BY <1>3, SearchValid, VisitRefusedValid
<1>4. CASE AddNext \/ AddRefused \/ Flat \/ Union
  BY <1>4, SearchValid, AddRefusedValid, FlatValid, UnionValid
<1>5. CASE ValidateNext \/ ApplyAfterValidate
  BY <1>5, ValidateNextValid, ApplyAfterValid
<1>6. CASE UNCHANGED vars
  <2>1. UNCHANGED <<tree, mode, pc, target, todo, queue, docs, bytes, roots, stack, selected, acc, verdict>>
    BY <1>6 DEF vars
  <2>2. /\ Registered' = Registered /\ RootOk' = RootOk /\ Targets' = Targets /\ Loadable' = Loadable
        /\ \A u : Good(u)' = Good(u)
        /\ \A u, c : SoFar(u, c)' = SoFar(u, c) /\ OnTrack(u, c)' = OnTrack(u, c)
        /\ ClosedSets' = ClosedSets /\ Selection' = Selection
        /\ BundleSelections(target)' = BundleSelections(target)
        /\ \A n : Sound(n)' = Sound(n) /\ Requires(n)' = Requires(n)
        /\ \A ns : Weight(ns)' = Weight(ns) /\ Weighs(ns)' = Weighs(ns)
    BY <2>1, SameTree, SameTarget, SameTreeAgain
  <2>3. Here' = Here /\ ToSet(queue)' = ToSet(queue) /\ \A n : ToSet(Requires(n))' = ToSet(Requires(n))
    BY <2>1, <2>2 DEF Here, ToSet
  <2>4. LoadInv'
    <3>1. Weighs(docs)' = Weighs(docs) /\ Weight(docs)' = Weight(docs)
      BY <2>1, <2>2
    <3> QED BY <2>1, <2>2, <2>3, <3>1 DEF ValidInv, LoadInv
  <2>5. SoFar(target, Here)' = SoFar(target, Here) /\ OnTrack(target, Here)' = OnTrack(target, Here)
    <3>1. \A u, c : u = target' /\ c = Here' => /\ SoFar(target, Here)' <=> SoFar(u, c)'
                                                /\ OnTrack(target, Here)' <=> OnTrack(u, c)'
      OBVIOUS
    <3> QED BY <2>1, <2>2, <2>3, <3>1
  <2>6. Validating'
    BY <2>1, <2>2, <2>5 DEF ValidInv, Validating
  <2>7. Validated'
    BY <2>1, <2>2 DEF ValidInv, Validated
  <2>8. Applying'
    BY <2>1, <2>2, <2>5 DEF ValidInv, Applying
  <2> QED BY <2>4, <2>6, <2>7, <2>8 DEF ValidInv
<1> QED BY <1>1, <1>2, <1>3, <1>4, <1>5, <1>6 DEF Next

\* What `genv validate` accepts can be applied: composing the same target again
\* from the same documents loads, selects and adds the same, so it cannot fail
\* where validate did not (validateCmd, compose.Resolve), for every repository
\* that registers a module.
THEOREM ValidationIsKept == Spec => []ValidatedCanBeApplied
<1>1. Init => ValidInv
  BY InitValid
<1>2. SelectInv /\ ValidInv /\ [Next]_vars => ValidInv'
  BY ValidStep
<1>3. ValidInv => ValidatedCanBeApplied
  BY DEF ValidInv, Validated, Applying, Loadable, Sound, Targets, ValidatedCanBeApplied
<1> QED BY <1>1, <1>2, <1>3, SelectInvariance, PTL DEF Spec

-----------------------------------------------------------------------------
(***************************************************************************)
(* The plan.  It is a topological order, and a cycle is reported exactly   *)
(* when there is one, for any finite set of services and any requires      *)
(* lists.  What carries it is that each count is the number of list entries*)
(* whose service is not placed yet (Counts), so that a service becomes     *)
(* ready exactly when its last requirement is placed, and that no service  *)
(* of a self-blocking set is ever ready (NoneOfTheBlocked).                *)
(***************************************************************************)
Missing(n) == {i \in DOMAIN services[n] : services[n][i] \notin Placed}

Declared ==
    /\ services \in [Names -> Lists \cup {Tombstone, Undeclared}]
    /\ phase \in {"sort", "planned", "cycle"} => \A n \in LiveServices : RequiredBy(n) \subseteq LiveServices
    /\ phase \in {"build", "refused"} => ready = {} /\ ordered = <<>>

Counts == \A n \in LiveServices : /\ remaining[n] = Cardinality(Missing(n))
                                  /\ remaining[n] = 0 <=> n \in ready \cup Placed

Earlier == \A k \in DOMAIN ordered : \A dep \in RequiredBy(ordered[k]) :
              \E j \in 1..(k - 1) : ordered[j] = dep

NoneOfTheBlocked == \A S \in SUBSET LiveServices : SelfBlocking(S) => S \cap (ready \cup Placed) = {}

Returned ==
    /\ phase = "planned" => Len(ordered) = Cardinality(LiveServices)
    /\ phase = "cycle" => /\ Len(ordered) # Cardinality(LiveServices) /\ ready = {}
                          /\ refusal = {n \in LiveServices : remaining[n] > 0}

PlanInv ==
    /\ PlanTypeOK /\ Declared
    /\ phase \in {"sort", "planned", "cycle"} => Counts /\ Earlier /\ NoneOfTheBlocked
    /\ Returned

-----------------------------------------------------------------------------
(* Lemmas.                                                                 *)

LEMMA FiniteLive == IsFiniteSet(LiveServices)
BY NamesAssumption, FS_Subset DEF LiveServices

\* A requires list is a finite sequence of names.
LEMMA RequirementsOf ==
    ASSUME services \in [Names -> Lists \cup {Tombstone, Undeclared}], NEW n \in LiveServices
    PROVE  /\ services[n] \in Seq(Names)
           /\ DOMAIN services[n] = 1..Len(services[n]) /\ Len(services[n]) \in Nat
           /\ IsFiniteSet(DOMAIN services[n])
           /\ Cardinality(DOMAIN services[n]) = Len(services[n])
<1>1. services[n] \in Seq(Names)
  BY ListsAssumption DEF LiveServices
<1>2. DOMAIN services[n] = 1..Len(services[n]) /\ Len(services[n]) \in Nat
  BY <1>1, LenProperties
<1> QED BY <1>1, <1>2, FS_Interval

\* Distinct services are as many as their places.
LEMMA PlacedCount ==
    ASSUME PlanTypeOK
    PROVE  /\ Cardinality(Placed) = Len(ordered)
           /\ Placed \subseteq LiveServices
           /\ Len(ordered) = Cardinality(LiveServices) <=> Placed = LiveServices
<1>1. Len(ordered) \in Nat /\ DOMAIN ordered = 1..Len(ordered)
      /\ ordered \in [1..Len(ordered) -> LiveServices]
  BY LenProperties DEF PlanTypeOK
<1>2. Placed \subseteq LiveServices
  BY <1>1 DEF Placed
<1>3. ordered \in Bijection(1..Len(ordered), Placed)
  BY <1>1 DEF PlanTypeOK, Placed, Bijection, Injection, Surjection, IsInjective
<1>4. Cardinality(Placed) = Len(ordered)
  BY <1>1, <1>3, FS_CountingElements DEF ExistsBijection
<1>5. Cardinality(Placed) = Cardinality(LiveServices) => Placed = LiveServices
  BY <1>2, FiniteLive, FS_Subset
<1> QED BY <1>2, <1>4, <1>5

-----------------------------------------------------------------------------
(* The inductive invariant.                                                *)

LEMMA PlanInitInv == PlanInit => PlanInv
<1> SUFFICES ASSUME PlanInit PROVE PlanInv
  OBVIOUS
<1>1. PlanTypeOK
  BY EmptySeq DEF PlanInit, PlanTypeOK, Placed
<1> QED BY <1>1 DEF PlanInit, PlanInv, Declared, Returned

LEMMA RefuseKeepsPlan == ASSUME PlanInv, Refuse PROVE PlanInv'
<1>1. services' = services /\ LiveServices' = LiveServices /\ Placed' = Placed
  BY DEF Refuse, LiveServices, Placed
<1>2. PlanTypeOK'
  BY <1>1 DEF PlanInv, PlanTypeOK, Refuse
<1> QED BY <1>1, <1>2 DEF PlanInv, Declared, Returned, Refuse

LEMMA EdgesKeeps == ASSUME PlanInv, Edges PROVE PlanInv'
<1>1. /\ services' = services /\ LiveServices' = LiveServices /\ Placed' = {} /\ Placed = {}
      /\ ordered' = ordered /\ ordered = <<>>
      /\ \A n : RequiredBy(n)' = RequiredBy(n)
  BY DEF Edges, LiveServices, Placed, PlanInv, Declared, RequiredBy
<1>2. \A n \in LiveServices : Len(services[n]) \in Nat
  BY RequirementsOf DEF PlanInv, Declared
<1>3. PlanTypeOK'
  BY <1>1, <1>2 DEF PlanInv, PlanTypeOK, Edges, InitialCounts
<1>4. \A n \in LiveServices : RequiredBy(n) \subseteq LiveServices
  BY DEF Edges, Faulty, RequiredBy
<1>5. Declared'
  BY <1>1, <1>4 DEF PlanInv, Declared, Edges, RequiredBy
<1>6. Counts'
  <2> SUFFICES ASSUME NEW n \in LiveServices
               PROVE  /\ remaining'[n] = Cardinality(Missing(n)')
                      /\ remaining'[n] = 0 <=> n \in ready' \cup Placed'
    BY <1>1 DEF Counts
  <2>1. Missing(n)' = DOMAIN services[n]
    BY <1>1 DEF Missing
  <2>2. Cardinality(DOMAIN services[n]) = Len(services[n])
    BY RequirementsOf DEF PlanInv, Declared
  <2> QED BY <1>1, <2>1, <2>2 DEF Edges, InitialCounts
<1>7. Earlier'
  BY <1>1 DEF Earlier
<1>8. NoneOfTheBlocked'
  <2> SUFFICES ASSUME NEW S \in SUBSET LiveServices, \A n \in S : RequiredBy(n) \cap S # {},
                      NEW m \in S, m \in ready'
               PROVE  FALSE
    BY <1>1 DEF NoneOfTheBlocked, SelfBlocking
  <2>1. Len(services[m]) = 0
    BY DEF Edges, InitialCounts
  <2>2. DOMAIN services[m] = {}
    BY <2>1, RequirementsOf DEF PlanInv, Declared
  <2> QED BY <2>2 DEF RequiredBy
<1>9. Returned'
  BY DEF Returned, Edges
<1> QED BY <1>3, <1>5, <1>6, <1>7, <1>8, <1>9 DEF PlanInv

LEMMA TakeKeeps == ASSUME PlanInv, TakeReady PROVE PlanInv'
<1>1. PICK next \in ready :
        /\ ordered' = Append(ordered, next)
        /\ remaining' = [n \in LiveServices |-> remaining[n] - Occurrences(n, next)]
        /\ ready' = (ready \ {next}) \cup Freed(next, remaining')
  BY DEF TakeReady
<1>2. /\ services' = services /\ LiveServices' = LiveServices /\ phase = "sort" /\ phase' = "sort"
      /\ \A n : RequiredBy(n)' = RequiredBy(n)
  BY DEF TakeReady, LiveServices, RequiredBy
<1>3. /\ Counts /\ Earlier /\ NoneOfTheBlocked /\ PlanTypeOK /\ Declared
      /\ next \in LiveServices /\ next \notin Placed
  BY <1>2 DEF PlanInv, PlanTypeOK
<1>4. /\ Len(ordered) \in Nat /\ DOMAIN ordered = 1..Len(ordered)
      /\ ordered' \in Seq(LiveServices) /\ Len(ordered') = Len(ordered) + 1
      /\ DOMAIN ordered' = 1..(Len(ordered) + 1)
      /\ \A k \in 1..Len(ordered) : ordered'[k] = ordered[k]
      /\ ordered'[Len(ordered) + 1] = next
  BY <1>1, <1>3, AppendProperties, LenProperties DEF PlanTypeOK
<1>5. Placed' = Placed \cup {next}
  <2>1. \A x : x \in Placed' <=> \E k \in 1..(Len(ordered) + 1) : ordered'[k] = x
    BY <1>4 DEF Placed
  <2>2. \A x : x \in Placed <=> \E k \in 1..Len(ordered) : ordered[k] = x
    BY <1>4 DEF Placed
  <2>3. \A k \in 1..(Len(ordered) + 1) : k \in 1..Len(ordered) \/ k = Len(ordered) + 1
    BY <1>4
  <2>4. \A k \in 1..Len(ordered) : k \in 1..(Len(ordered) + 1)
    BY <1>4
  <2>5. Len(ordered) + 1 \in 1..(Len(ordered) + 1)
    BY <1>4
  <2> QED BY <1>4, <2>1, <2>2, <2>3, <2>4, <2>5
<1>6. ASSUME NEW n \in LiveServices
      PROVE  /\ IsFiniteSet(Missing(n)) /\ Positions(n, next) \subseteq Missing(n)
             /\ Missing(n)' = Missing(n) \ Positions(n, next)
             /\ remaining'[n] = Cardinality(Missing(n)')
             /\ remaining'[n] \in Nat
  <2>1. IsFiniteSet(DOMAIN services[n])
    BY <1>3, RequirementsOf DEF Declared
  <2>2. IsFiniteSet(Missing(n))
    BY <2>1, FS_Subset DEF Missing
  <2>3. Positions(n, next) \subseteq Missing(n)
    BY <1>3 DEF Positions, Missing
  <2>4. Missing(n)' = Missing(n) \ Positions(n, next)
    BY <1>2, <1>5 DEF Positions, Missing
  <2>5. /\ IsFiniteSet(Missing(n) \ Positions(n, next))
        /\ Cardinality(Missing(n) \ Positions(n, next))
             = Cardinality(Missing(n)) - Cardinality(Missing(n) \cap Positions(n, next))
    BY <2>2, FS_Difference
  <2>6. Missing(n) \cap Positions(n, next) = Positions(n, next)
    BY <2>3
  <2>7. remaining'[n] = Cardinality(Missing(n)) - Cardinality(Positions(n, next))
    BY <1>1, <1>3 DEF Counts, Occurrences
  <2> QED BY <2>2, <2>3, <2>4, <2>5, <2>6, <2>7, FS_CardinalityType
<1>7. \A n \in LiveServices : Positions(n, next) # {} => n \notin ready \cup Placed
  <2> SUFFICES ASSUME NEW n \in LiveServices, Positions(n, next) # {} PROVE n \notin ready \cup Placed
    OBVIOUS
  <2>1. Missing(n) # {} /\ IsFiniteSet(Missing(n))
    BY <1>6
  <2>2. Cardinality(Missing(n)) # 0
    BY <2>1, FS_EmptySet
  <2> QED BY <2>2, <1>3 DEF Counts
<1>8. PlanTypeOK'
  <2>1. remaining' \in [LiveServices -> Nat]
    BY <1>1, <1>6
  <2>2. ready' \subseteq LiveServices
    BY <1>1, <1>3 DEF Freed, PlanTypeOK
  <2>3. ready' \cap Placed' = {}
    BY <1>1, <1>3, <1>5, <1>7 DEF Freed, PlanTypeOK
  <2>4. \A i, j \in DOMAIN ordered' : ordered'[i] = ordered'[j] => i = j
    <3>1. \A i \in 1..Len(ordered) : ordered[i] # next
      BY <1>3, <1>4 DEF Placed
    <3>2. \A i, j \in 1..Len(ordered) : ordered[i] = ordered[j] => i = j
      BY <1>3, <1>4 DEF PlanTypeOK
    <3> QED BY <1>4, <3>1, <3>2
  <2> QED BY <1>2, <1>4, <2>1, <2>2, <2>3, <2>4 DEF PlanTypeOK
<1>9. Counts'
  <2> SUFFICES ASSUME NEW n \in LiveServices
               PROVE  remaining'[n] = 0 <=> n \in ready' \cup Placed'
    BY <1>2, <1>6 DEF Counts
  <2>1. CASE Positions(n, next) = {}
    <3>1. Missing(n)' = Missing(n)
      BY <1>6, <2>1
    <3>2. remaining'[n] = remaining[n]
      BY <1>3, <1>6, <3>1 DEF Counts
    <3> QED BY <3>2, <2>1, <1>1, <1>3, <1>5 DEF Counts, Freed
  <2>2. CASE Positions(n, next) # {}
    <3>1. n \notin ready \cup Placed \cup {next}
      BY <1>7, <2>2
    <3> QED BY <3>1, <2>2, <1>1, <1>2, <1>5 DEF Freed
  <2> QED BY <2>1, <2>2
<1>10. \A n \in ready \cup Placed : RequiredBy(n) \subseteq Placed
  <2> SUFFICES ASSUME NEW n \in ready \cup Placed PROVE RequiredBy(n) \subseteq Placed
    OBVIOUS
  <2>1. n \in LiveServices
    BY <1>3, PlacedCount DEF PlanTypeOK
  <2>2. Cardinality(Missing(n)) = 0 /\ IsFiniteSet(Missing(n))
    BY <1>3, <1>6, <2>1 DEF Counts
  <2>3. Missing(n) = {}
    BY <2>2, FS_EmptySet
  <2> QED BY <2>3 DEF Missing, RequiredBy
<1>11. Earlier'
  <2> SUFFICES ASSUME NEW k \in 1..(Len(ordered) + 1), NEW dep \in RequiredBy(ordered'[k])
               PROVE  \E j \in 1..(k - 1) : ordered'[j] = dep
    BY <1>2, <1>4 DEF Earlier
  <2>1. CASE k \in 1..Len(ordered)
    <3>1. PICK j \in 1..(k - 1) : ordered[j] = dep
      BY <1>3, <1>4, <2>1 DEF Earlier
    <3>2. j \in 1..Len(ordered)
      BY <1>4, <2>1
    <3> QED BY <1>4, <3>1, <3>2
  <2>2. CASE k = Len(ordered) + 1
    <3>1. dep \in Placed
      BY <1>4, <1>10, <2>2
    <3>2. PICK j \in 1..Len(ordered) : ordered[j] = dep
      BY <1>4, <3>1 DEF Placed
    <3> QED BY <1>4, <2>2, <3>2
  <2> QED BY <1>4, <2>1, <2>2
<1>12. NoneOfTheBlocked'
  <2> SUFFICES ASSUME NEW S \in SUBSET LiveServices, \A n \in S : RequiredBy(n) \cap S # {},
                      NEW m \in S, m \in ready' \cup Placed'
               PROVE  FALSE
    BY <1>2 DEF NoneOfTheBlocked, SelfBlocking
  <2>1. S \cap (ready \cup Placed) = {}
    BY <1>3 DEF NoneOfTheBlocked, SelfBlocking
  <2>2. m \in Freed(next, remaining')
    BY <2>1, <1>1, <1>5
  <2>3. Missing(m)' = {}
    <3>1. IsFiniteSet(Missing(m)')
      BY <1>6, FS_Difference
    <3>2. Cardinality(Missing(m)') = 0
      BY <1>6, <2>2 DEF Freed
    <3> QED BY <3>1, <3>2, FS_EmptySet
  <2>4. RequiredBy(m) \subseteq Placed'
    BY <1>2, <2>3 DEF Missing, RequiredBy
  <2> QED BY <2>1, <2>4, <1>5
<1>13. Declared' /\ Returned'
  BY <1>2, <1>3 DEF Declared, Returned
<1> QED BY <1>2, <1>8, <1>9, <1>11, <1>12, <1>13 DEF PlanInv

LEMMA FinishKeeps == ASSUME PlanInv, Finish PROVE PlanInv'
<1>1. /\ services' = services /\ LiveServices' = LiveServices /\ ordered' = ordered /\ Placed' = Placed
      /\ remaining' = remaining /\ ready' = ready /\ phase = "sort" /\ ready = {}
      /\ phase' \in {"planned", "cycle"}
      /\ \A n : RequiredBy(n)' = RequiredBy(n) /\ Missing(n)' = Missing(n)
  BY DEF Finish, LiveServices, Placed, RequiredBy, Missing
<1>2. PlanTypeOK'
  BY <1>1 DEF PlanInv, PlanTypeOK
<1>3. Declared'
  BY <1>1 DEF PlanInv, Declared, RequiredBy
<1>4. Counts' /\ Earlier' /\ NoneOfTheBlocked'
  <2>1. Counts /\ Earlier /\ NoneOfTheBlocked
    BY <1>1 DEF PlanInv
  <2>2. Counts'
    BY <1>1, <2>1 DEF Counts
  <2>3. Earlier'
    BY <1>1, <2>1 DEF Earlier
  <2>4. NoneOfTheBlocked'
    BY <1>1, <2>1 DEF NoneOfTheBlocked, SelfBlocking
  <2> QED BY <2>2, <2>3, <2>4
<1>5. Returned'
  BY <1>1 DEF Returned, Finish
<1> QED BY <1>2, <1>3, <1>4, <1>5 DEF PlanInv

LEMMA PlanStep == PlanInv /\ [PlanNext]_planVars => PlanInv'
<1> SUFFICES ASSUME PlanInv, [PlanNext]_planVars PROVE PlanInv'
  OBVIOUS
<1>1. CASE UNCHANGED planVars
  <2>1. /\ services' = services /\ phase' = phase /\ remaining' = remaining /\ ready' = ready
        /\ ordered' = ordered /\ refusal' = refusal /\ LiveServices' = LiveServices /\ Placed' = Placed
        /\ \A n : RequiredBy(n)' = RequiredBy(n) /\ Missing(n)' = Missing(n)
    BY <1>1 DEF planVars, LiveServices, Placed, RequiredBy, Missing
  <2>2. PlanTypeOK' /\ Declared' /\ Returned'
    BY <2>1 DEF PlanInv, PlanTypeOK, Declared, Returned
  <2>3. Counts' <=> Counts
    BY <2>1 DEF Counts
  <2>4. Earlier' <=> Earlier
    BY <2>1 DEF Earlier
  <2>5. NoneOfTheBlocked' <=> NoneOfTheBlocked
    BY <2>1 DEF NoneOfTheBlocked, SelfBlocking
  <2> QED BY <2>1, <2>2, <2>3, <2>4, <2>5 DEF PlanInv
<1> QED BY <1>1, RefuseKeepsPlan, EdgesKeeps, TakeKeeps, FinishKeeps DEF PlanNext

\* The inductive invariant holds: counts are what is missing, whatever the graph.
THEOREM PlanInvariance == PlanSpec => []PlanInv
<1>1. PlanInit => PlanInv
  BY PlanInitInv
<1>2. PlanInv /\ [PlanNext]_planVars => PlanInv'
  BY PlanStep
<1> QED BY <1>1, <1>2, PTL DEF PlanSpec

\* Nothing is ready or placed twice and no count is ever negative, for any
\* finite set of services (topoSort).
THEOREM PlanTypeCorrect == PlanSpec => []PlanTypeOK
<1>1. PlanInv => PlanTypeOK
  BY DEF PlanInv
<1> QED BY <1>1, PlanInvariance, PTL

\* A plan that Build returns is a start order: every live service is in it,
\* after everything it requires.
THEOREM StartOrder == PlanSpec => []OrdersDependenciesFirst
<1>1. PlanInv => OrdersDependenciesFirst
  <2> SUFFICES ASSUME PlanInv, phase = "planned"
               PROVE  /\ Placed = LiveServices
                      /\ Earlier
    BY DEF OrdersDependenciesFirst, Earlier
  <2> QED BY PlacedCount DEF PlanInv, Returned
<1> QED BY <1>1, PlanInvariance, PTL

\* Build reports a cycle if and only if there is one, and names exactly the
\* services that a cycle blocks.
THEOREM CyclesAreReported == PlanSpec => []CycleIsReported
<1>1. ASSUME PlanInv, phase = "planned" PROVE BlockedServices = {}
  <2>1. Placed = LiveServices /\ NoneOfTheBlocked
    BY <1>1, PlacedCount DEF PlanInv, Returned
  <2> QED BY <2>1 DEF BlockedServices, NoneOfTheBlocked
<1>2. ASSUME PlanInv, phase = "cycle" PROVE refusal = BlockedServices /\ BlockedServices # {}
  <2>1. /\ Placed # LiveServices /\ Placed \subseteq LiveServices /\ ready = {}
        /\ Counts /\ NoneOfTheBlocked /\ refusal = {n \in LiveServices : remaining[n] > 0}
    BY <1>2, PlacedCount DEF PlanInv, Returned
  <2>2. refusal = LiveServices \ Placed
    <3>1. \A n \in LiveServices : remaining[n] \in Nat
      BY <1>2 DEF PlanInv, PlanTypeOK
    <3> QED BY <2>1, <3>1 DEF Counts
  <2>3. SelfBlocking(refusal)
    <3> SUFFICES ASSUME NEW n \in refusal PROVE RequiredBy(n) \cap refusal # {}
      BY DEF SelfBlocking
    <3>1. n \in LiveServices /\ n \notin Placed
      BY <2>2
    <3>2. Cardinality(Missing(n)) # 0
      BY <2>1, <3>1 DEF Counts
    <3>3. Missing(n) # {}
      BY <3>2, FS_EmptySet
    <3>4. PICK i \in DOMAIN services[n] : services[n][i] \notin Placed
      BY <3>3 DEF Missing
    <3>5. services[n][i] \in LiveServices
      BY <1>2, <3>1, <3>4 DEF PlanInv, Declared, RequiredBy
    <3> QED BY <2>2, <3>4, <3>5 DEF RequiredBy
  <2>4. refusal \subseteq BlockedServices
    BY <2>2, <2>3 DEF BlockedServices
  <2>5. BlockedServices \subseteq refusal
    BY <2>1, <2>2 DEF BlockedServices, NoneOfTheBlocked
  <2> QED BY <2>1, <2>2, <2>4, <2>5
<1>3. PlanInv => CycleIsReported
  BY <1>1, <1>2 DEF CycleIsReported
<1> QED BY <1>3, PlanInvariance, PTL

-----------------------------------------------------------------------------
(* The plan is the first of all orders.  Where an order of the requirements *)
(* parts with the plan, the plan has the smaller name: what the order has   *)
(* there was ready too, and the smallest of the ready services was taken.   *)

Orders == {s \in [1..Cardinality(LiveServices) -> LiveServices] : Permutation(s) /\ Respects(s)}

Smallest ==
    \A s \in Orders :
       \/ \A k \in DOMAIN ordered : s[k] = ordered[k]
       \/ \E k \in DOMAIN ordered : ordered[k] < s[k] /\ \A j \in 1..(k - 1) : ordered[j] = s[j]

\* A list with as many names as places names none twice.
LEMMA PermutationsAreInjective ==
    ASSUME NEW s \in [1..Cardinality(LiveServices) -> LiveServices], Permutation(s)
    PROVE  \A i, j \in 1..Cardinality(LiveServices) : s[i] = s[j] => i = j
<1> DEFINE N == Cardinality(LiveServices)
           R == {s[k] : k \in 1..N}
<1>1. N \in Nat /\ IsFiniteSet(LiveServices)
  BY FiniteLive, FS_CardinalityType
<1>2. IsFiniteSet(1..N) /\ Cardinality(1..N) = N
  BY <1>1, FS_Interval
<1>3. DOMAIN s = 1..N /\ Cardinality(R) = N
  BY DEF Permutation
<1>4. R \subseteq LiveServices /\ IsFiniteSet(R)
  BY <1>1, FS_Subset
<1>5. s \in Surjection(1..N, R)
  BY DEF Surjection
<1>6. s \in Injection(1..N, R)
  BY <1>2, <1>3, <1>4, <1>5, FS_SurjSameCardinalityImpliesInj
<1> QED BY <1>6 DEF Injection, IsInjective

LEMMA TakeSmallest == ASSUME PlanInv, Smallest, TakeReady PROVE Smallest'
<1>1. PICK next \in ready : FirstReady(next) /\ ordered' = Append(ordered, next)
  BY DEF TakeReady
<1>2. /\ services' = services /\ LiveServices' = LiveServices /\ phase = "sort" /\ Orders' = Orders
  BY DEF TakeReady, LiveServices, Orders, Permutation, Respects, RequiredBy
<1>3. PlanTypeOK /\ Counts /\ Declared /\ next \in LiveServices /\ next \notin Placed
  BY <1>1, <1>2 DEF PlanInv, PlanTypeOK
<1> DEFINE n == Len(ordered)
           N == Cardinality(LiveServices)
<1>4. /\ n \in Nat /\ DOMAIN ordered = 1..n /\ DOMAIN ordered' = 1..(n + 1)
      /\ \A k \in 1..n : ordered'[k] = ordered[k] /\ ordered[k] \in LiveServices
      /\ ordered'[n + 1] = next
  BY <1>1, <1>3, AppendProperties, LenProperties, ElementOfSeq DEF PlanTypeOK
<1>5. N \in Nat /\ n + 1 <= N
  <2>1. N \in Nat /\ IsFiniteSet(LiveServices)
    BY FiniteLive, FS_CardinalityType
  <2>2. Cardinality(Placed) = n /\ Placed \subseteq LiveServices /\ Placed # LiveServices
    BY <1>3, PlacedCount
  <2>3. n <= N /\ n # N
    BY <2>1, <2>2, FS_Subset
  <2> QED BY <1>4, <2>1, <2>3
<1>6. ASSUME NEW s \in Orders, \A k \in 1..n : s[k] = ordered[k]
      PROVE  s[n + 1] = next \/ next < s[n + 1]
  <2> DEFINE y == s[n + 1]
  <2>1. n + 1 \in 1..N /\ \A k \in 1..n : k \in 1..N /\ k # n + 1
    BY <1>4, <1>5
  <2>2. s \in [1..N -> LiveServices] /\ Permutation(s) /\ Respects(s)
    BY DEF Orders
  <2>3. y \in LiveServices
    BY <2>1, <2>2
  <2>4. RequiredBy(y) \subseteq Placed
    <3> SUFFICES ASSUME NEW dep \in RequiredBy(y) PROVE dep \in Placed
      OBVIOUS
    <3>1. PICK j \in 1..((n + 1) - 1) : s[j] = dep
      BY <2>1, <2>2 DEF Respects
    <3>2. j \in 1..n
      BY <1>4
    <3> QED BY <1>4, <1>6, <3>1, <3>2 DEF Placed
  <2>5. Missing(y) = {}
    BY <2>4 DEF Missing, RequiredBy
  <2>6. remaining[y] = 0
    BY <1>3, <2>3, <2>5, FS_EmptySet DEF Counts
  <2>7. y \notin Placed
    <3> SUFFICES ASSUME NEW j \in 1..n, y = ordered[j] PROVE FALSE
      BY <1>4 DEF Placed
    <3>1. s[j] = s[n + 1]
      BY <1>6
    <3> QED BY <2>1, <2>2, <3>1, PermutationsAreInjective
  <2>8. y \in ready
    BY <1>3, <2>3, <2>6, <2>7 DEF Counts
  <2>9. next <= y
    BY <1>1, <2>8 DEF FirstReady
  <2>10. next \in Nat /\ y \in Nat
    BY <1>3, <2>3, NamesAssumption DEF LiveServices
  <2> HIDE DEF y
  <2>11. y = next \/ next < y
    BY <2>9, <2>10
  <2> QED BY <2>11 DEF y
<1>7. ASSUME NEW s \in Orders
      PROVE  \/ \A k \in 1..(n + 1) : s[k] = ordered'[k]
             \/ \E k \in 1..(n + 1) : ordered'[k] < s[k] /\ \A j \in 1..(k - 1) : ordered'[j] = s[j]
  <2>1. CASE \A k \in 1..n : s[k] = ordered[k]
    <3>1. s[n + 1] = next \/ next < s[n + 1]
      BY <1>6, <2>1
    <3>2. CASE s[n + 1] = next
      BY <1>4, <2>1, <3>2
    <3>3. CASE next < s[n + 1]
      <4>1. n + 1 \in 1..(n + 1) /\ ordered'[n + 1] < s[n + 1]
            /\ \A j \in 1..((n + 1) - 1) : ordered'[j] = s[j]
        BY <1>4, <2>1, <3>3
      <4> QED BY <4>1
    <3> QED BY <3>1, <3>2, <3>3
  <2>2. CASE \E k \in 1..n : ordered[k] < s[k] /\ \A j \in 1..(k - 1) : ordered[j] = s[j]
    BY <1>4, <2>2
  <2> QED BY <1>4, <2>1, <2>2 DEF Smallest
<1> QED BY <1>2, <1>4, <1>7 DEF Smallest

LEMMA SmallestStep == ASSUME PlanInv, Smallest, [PlanNext]_planVars PROVE Smallest'
<1>1. CASE TakeReady
  BY <1>1, TakeSmallest
<1>2. CASE Refuse \/ Edges \/ Finish \/ UNCHANGED planVars
  <2>1. services' = services /\ ordered' = ordered /\ LiveServices' = LiveServices
    BY <1>2 DEF Refuse, Edges, Finish, planVars, LiveServices
  <2>2. Orders' = Orders
    BY <2>1 DEF Orders, Permutation, Respects, RequiredBy
  <2> QED BY <2>1, <2>2 DEF Smallest
<1> QED BY <1>1, <1>2 DEF PlanNext

\* plan.go:7, "Deterministic", and more: of all orders that respect the requirements
\* Build returns the first in the order of names, for any finite set of services.
THEOREM FirstOrder == PlanSpec => []FirstOfAllOrders
<1>1. PlanInit => Smallest
  BY EmptySeq DEF PlanInit, Smallest
<1>2. ASSUME PlanInv, Smallest PROVE FirstOfAllOrders
  <2> SUFFICES ASSUME phase = "planned", NEW s \in [1..Cardinality(LiveServices) -> LiveServices],
                      Permutation(s), Respects(s)
               PROVE  Precedes(ordered, s)
    BY DEF FirstOfAllOrders
  <2>1. DOMAIN ordered = 1..Cardinality(LiveServices) /\ ordered = [k \in DOMAIN ordered |-> ordered[k]]
    BY <1>2, LenProperties DEF PlanInv, PlanTypeOK, Returned
  <2>2. s \in Orders /\ s = [k \in 1..Cardinality(LiveServices) |-> s[k]]
    BY DEF Orders
  <2>3. CASE \A k \in DOMAIN ordered : s[k] = ordered[k]
    BY <2>1, <2>2, <2>3 DEF Precedes
  <2> QED BY <1>2, <2>2, <2>3 DEF Smallest, Precedes
<1> QED BY <1>1, <1>2, PlanInitInv, PlanStep, SmallestStep, PTL DEF PlanSpec
=============================================================================
