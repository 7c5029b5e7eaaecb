------------------------------ MODULE Compose ------------------------------
(***************************************************************************)
(* Composition: from a root document and the module documents beside it to *)
(* the one effective environment that every command reconciles             *)
(* (internal/compose, internal/schema/merge.go and the parts of            *)
(* validate.go and module.go that decide which documents are read at all). *)
(* `genv validate` composes every target, then `genv apply` composes one.  *)
(* A set that the code walks in sorted order is walked in one fixed order. *)
(* Keys and paths are sequences of segments: <<"~", "x">> is absolute, a   *)
(* path that begins with ".." leaves the directory it is relative to.      *)
(***************************************************************************)
EXTENDS Naturals, Sequences, FiniteSets, SequencesExt, Lists

CONSTANTS
    Trees,          \* the repositories considered
    Modes,          \* which commands run: "apply", or "validate" and then apply
    MaxDepth,       \* maxModuleDepth
    MaxRegistered,  \* maxRegisteredModules
    MaxBytes        \* maxTotalModuleBytes

ASSUME LimitsAssumption == {MaxDepth, MaxRegistered, MaxBytes} \subseteq Nat \ {0}
ASSUME ModesAssumption == Modes \subseteq {"validate", "apply"}

(***************************************************************************)
(* What any repository is: finitely many modules are registered, each by a *)
(* name; a document has a size; its blocks are lists of declarations, or   *)
(* maps whose entries carry their own name.                                *)
(***************************************************************************)
Declarations ==
    [key : Seq(STRING), val : STRING, asset : Seq(STRING), null : BOOLEAN,
     requires : Seq(Seq(STRING)), watch : Seq(Seq(STRING))]

Blocks == <<"package", "link", "template", "dir", "source", "hook">>

\* A list may be missing, or empty; a directory has no source.
IsBundle(b) ==
    /\ \A k \in ToSet(Blocks) :
           b.lists[k].items \in Seq(Declarations) /\ (b.lists[k].nil => b.lists[k].items = <<>>)
    /\ \A d \in ToSet(b.lists["dir"].items) : d.asset = <<>>
    /\ IsFiniteSet(DOMAIN b.named)
    /\ \A k \in DOMAIN b.named :
           /\ b.named[k] \in Declarations /\ k = <<k[1], b.named[k].key>>
           /\ k[1] \in {"env", "alias", "service"}
    /\ b.use \in Seq(STRING)

IsDocument(d) == IsBundle(d.defaults) /\ \A t \in DOMAIN d.targets : IsBundle(d.targets[t])

IsRepository(t) ==
    /\ IsFiniteSet(DOMAIN t.registered) /\ DOMAIN t.registered \subseteq STRING
    /\ \A n \in DOMAIN t.registered : t.registered[n] \in Seq(STRING)
    /\ IsDocument(t.root) /\ IsBundle(t.nothing)
    /\ \A n \in DOMAIN t.registered :
           LET file == t.files[t.registered[n]]
           IN file.bytes \in Nat /\ file.requires \in Seq(STRING) /\ IsDocument(file)

ASSUME TreesAssumption == \A t \in Trees : IsRepository(t)

VARIABLES
    tree,      \* the documents on disk
    mode,      \* "validate" or "apply"
    pc,        \* where Resolve is
    target,    \* the target being composed
    todo,      \* targets that validate has still to compose
    queue,     \* loadClosure's queue
    docs,      \* modules whose document was read
    bytes,     \* bytes read so far
    roots,     \* selections that Select has still to visit
    stack,     \* Select's recursion: [name, next] frames, innermost last
    selected,  \* modules in contribution order
    acc,       \* the accumulator
    effective, \* the composed environment
    error,     \* why Resolve failed
    verdict    \* what `genv validate` said

vars == <<tree, mode, pc, target, todo, queue, docs, bytes, roots, stack, selected,
          acc, effective, error, verdict>>

Nil == [nil |-> TRUE, items |-> <<>>]
Listed(s) == [nil |-> FALSE, items |-> s]

Registered == DOMAIN tree.registered
File(n) == tree.files[tree.registered[n]]
BundleOf(doc, t) == IF t \in DOMAIN doc.targets THEN doc.targets[t] ELSE tree.nothing

Dups(s) == \E i, j \in DOMAIN s : i # j /\ s[i] = s[j]
Keys(s) == [i \in DOMAIN s |-> s[i].key]

(***************************************************************************)
(* One document overlays its target on its defaults: schema.MergeTarget    *)
(* for a root without modules, mergeBundle for every contributor.          *)
(***************************************************************************)
FlatList(defaults, overlay, b) ==
    IF ~overlay.lists[b].nil THEN overlay.lists[b].items ELSE defaults.lists[b].items

FlatEntries(defaults, overlay) ==
    LET live == {k \in DOMAIN defaults : ~defaults[k].null}
        kept == (live \cup DOMAIN overlay) \ {k \in DOMAIN overlay : overlay[k].null}
    IN [k \in kept |-> IF k \in DOMAIN overlay THEN overlay[k] ELSE defaults[k]]

MergeTarget(defaults, overlay) ==
    [lists |-> [b \in ToSet(Blocks) |-> FlatList(defaults, overlay, b)],
     named |-> FlatEntries(defaults.named, overlay.named)]

\* Mutant: an empty target array keeps what defaults said.
MergeListByLength(defaults, overlay) ==
    IF Len(overlay.items) > 0 THEN overlay.items ELSE defaults.items

MergeList(defaults, overlay) == IF overlay.nil THEN defaults.items ELSE overlay.items

MergeEntries(defaults, overlay) ==
    LET out == [k \in {j \in DOMAIN defaults : ~defaults[j].null} |-> defaults[k]]
        set == {k \in DOMAIN overlay : ~overlay[k].null}
    IN [k \in (DOMAIN out \ DOMAIN overlay) \cup set |->
            IF k \in set THEN overlay[k] ELSE out[k]]

MergeBundle(defaults, overlay) ==
    [lists |-> [b \in ToSet(Blocks) |-> MergeList(defaults.lists[b], overlay.lists[b])],
     named |-> MergeEntries(defaults.named, overlay.named)]

(***************************************************************************)
(* Which documents are read at all: the rules of validate.go that relate   *)
(* one declaration to another.                                             *)
(***************************************************************************)
Services(named) == {k \in DOMAIN named : k[1] = "service" /\ ~named[k].null}

PackageListOk(bundle) ==
    /\ ~Dups(Keys(bundle.lists["package"].items))
    /\ \A i \in DOMAIN bundle.lists["package"].items :
           bundle.lists["package"].items[i].val # "malformed"

TombstonesOk(bundle, allowed) == allowed \/ \A k \in DOMAIN bundle.named : ~bundle.named[k].null

KnownTombstones(overlay, defaults) ==
    \A k \in DOMAIN overlay.named :
        overlay.named[k].null => k \in DOMAIN defaults.named /\ ~defaults.named[k].null

DeclaredEverywhere(doc) ==
    DOMAIN doc.defaults.named \cup UNION {DOMAIN doc.targets[t].named : t \in DOMAIN doc.targets}

\* The largest set of services of which each requires a member: what
\* plan.Build and validateServiceCycles report as a cycle, or blocked by one.
Blocked(named, names) ==
    UNION {S \in SUBSET names :
              \A k \in S : \E i \in DOMAIN named[k].requires :
                  <<"service", named[k].requires[i]>> \in S}

RequiresGraphOk(doc, named, external) ==
    /\ \A k \in Services(named) : \A i \in DOMAIN named[k].requires :
           LET dep == <<"service", named[k].requires[i]>>
           IN dep \in DOMAIN named \/ dep \in DeclaredEverywhere(doc) \/ external
    /\ Blocked(named, Services(named)) = {}

\* ValidateServiceV10Fields.
ServiceFieldsOk(named) ==
    \A k \in Services(named) :
        /\ ~Dups(named[k].requires) /\ ~Dups(named[k].watch)
        /\ \A i \in DOMAIN named[k].requires : named[k].requires[i] # k[2]

BundleOk(doc, bundle, tombstones, external) ==
    /\ PackageListOk(bundle)
    /\ TombstonesOk(bundle, tombstones)
    /\ ServiceFieldsOk(bundle.named)
    /\ RequiresGraphOk(doc, bundle.named, external)

UseModulesOk(bundle) ==
    /\ \A i \in DOMAIN bundle.use : bundle.use[i] \in Registered
    /\ ~Dups(bundle.use)

\* ValidateModulePath: the registry holds no path that leaves the root.
RegistryOk == \A n \in Registered : tree.registered[n] # <<>> /\ Head(tree.registered[n]) # ".."

RootOk ==
    /\ DOMAIN tree.root.targets # {}
    /\ RegistryOk
    /\ BundleOk(tree.root, tree.root.defaults, FALSE, FALSE) /\ UseModulesOk(tree.root.defaults)
    /\ \A t \in DOMAIN tree.root.targets :
           /\ BundleOk(tree.root, tree.root.targets[t], TRUE, FALSE)
           /\ KnownTombstones(tree.root.targets[t], tree.root.defaults)
           /\ UseModulesOk(tree.root.targets[t])

ModuleOk(doc) ==
    /\ ~Dups(doc.requires)
    /\ doc.hasDefaults \/ DOMAIN doc.targets # {}
    /\ BundleOk(doc, doc.defaults, FALSE, TRUE) /\ doc.defaults.use = <<>>
    /\ \A t \in DOMAIN doc.targets :
           BundleOk(doc, doc.targets[t], TRUE, TRUE) /\ doc.targets[t].use = <<>>

(***************************************************************************)
(* Reading the root document, and where Resolve begins.                    *)
(***************************************************************************)
NoEnvironment == [decls |-> {}, lists |-> [b \in {"package", "source", "hook"} |-> <<>>]]

EmptyAccumulator ==
    [decl |-> <<>>, owners |-> <<>>, dest |-> <<>>, packages |-> <<>>,
     sources |-> <<>>, hooks |-> <<>>, unsafe |-> FALSE, err |-> ""]

Init ==
    /\ tree \in Trees
    /\ mode \in Modes
    /\ pc = "read" /\ target = tree.active /\ todo = {}
    /\ queue = <<>> /\ docs = {} /\ bytes = 0
    /\ roots = <<>> /\ stack = <<>> /\ selected = <<>>
    /\ acc = EmptyAccumulator /\ effective = NoEnvironment /\ error = "" /\ verdict = "none"

HasModules ==
    \/ Registered # {}
    \/ tree.root.defaults.use # <<>>
    \/ \E t \in DOMAIN tree.root.targets : tree.root.targets[t].use # <<>>

\* bundleSelections of the defaults, then of the target, each name once.
BundleSelections(t) == Distinct(tree.root.defaults.use \o BundleOf(tree.root, t).use)

Fail(why) ==
    /\ error' = why
    /\ pc' = "failed"
    /\ verdict' = IF mode = "validate" THEN "refused" ELSE verdict

\* Mutant: every registered document is read, selected or not.
StartResolveAll(t) ==
    /\ target' = t /\ docs' = {} /\ bytes' = 0
    /\ queue' = IF HasModules THEN SetToSeq(Registered) ELSE <<>>
    /\ roots' = IF HasModules THEN BundleSelections(t) ELSE <<>>
    /\ stack' = <<>> /\ selected' = <<>>
    /\ acc' = EmptyAccumulator /\ effective' = NoEnvironment
    /\ pc' = IF HasModules THEN "load" ELSE "flat"

\* Resolve for target t, after its early returns: the closure is loaded first.
StartResolve(t) ==
    /\ target' = t /\ docs' = {} /\ bytes' = 0
    /\ queue' = IF HasModules THEN BundleSelections(t) ELSE <<>>
    /\ roots' = IF HasModules THEN BundleSelections(t) ELSE <<>>
    /\ stack' = <<>> /\ selected' = <<>>
    /\ acc' = EmptyAccumulator /\ effective' = NoEnvironment
    /\ pc' = IF HasModules THEN "load" ELSE "flat"

Resolving == <<target, docs, bytes, queue, roots, stack, selected, acc, effective>>

\* genvfile.Read refuses an invalid document; compositionFor wants the target.
ReadRefused ==
    /\ pc = "read" /\ \/ ~RootOk
                      \/ mode = "apply" /\ tree.active \notin DOMAIN tree.root.targets
    /\ Fail(IF RootOk THEN "target" ELSE "invalid")
    /\ UNCHANGED <<tree, mode, todo, Resolving>>

ReadForApply ==
    /\ pc = "read" /\ RootOk /\ mode = "apply" /\ tree.active \in DOMAIN tree.root.targets
    /\ StartResolve(tree.active)
    /\ UNCHANGED <<tree, mode, todo, error, verdict>>

\* validateComposition: nothing to do without modules, else every registered
\* document is loaded before the targets are composed.
ReadForValidate ==
    /\ pc = "read" /\ RootOk /\ mode = "validate"
    /\ IF Registered = {}
       THEN /\ pc' = "accepted" /\ verdict' = "accepted"
            /\ UNCHANGED <<todo, Resolving>>
       ELSE /\ pc' = "loadAll" /\ todo' = DOMAIN tree.root.targets
            /\ queue' = SetToSeq(Registered) /\ docs' = {} /\ bytes' = 0
            /\ UNCHANGED <<target, roots, stack, selected, acc, effective, verdict>>
    /\ UNCHANGED <<tree, mode, error>>

(***************************************************************************)
(* loadClosure: breadth first, each document once.                         *)
(***************************************************************************)
\* Mutant: a document that is a symbolic link is read.
LoadFaultFollowsLinks(n) ==
    IF Cardinality(Registered) > MaxRegistered THEN "limit"
    ELSE IF n \notin Registered \/ File(n).kind = "absent" THEN "missing"
    ELSE IF bytes + File(n).bytes > MaxBytes THEN "limit"
    ELSE IF ~ModuleOk(File(n)) THEN "invalidModule"
    ELSE IF pc = "load" /\ ~(ToSet(File(n).requires) \subseteq Registered) THEN "missing" ELSE ""

\* Why loadClosure stops at name n of its queue, or "".
LoadFault(n) ==
    IF Cardinality(Registered) > MaxRegistered THEN "limit"
    ELSE IF n \notin Registered \/ File(n).kind = "absent" THEN "missing"
    ELSE IF File(n).kind # "regular" THEN "escape"
    ELSE IF bytes + File(n).bytes > MaxBytes THEN "limit"
    ELSE IF ~ModuleOk(File(n)) THEN "invalidModule"
    ELSE IF pc = "load" /\ ~(ToSet(File(n).requires) \subseteq Registered) THEN "missing" ELSE ""

Loading == pc \in {"load", "loadAll"} /\ queue # <<>>

LoadAgain ==
    /\ Loading /\ Head(queue) \in docs
    /\ queue' = Tail(queue)
    /\ UNCHANGED <<tree, mode, pc, target, todo, docs, bytes, roots, stack, selected,
                   acc, effective, error, verdict>>

LoadOne ==
    /\ Loading /\ Head(queue) \notin docs /\ LoadFault(Head(queue)) = ""
    /\ docs' = docs \cup {Head(queue)}
    /\ bytes' = bytes + File(Head(queue)).bytes
    /\ queue' = Tail(queue) \o SetToSeq(ToSet(File(Head(queue)).requires) \ docs')  \* sorted
    /\ UNCHANGED <<tree, mode, pc, target, todo, roots, stack, selected,
                   acc, effective, error, verdict>>

LoadRefused ==
    /\ Loading /\ Head(queue) \notin docs /\ LoadFault(Head(queue)) # ""
    /\ Fail(LoadFault(Head(queue)))
    /\ UNCHANGED <<tree, mode, todo, Resolving>>

Loaded ==
    /\ pc \in {"load", "loadAll"} /\ queue = <<>>
    /\ IF pc = "load"
       THEN pc' = "select" /\ UNCHANGED <<todo, Resolving>>
       ELSE \E t \in todo : StartResolve(t) /\ todo' = todo \ {t}
    /\ UNCHANGED <<tree, mode, error, verdict>>

(***************************************************************************)
(* Select: depth first, a module after everything it requires.             *)
(***************************************************************************)
Requires(n) == File(n).requires
OnStack == {stack[i].name : i \in DOMAIN stack}

\* Mutant: a module that is on the stack counts as done.
VisitFaultNoCycle(n) ==
    IF n \in ToSet(selected) \cup OnStack THEN "done"
    ELSE IF Len(stack) >= MaxDepth THEN "limit"
    ELSE IF n \notin docs THEN "missing" ELSE ""

\* Mutant: a module that was already placed is visited again.
VisitFaultAgain(n) ==
    IF n \in OnStack THEN "cycle"
    ELSE IF Len(stack) >= MaxDepth THEN "limit"
    ELSE IF n \notin docs THEN "missing" ELSE ""

\* What visit(n) answers at once: nothing to do, an error, or "" to descend.
VisitFault(n) ==
    IF n \in ToSet(selected) THEN "done"
    ELSE IF n \in OnStack THEN "cycle"
    ELSE IF Len(stack) >= MaxDepth THEN "limit"
    ELSE IF n \notin docs THEN "missing" ELSE ""

\* The module that the recursion looks at next: a selection, or a requirement.
Asked(n) ==
    \/ stack = <<>> /\ roots # <<>> /\ n = Head(roots)
    \/ /\ stack # <<>> /\ Last(stack).next <= Len(Requires(Last(stack).name))
       /\ n = Requires(Last(stack).name)[Last(stack).next]

\* visit(n) returns at once or goes down one frame; its caller goes on to the
\* next selection or requirement.
Entered(n) == IF VisitFault(n) = "done" THEN <<>> ELSE <<[name |-> n, next |-> 1]>>

Advance(frames) ==
    IF stack = <<>>
    THEN stack' = frames /\ roots' = Tail(roots)
    ELSE stack' = [stack EXCEPT ![Len(stack)].next = @ + 1] \o frames /\ UNCHANGED roots

Ask(n) == pc = "select" /\ Asked(n)

Visit ==
    /\ \E n \in Registered \cup ToSet(roots) :
           Ask(n) /\ VisitFault(n) \in {"", "done"} /\ Advance(Entered(n))
    /\ UNCHANGED <<tree, mode, pc, target, todo, queue, docs, bytes, selected,
                   acc, effective, error, verdict>>

\* Mutant: a module is placed before what it requires.
OrderedBefore(n) == <<n>> \o selected

Ordered(n) == Append(selected, n)

VisitEnd ==
    /\ pc = "select" /\ stack # <<>>
    /\ Last(stack).next > Len(Requires(Last(stack).name))
    /\ selected' = Ordered(Last(stack).name)
    /\ stack' = Front(stack)
    /\ UNCHANGED <<tree, mode, pc, target, todo, queue, docs, bytes, roots,
                   acc, effective, error, verdict>>

VisitRefused ==
    /\ \E n \in Registered \cup ToSet(roots) \cup UNION {ToSet(Requires(m)) : m \in docs} :
           Ask(n) /\ VisitFault(n) \notin {"", "done"} /\ Fail(VisitFault(n))
    /\ UNCHANGED <<tree, mode, todo, Resolving>>

Selected ==
    /\ pc = "select" /\ stack = <<>> /\ roots = <<>>
    /\ pc' = "union" /\ queue' = <<"">> \o selected
    /\ UNCHANGED <<tree, mode, target, todo, docs, bytes, roots, stack, selected,
                   acc, effective, error, verdict>>

(***************************************************************************)
(* The union of the contributors, "" (the root) first.                     *)
(***************************************************************************)
Doc(c) == IF c = "" THEN tree.root ELSE File(c)
Dir(c) == IF c = "" THEN <<>> ELSE Front(tree.registered[c])
Bundle(c) == MergeBundle(Doc(c).defaults, BundleOf(Doc(c), target))

\* moduleSafePath.
Absolute(p) == p = <<>> \/ Head(p) \in {"/", "~"}
Escapes(p) == ~Absolute(p) /\ Head(p) = ".."
SafePath(dir, p) == IF Absolute(p) \/ Escapes(p) THEN p ELSE dir \o p

Rewritten(d, dir) == [d EXCEPT !.asset = SafePath(dir, d.asset)]

\* The file destination a declaration claims, and as what.
Claim(kind, d) ==
    CASE kind \in {"link", "template", "dir"} -> [at |-> d.key, as |-> kind]
      [] kind = "service" /\ d.asset # <<>> -> [at |-> d.asset, as |-> "plist"]
      [] OTHER -> [at |-> <<>>, as |-> kind]

\* A link and a template share one kind of identity, whoever declares them.
Identity(kind, d) ==
    IF kind \in {"link", "template"} THEN <<"file", d.key>> ELSE <<kind, d.key>>

\* declares and fieldFor: the block in which contributor c declares it.
Declares(bundle, kind, key) ==
    \/ kind \in ToSet(Blocks) /\ key \in ToSet(Keys(bundle.lists[kind].items))
    \/ <<kind, key>> \in DOMAIN bundle.named

\* Mutant: everything is attributed to the target block.
FieldForTarget(c, kind, key) == "targets"

FieldFor(c, kind, key) ==
    IF Declares(BundleOf(Doc(c), target), kind, key) THEN "targets"
    ELSE IF Declares(Doc(c).defaults, kind, key) THEN "defaults"
    ELSE "targets"

\* Mutant: two contributors may declare one identity differently; the first wins.
SameDeclarationAny(existing, incoming) == TRUE

SameDeclaration(existing, incoming) == existing = incoming

\* f with y at x.
Put(f, x, y) == [k \in DOMAIN f \cup {x} |-> IF k = x THEN y ELSE f[k]]

\* One declaration: claimed, then compared with the one already there or added.
\* A link or template is rewritten before it is compared, a service only when
\* it is added (compose.go:833), a directory never.
Take(a, kind, d, c) ==
    LET claim == Claim(kind, d)
        id == Identity(kind, d)
        origin == [module |-> c, field |-> FieldFor(c, kind, d.key)]
        unsafe == a.unsafe \/ Escapes(d.asset)
        mine == IF kind = "dir" THEN d ELSE Rewritten(d, Dir(c))
        compared == IF kind = "service" THEN d ELSE mine
        dest == IF claim.at = <<>> THEN a.dest ELSE Put(a.dest, claim.at, claim.as)
    IN IF a.err # "" THEN a
       ELSE IF claim.at \in DOMAIN a.dest /\ a.dest[claim.at] # claim.as
       THEN [a EXCEPT !.err = "claimed"]
       ELSE IF id \notin DOMAIN a.decl
       THEN [a EXCEPT !.decl = Put(@, id, mine), !.dest = dest, !.unsafe = unsafe,
                      !.owners = Put(@, id, <<origin>>),
                      !.packages = IF kind = "package" THEN Append(@, id) ELSE @]
       ELSE IF SameDeclaration(a.decl[id], compared)
       THEN [a EXCEPT !.owners[id] = Append(@, origin), !.dest = dest,
                      !.unsafe = IF kind = "service" THEN @ ELSE unsafe]
       ELSE [a EXCEPT !.err = "conflict"]

TakeAll(a, kind, items, c) ==
    LET taken[i \in 0..Len(items)] ==
            IF i = 0 THEN a ELSE Take(taken[i - 1], kind, items[i], c)
    IN taken[Len(items)]

NamedItems(bundle, kind) ==
    SetToSeq({bundle.named[k] : k \in {j \in DOMAIN bundle.named : j[1] = kind}})

\* Mutant: a later contributor's source list replaces what is there.
SourcesReplaced(have, items) == Keys(items)

\* Each source once, after those that are there.
Sources(have, items) ==
    have \o Distinct(Keep(Keys(items), ToSet(Keys(items)) \ ToSet(have)))

Hooks(a, items, c) ==
    [a EXCEPT !.hooks = @ \o [i \in DOMAIN items |-> Rewritten(items[i], Dir(c))],
              !.unsafe = @ \/ \E i \in DOMAIN items : Escapes(items[i].asset)]

\* accumulator.add: the kinds one after another, up to the first error.
Add(a, c) ==
    LET b == Bundle(c)
        packages == TakeAll(a, "package", b.lists["package"], c)
        services == TakeAll(packages, "service", NamedItems(b, "service"), c)
        env == TakeAll(services, "env", NamedItems(b, "env"), c)
        shell == IF env.err # "" THEN env
                 ELSE [env EXCEPT !.sources = Sources(@, b.lists["source"])]
        aliases == TakeAll(shell, "alias", NamedItems(b, "alias"), c)
        links == TakeAll(aliases, "link", b.lists["link"], c)
        templates == TakeAll(links, "template", b.lists["template"], c)
        dirs == TakeAll(templates, "dir", b.lists["dir"], c)
    IN IF dirs.err # "" THEN dirs ELSE Hooks(dirs, b.lists["hook"], c)

AddNext ==
    /\ pc = "union" /\ queue # <<>>
    /\ acc' = Add(acc, Head(queue)) /\ acc'.err = ""
    /\ queue' = Tail(queue)
    /\ UNCHANGED <<tree, mode, pc, target, todo, docs, bytes, roots, stack, selected,
                   effective, error, verdict>>

AddRefused ==
    /\ pc = "union" /\ queue # <<>>
    /\ LET added == Add(acc, Head(queue)) IN added.err # "" /\ Fail(added.err)
    /\ UNCHANGED <<tree, mode, todo, Resolving>>

(***************************************************************************)
(* The composed environment, and the two checks of the union.              *)
(***************************************************************************)
Composed ==
    [decls |-> {<<id, acc.decl[id]>> : id \in DOMAIN acc.decl},
     lists |-> [b \in {"package", "source", "hook"} |->
                   CASE b = "package" -> acc.packages
                     [] b = "source" -> acc.sources
                     [] b = "hook" -> acc.hooks]]

\* Resolve without modules: MergeTarget and nothing else.
FlatEnvironment ==
    LET m == MergeTarget(tree.root.defaults, BundleOf(tree.root, target))
    IN [decls |-> {<<k, m.named[k]>> : k \in DOMAIN m.named}
                  \cup UNION {{<<Identity(b, d), d>> : d \in ToSet(m.lists[b])}
                                : b \in {"package", "link", "template", "dir"}},
        lists |-> [b \in {"package", "source", "hook"} |->
                      CASE b = "package" -> [i \in DOMAIN m.lists[b] |-> <<"package", m.lists[b][i].key>>]
                        [] b = "source" -> Keys(m.lists[b])
                        [] b = "hook" -> m.lists[b]]]

IdsOf(env) == {x[1] : x \in env.decls}

\* checkWatchTargets: a package that is declared, or a destination.
Watchable(env) == {id[2] : id \in {i \in IdsOf(env) : i[1] \in {"package", "file", "dir"}}}
WatchesOk(env) ==
    \A x \in env.decls : x[1][1] = "service" => ToSet(x[2].watch) \subseteq Watchable(env)

ServicesOf(env) == [id \in {i \in IdsOf(env) : i[1] = "service"} |->
                        (CHOOSE x \in env.decls : x[1] = id)[2]]

\* Mutant: a cycle that spans two documents is not looked for.
BuildableUnordered(env) ==
    LET s == ServicesOf(env) IN
    \A id \in DOMAIN s : \A i \in DOMAIN s[id].requires :
        <<"service", s[id].requires[i]>> \in DOMAIN s

\* plan.Build succeeds: see the module ServicePlan.
Buildable(env) ==
    LET s == ServicesOf(env) IN
    /\ \A id \in DOMAIN s : \A i \in DOMAIN s[id].requires :
           <<"service", s[id].requires[i]>> \in DOMAIN s
    /\ Blocked(s, DOMAIN s) = {}

Answer(env) ==
    /\ pc' = "composed" /\ effective' = env
    /\ UNCHANGED <<error, verdict>>

Flat ==
    /\ pc = "flat"
    /\ IF WatchesOk(FlatEnvironment) THEN Answer(FlatEnvironment)
                                     ELSE Fail("watch") /\ UNCHANGED effective
    /\ UNCHANGED <<tree, mode, target, todo, docs, bytes, queue, roots, stack, selected, acc>>

Union ==
    /\ pc = "union" /\ queue = <<>>
    /\ CASE acc.unsafe -> Fail("escape") /\ UNCHANGED effective
         [] ~acc.unsafe /\ ~WatchesOk(Composed) -> Fail("watch") /\ UNCHANGED effective
         [] ~acc.unsafe /\ WatchesOk(Composed) /\ ~Buildable(Composed) ->
                Fail("graph") /\ UNCHANGED effective
         [] OTHER -> Answer(Composed)
    /\ UNCHANGED <<tree, mode, target, todo, docs, bytes, queue, roots, stack, selected, acc>>

\* validate goes on to the next target, or accepts the specification.
ValidateNext ==
    /\ pc = "composed" /\ mode = "validate"
    /\ IF todo = {}
       THEN pc' = "accepted" /\ verdict' = "accepted" /\ UNCHANGED <<todo, Resolving>>
       ELSE \E t \in todo : StartResolve(t) /\ todo' = todo \ {t} /\ UNCHANGED verdict
    /\ UNCHANGED <<tree, mode, error>>

\* After a validate the user applies.
ApplyAfterValidate ==
    /\ mode = "validate" /\ pc \in {"accepted", "failed"}
    /\ mode' = "apply" /\ pc' = "read" /\ error' = "" /\ docs' = {} /\ bytes' = 0 /\ queue' = <<>>
    /\ roots' = <<>> /\ stack' = <<>> /\ selected' = <<>> /\ acc' = EmptyAccumulator
    /\ effective' = NoEnvironment /\ target' = tree.active
    /\ UNCHANGED <<tree, todo, verdict>>

Next ==
    \/ ReadRefused \/ ReadForApply \/ ReadForValidate
    \/ LoadAgain \/ LoadOne \/ LoadRefused \/ Loaded
    \/ Visit \/ VisitEnd \/ VisitRefused \/ Selected
    \/ AddNext \/ AddRefused \/ Flat \/ Union
    \/ ValidateNext \/ ApplyAfterValidate

Spec == Init /\ [][Next]_vars

(***************************************************************************)
(* Properties.                                                             *)
(***************************************************************************)
Steps == {"read", "load", "loadAll", "select", "union", "flat", "composed", "accepted", "failed"}
Errors == {"", "invalid", "target", "missing", "escape", "limit", "invalidModule", "cycle",
           "claimed", "conflict", "watch", "graph"}

\* No module is on the recursion's stack twice, and an error is known exactly
\* when Resolve has failed.
TypeOK ==
    /\ mode \in {"validate", "apply"} /\ pc \in Steps /\ error \in Errors
    /\ verdict \in {"none", "accepted", "refused"}
    /\ docs \subseteq Registered /\ bytes \in 0..MaxBytes
    /\ selected \in Seq(Registered) /\ ~Dups(selected)
    /\ \A i, j \in DOMAIN stack : stack[i].name = stack[j].name => i = j
    /\ OnStack \cap ToSet(selected) = {}
    /\ (pc = "failed") = (error # "")

\* What the target selects, and whatever that requires.
ClosedUnder(S) == \A n \in S : ToSet(Requires(n)) \subseteq S
Closure ==
    LET all == {S \in SUBSET Registered : ToSet(BundleSelections(target)) \subseteq S /\ ClosedUnder(S)}
    IN {n \in Registered : \A S \in all : n \in S}

\* README.md:215 and select.go: a module contributes after everything that it
\* requires, however the requirements are written and in whatever order the
\* selections come.
DependenciesFirst ==
    \A i \in DOMAIN selected :
        ToSet(Requires(selected[i])) \subseteq {selected[j] : j \in 1..(i - 1)}

\* load.go LoadSelected: a command reads the closure of its selection and no
\* more (a broken module that nobody selected cannot fail it), and composes
\* exactly that closure.
ExactlyTheClosure ==
    /\ mode = "apply" => docs \subseteq Closure
    /\ pc = "composed" => ToSet(selected) = Closure

\* CycleError is returned only when a selected module requires itself through
\* others, and no such selection composes.
Circular(S) == S # {} /\ \A n \in S : ToSet(Requires(n)) \cap S # {}
CycleIsReal ==
    /\ error = "cycle" => \E S \in SUBSET Closure : Circular(S)
    /\ pc = "composed" => \A S \in SUBSET Closure : ~Circular(S)

\* What one document says for the target, with its assets read relative to it.
Live(c) ==
    LET d == Doc(c).defaults  t == BundleOf(Doc(c), target)
        from(b) == IF t.lists[b].nil THEN d.lists[b].items ELSE t.lists[b].items
        read(x) == Rewritten(x, Dir(c))
    IN (UNION {{[id |-> Identity(b, x), val |-> read(x), claim |-> Claim(b, x)] : x \in ToSet(from(b))}
                 : b \in {"package", "link", "template", "dir"}})
       \cup {[id |-> k, claim |-> Claim(k[1], t.named[k]), val |-> read(t.named[k])]
                : k \in {j \in DOMAIN t.named : ~t.named[j].null}}
       \cup {[id |-> k, claim |-> Claim(k[1], d.named[k]), val |-> read(d.named[k])]
                : k \in {j \in DOMAIN d.named \ DOMAIN t.named : ~d.named[j].null}}

Sourced(c) ==
    LET t == BundleOf(Doc(c), target).lists["source"] IN
    ToSet(Keys(IF t.nil THEN Doc(c).defaults.lists["source"].items ELSE t.items))

Contributors == {""} \cup Closure
AllLive == UNION {Live(c) : c \in Contributors}

Disagree ==
    \E x, y \in AllLive :
        \/ x.id = y.id /\ x.val # y.val
        \/ x.claim.at = y.claim.at /\ x.claim.at # <<>> /\ x.claim.as # y.claim.as

\* A service whose unit or plist is named relative to a module in a directory.
RelativeUnits ==
    \E c \in Contributors \ {""} : Dir(c) # <<>> /\ \E x \in Live(c) :
        x.id[1] = "service" /\ x.val.asset # <<>> /\ x.claim.at # x.val.asset

\* README.md:228, "No overrides": composition refuses if and only if two
\* contributors, or two blocks of one, say different things of one resource or
\* claim one path as different things; which comes first does not matter.
\* (Services with relative units: see ComposeIdentical.)
RefusedOnlyIfTheyDisagree ==
    HasModules /\ ~RelativeUnits =>
        /\ pc = "composed" => ~Disagree
        /\ error \in {"conflict", "claimed"} => Disagree

\* The composed environment is the union of what the documents say, each asset
\* where its document meant it: a tombstone deletes in its own document only, a
\* module's source list does not erase the root's, nothing is dropped on the way.
UnionOfDocuments ==
    pc = "composed" /\ HasModules /\ ~RelativeUnits =>
        /\ effective.decls = {<<x.id, x.val>> : x \in AllLive}
        /\ ToSet(effective.lists["source"]) = UNION {Sourced(c) : c \in Contributors}

\* compose.go, mergeBundle "using the same rules as schema.MergeTarget": to
\* register a module that the target does not select changes nothing.
LikeMergeTarget ==
    pc = "composed" /\ HasModules /\ selected = <<>> =>
        /\ effective.decls = FlatEnvironment.decls
        /\ effective.lists["hook"] = FlatEnvironment.lists["hook"]
        /\ ToSet(effective.lists["source"]) = ToSet(FlatEnvironment.lists["source"])

\* provenance.go: the owners of a resource are all the documents that declare
\* it, and the block an owner names holds the very declaration that was
\* composed (`genv explain` sends the user there; moduleOwnerGuard refuses
\* exactly what a module owns).
Holds(o, id) ==
    LET b == IF o.field = "targets" THEN BundleOf(Doc(o.module), target) ELSE Doc(o.module).defaults
        here == {b.named[k] : k \in {j \in DOMAIN b.named : j = id}}
                \cup UNION {{d \in ToSet(b.lists[l].items) : Identity(l, d) = id}
                              : l \in {"package", "link", "template", "dir"}}
    IN \E d \in here : Rewritten(d, Dir(o.module)) = acc.decl[id]
OwnersDeclare ==
    pc = "composed" /\ HasModules /\ ~RelativeUnits =>
        \A id \in DOMAIN acc.decl :
            /\ {acc.owners[id][i].module : i \in DOMAIN acc.owners[id]}
                 = {c \in Contributors : \E x \in Live(c) : x.id = id}
            /\ \A i \in DOMAIN acc.owners[id] : Holds(acc.owners[id][i], id)

\* validateCmd: what `genv validate` accepts can be applied, and every document
\* that is registered was found, is a valid module, and requires only
\* registered modules.  (Specifications without modules: see ComposeValidated.)
ValidatedCanBeApplied ==
    verdict = "accepted" /\ Registered # {} =>
        /\ mode = "apply" /\ tree.active \in DOMAIN tree.root.targets => pc # "failed"
        /\ \A n \in Registered : /\ File(n).kind = "regular" /\ ModuleOk(File(n))
                                  /\ ToSet(Requires(n)) \subseteq Registered

\* VIOLATED.  README.md:228, "If the root and a module declare a resource
\* identically it is kept once and both are recorded as owners; if they differ,
\* composition fails".
IdenticalCoalesce ==
    HasModules =>
        /\ pc = "composed" => ~Disagree
        /\ error \in {"conflict", "claimed"} => Disagree

\* VIOLATED.  compose.go, checkWatchTargets in Resolve: "an output flag, or the
\* absence of modules, must not change what counts as a valid spec": what `genv
\* validate` accepts, `genv apply` composes.
AcceptedComposes ==
    verdict = "accepted" /\ mode = "apply" /\ tree.active \in DOMAIN tree.root.targets =>
        pc # "failed"

-----------------------------------------------------------------------------
(* What the runs check together, as conjunctions of the above.             *)

\* Exactly the closure of the selection is read and composed, dependencies first,
\* and only a real cycle stops it.
SelectsTheClosure == TypeOK /\ DependenciesFirst /\ ExactlyTheClosure /\ CycleIsReal

\* The composition is the union of what its documents say, refused only where
\* they disagree, equal to the merge of a single document, with owners that
\* declare what they own.
ComposesTheUnion == RefusedOnlyIfTheyDisagree /\ UnionOfDocuments /\ LikeMergeTarget /\ OwnersDeclare

=============================================================================
