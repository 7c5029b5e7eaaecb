------------------------------ MODULE SpecLife ------------------------------
(***************************************************************************)
(* The life of genv.json: what every command that writes it does to what   *)
(* each machine is told to be.  add, remove, env, shell and service edit   *)
(* one target in memory and write the document back (internal/commands,    *)
(* internal/genvfile), migrate turns host predicates into targets          *)
(* (internal/migrate), export copies one target out (internal/export) and  *)
(* a profile is laid over a legacy document (internal/profile).            *)
(*                                                                         *)
(* A document holds bundles; a bundle holds arrays (package, file, hook),  *)
(* each absent or a list of items, and named entries keyed <<kind, name>>, *)
(* of which a null one is a tombstone.  An item or entry has a value and,  *)
(* in a legacy document, the hosts it is for.                              *)
(***************************************************************************)
EXTENDS Lists

CONSTANTS
    Texts,       \* what a document may have for a name, a value or a host
    Documents,   \* documents a user may start with
    Machines,    \* targets the user works on
    Profiles,    \* documents a user may make of a new profile
    MaxCommands,
    MaxFaults    \* interruptions and disk errors

KnownTargets == {"macos", "arch", "wsl-arch", "linux"}

ASSUME LifeAssumption == {MaxCommands, MaxFaults} \subseteq Nat /\ Machines \subseteq KnownTargets
ASSUME TextsAssumption ==
    {"", "p", "q", "x", "web", "db", "plain", "adapter", "secret", "powershell"} \subseteq Texts

VARIABLES
    spec,      \* genv.json, or NoSpec
    profile,   \* the named profile's document, or NoSpec
    out,       \* the export directory: [snapshot, of, assets, report]; of is
               \* a history variable, the environment that was exported
    exporting, \* the export under way, or Idle
    last,      \* the last command: what it was asked, and how it ended
    used       \* how many commands and faults there were

vars == <<spec, profile, out, exporting, last, used>>

Lists == {"package", "file", "hook"}

Nil == [nil |-> TRUE, items |-> <<>>]
Listed(s) == [nil |-> FALSE, items |-> s]
Nothing == [lists |-> [b \in Lists |-> Nil], named |-> <<>>]
NoSpec == [version |-> 0]
Null == [null |-> TRUE, val |-> "", hosts |-> {}]
Entry(v) == [null |-> FALSE, val |-> v, hosts |-> {}]
Item(k, v) == [key |-> k, val |-> v, hosts |-> {}]

\* What can be decoded into the structs of schema.go.  Of the named entries a
\* service alone can be for some hosts.
Items == [key : Texts, val : Texts, hosts : SUBSET Texts]
Entries == [null : BOOLEAN, val : Texts, hosts : SUBSET Texts]
IsBundle(b) ==
    /\ DOMAIN b = {"lists", "named"}
    /\ b.lists \in [Lists -> [nil : BOOLEAN, items : Seq(Items)]]
    /\ \A l \in Lists : b.lists[l].nil => b.lists[l].items = <<>>
    /\ DOMAIN b.named \subseteq {"env", "alias", "service"} \X Texts
    /\ b.named \in [DOMAIN b.named -> Entries]
    /\ \A k \in DOMAIN b.named : k[1] # "service" => b.named[k].hosts = {}
IsDocument(d) ==
    /\ DOMAIN d = {"version", "schema", "top", "defaults", "targets", "adapters", "modules", "updates"}
    /\ d.version \in Nat /\ {d.schema, d.adapters, d.modules, d.updates} \subseteq BOOLEAN
    /\ IsBundle(d.top) /\ IsBundle(d.defaults) /\ \A t \in DOMAIN d.targets : IsBundle(d.targets[t])

ASSUME DocumentsAssumption ==
    /\ \A d \in Documents : d = NoSpec \/ IsDocument(d)
    /\ \A d \in Profiles : IsDocument(d)

Portable(d) == d.version \in 8..10
At(d, t) == IF t \in DOMAIN d.targets THEN d.targets[t] ELSE Nothing

(***************************************************************************)
(* Which documents are read.                                               *)
(***************************************************************************)
\* The version that an entry of a kind asks for.
Needs(kind, val) ==
    CASE kind = "env" -> 2
      [] kind = "alias" -> IF val = "powershell" THEN 7 ELSE 3
      [] kind = "service" -> IF val = "requires" THEN 10 ELSE 4

\* KnownManager: a manager is built in, or declared under adapters.
KnownManager(d, val) == val # "adapter" \/ d.adapters

PackagesOk(d, items) ==
    \A i \in DOMAIN items :
        /\ \A j \in DOMAIN items : items[i].key = items[j].key => i = j
        /\ KnownManager(d, items[i].val)
        /\ items[i].val = "recipe" => d.version >= 9

Keyed(bundle, kind) == {k \in DOMAIN bundle.named : k[1] = kind}

EnvOk(d, bundle, tombstones) ==
    \A k \in Keyed(bundle, "env") :
        IF bundle.named[k].null THEN tombstones ELSE d.version >= Needs("env", bundle.named[k].val)

AliasesOk(d, bundle, tombstones) ==
    \A k \in Keyed(bundle, "alias") :
        IF bundle.named[k].null THEN tombstones ELSE d.version >= Needs("alias", bundle.named[k].val)

\* validateServiceRequiresGraph: what a service requires is somewhere in the
\* document.  Of the services, the one that requires requires "db".
Provided(d) ==
    UNION {{k[2] : k \in Keyed(b, "service")} :
           b \in {d.defaults} \cup {d.targets[t] : t \in DOMAIN d.targets}}

ServicesOk(d, bundle, tombstones) ==
    \A k \in Keyed(bundle, "service") :
        IF bundle.named[k].null THEN tombstones
        ELSE /\ d.version >= Needs("service", bundle.named[k].val)
             /\ bundle.named[k].val = "requires" => "db" \in Provided(d)

FilesOk(d, bundle) == bundle.lists["file"].nil \/ d.version >= 5

\* A hook that runs a file, not a command, is of version 6.
HooksOk(d, bundle) ==
    /\ bundle.lists["hook"].nil \/ d.version >= 5
    /\ \A i \in DOMAIN bundle.lists["hook"].items : bundle.lists["hook"].items[i].val = "script" => d.version >= 6

NoHosts(bundle) ==
    /\ \A b \in Lists : \A i \in DOMAIN bundle.lists[b].items : bundle.lists[b].items[i].hosts = {}
    /\ \A k \in DOMAIN bundle.named : bundle.named[k].hosts = {}

\* validateTargetBundle, with tombstones allowed in a target.
BundleOk(d, bundle, tombstones) ==
    /\ PackagesOk(d, bundle.lists["package"].items)
    /\ EnvOk(d, bundle, tombstones) /\ AliasesOk(d, bundle, tombstones)
    /\ ServicesOk(d, bundle, tombstones)
    /\ FilesOk(d, bundle) /\ HooksOk(d, bundle)

KnownTombstones(d, bundle) ==
    \A k \in DOMAIN bundle.named :
        bundle.named[k].null => k \in DOMAIN d.defaults.named /\ ~d.defaults.named[k].null

\* validatePortable.
PortableOk(d) ==
    /\ d.top.lists["package"].items = <<>> /\ d.top.named = <<>>
    /\ d.top.lists["file"].nil /\ d.top.lists["hook"].nil
    /\ DOMAIN d.targets # {}
    /\ BundleOk(d, d.defaults, FALSE) /\ NoHosts(d.defaults)
    /\ \A t \in DOMAIN d.targets :
           BundleOk(d, d.targets[t], TRUE) /\ NoHosts(d.targets[t]) /\ KnownTombstones(d, d.targets[t])

LegacyOk(d) ==
    /\ ~d.adapters
    /\ d.version < 5 => ~d.top.lists["package"].nil
    /\ BundleOk(d, d.top, FALSE)

UpdatesOk(d) == d.updates => d.version >= 6

\* schema.ParseAndValidate.
Valid(d) ==
    /\ d.version \in 1..10
    /\ UpdatesOk(d)
    /\ IF Portable(d) THEN PortableOk(d) ELSE LegacyOk(d)

(***************************************************************************)
(* What a document tells a machine to be.                                  *)
(***************************************************************************)
Live(named) == {k \in DOMAIN named : ~named[k].null}

\* schema.MergeTarget.
MergeTarget(d, t) ==
    LET tgt == At(d, t)
        kept == (Live(d.defaults.named) \ DOMAIN tgt.named) \cup Live(tgt.named)
    IN [lists |-> [b \in Lists |-> IF tgt.lists[b].nil THEN d.defaults.lists[b].items
                                   ELSE tgt.lists[b].items],
        named |-> [k \in kept |-> IF k \in DOMAIN tgt.named THEN tgt.named[k]
                                  ELSE d.defaults.named[k]]]

\* host.Match: no predicate is every host.
Match(hosts, here) == hosts = {} \/ hosts \cap here # {}

\* host.FilterForHost, for a machine known under the names in here.
FilterForHost(d, here) ==
    LET kept == {k \in DOMAIN d.top.named : Match(d.top.named[k].hosts, here)}
        Here(s) == Keep(s, {i \in ToSet(s) : Match(i.hosts, here)})
    IN [lists |-> [b \in Lists |-> Here(d.top.lists[b].items)],
        named |-> [k \in kept |-> d.top.named[k]]]

(***************************************************************************)
(* Writing the document back.                                              *)
(***************************************************************************)
\* encoding/json on the structs: every list of a bundle is omitempty, so an
\* empty one is not written; "$schema" is not a field at all.
Written(bundle) ==
    [bundle EXCEPT !.lists = [b \in Lists |->
        IF bundle.lists[b].items = <<>> THEN Nil ELSE bundle.lists[b]]]
Marshalled(d) ==
    LET top == IF Portable(d) THEN Written(d.top)
               ELSE [Written(d.top) EXCEPT !.lists["package"] = Listed(d.top.lists["package"].items)]
    IN [d EXCEPT !.schema = FALSE, !.top = top, !.defaults = Written(d.defaults),
                 !.targets = [t \in DOMAIN d.targets |-> Written(d.targets[t])]]

WithoutPackages(bundle) == [bundle EXCEPT !.lists["package"] = Nil]

\* Mutant: only the version and the targets' names are compared.
SameVersionAndTargets(a, b) ==
    a.version = b.version /\ DOMAIN a.targets = DOMAIN b.targets

\* sameNonPackageState: adapters are not among what it compares.
SameNonPackageState(a, b) ==
    /\ a.version = b.version /\ a.updates = b.updates /\ a.modules = b.modules
    /\ WithoutPackages(a.top) = WithoutPackages(b.top)
    /\ WithoutPackages(a.defaults) = WithoutPackages(b.defaults)
    /\ DOMAIN a.targets = DOMAIN b.targets
    /\ \A t \in DOMAIN a.targets : WithoutPackages(a.targets[t]) = WithoutPackages(b.targets[t])

\* Mutant: where the document has no array, none is inserted.
PatchedWhereListed(old, new) ==
    IF old.lists["package"].nil THEN old
    ELSE [old EXCEPT !.lists["package"] = Listed(new.lists["package"].items)]

\* applyPackageArrayChange: where there is no array and none is wanted, nothing
\* is written; a package whose id is there already keeps its own text.
Patched(old, new) ==
    LET want == new.lists["package"]
        have == old.lists["package"]
        Kept(p) == IF \E i \in DOMAIN have.items : have.items[i].key = p.key
                   THEN have.items[CHOOSE i \in DOMAIN have.items : have.items[i].key = p.key] ELSE p
    IN IF (have.nil /\ want.items = <<>>) \/ have = want THEN old
       ELSE [old EXCEPT !.lists["package"] = Listed([i \in DOMAIN want.items |-> Kept(want.items[i])])]

InPlace(old, new) ==
    [old EXCEPT !.top = Patched(old.top, new.top), !.defaults = Patched(old.defaults, new.defaults),
                !.targets = [t \in DOMAIN old.targets |-> Patched(old.targets[t], new.targets[t])]]

PackagesMatch(a, b) ==
    /\ a.top.lists["package"] = b.top.lists["package"]
    /\ a.defaults.lists["package"] = b.defaults.lists["package"]
    /\ \A t \in DOMAIN a.targets : a.targets[t].lists["package"] = b.targets[t].lists["package"]

CanRewriteInPlace(old, new) ==
    /\ old # NoSpec /\ Valid(old)
    /\ SameNonPackageState(old, new)
    /\ Valid(InPlace(old, new)) /\ PackagesMatch(InPlace(old, new), new)

\* genvfile.Write: the text that would replace the file.
Rewritten(old, new) == IF CanRewriteInPlace(old, new) THEN InPlace(old, new) ELSE Marshalled(new)

(***************************************************************************)
(* The commands.  A request is what the user asked; how it ended is        *)
(* "done", "refused" or "failed" (the disk or the process did).            *)
(***************************************************************************)
Request(cmd, t, kind, name, val) ==
    [cmd |-> cmd, target |-> t, kind |-> kind, name |-> name, val |-> val, end |-> ""]
Nobody == [Request("none", "", "", "", "") EXCEPT !.end = "done"]

Idle == [step |-> "idle"]

Init ==
    /\ spec \in {d \in Documents : d = NoSpec \/ Valid(d)}
    /\ profile = NoSpec
    /\ out = [snapshot |-> NoSpec, of |-> Nothing, assets |-> {}, report |-> FALSE]
    /\ exporting = Idle
    /\ last = Nobody
    /\ used = [commands |-> 0, faults |-> 0]

Ends(request, end) ==
    /\ last' = [request EXCEPT !.end = end]
    /\ used' = [used EXCEPT !.commands = @ + 1]

\* Mutant: the file is renamed into place without being validated.
WriteUnchecked(new, request) ==
    spec' = Rewritten(spec, new) /\ Ends(request, "done")

\* writeValidated: a temporary file is synced and renamed, so that the document
\* is replaced as a whole or, refused or failing, not at all.
Write(new, request) ==
    IF Valid(Rewritten(spec, new))
    THEN spec' = Rewritten(spec, new) /\ Ends(request, "done")
    ELSE UNCHANGED spec /\ Ends(request, "refused")

\* The disk is full, or the process dies before the rename.
DiskFails ==
    /\ exporting = Idle /\ spec # NoSpec
    /\ used.commands < MaxCommands /\ used.faults < MaxFaults
    /\ last' = [Request("set", "", "env", "x", "plain") EXCEPT !.end = "failed"]
    /\ used' = [commands |-> used.commands + 1, faults |-> used.faults + 1]
    /\ UNCHANGED <<spec, profile, out, exporting>>

\* genvfile.New, for the commands that create the document.
New ==
    [version |-> 8, schema |-> FALSE, top |-> Nothing, defaults |-> Nothing,
     targets |-> [t \in KnownTargets |-> Nothing],
     adapters |-> FALSE, modules |-> FALSE, updates |-> FALSE]

ReadOrNew == IF spec = NoSpec THEN New ELSE spec

\* resolveMutationTarget: a portable document must have the target.
Ready(t) ==
    /\ exporting = Idle
    /\ used.commands < MaxCommands
    /\ t \in Machines
    /\ IF Portable(ReadOrNew) THEN t \in DOMAIN ReadOrNew.targets ELSE t = CHOOSE m \in Machines : TRUE
    /\ UNCHANGED <<profile, out, exporting>>

BundleFor(d, t) == IF Portable(d) THEN d.targets[t] ELSE d.top
Edited(d, t, bundle) ==
    IF Portable(d) THEN [d EXCEPT !.targets[t] = bundle] ELSE [d EXCEPT !.top = bundle]

\* Mutant: the inherited packages are forgotten by the first edit.
PackagesUnseeded(d, t) == BundleFor(d, t).lists["package"].items

\* seedTargetPackagesFromDefaults: a target that inherits gets a copy to edit.
PackagesFor(d, t) ==
    LET bundle == BundleFor(d, t)
    IN IF Portable(d) /\ bundle.lists["package"].nil THEN d.defaults.lists["package"].items
       ELSE bundle.lists["package"].items

WithPackages(d, t, items) ==
    Edited(d, t, [BundleFor(d, t) EXCEPT !.lists["package"] = Listed(items)])

AddPackage(t, id, val) ==
    LET d == ReadOrNew
        have == PackagesFor(d, t)
    IN /\ Ready(t)
       /\ \A i \in DOMAIN have : have[i].key # id
       /\ KnownManager(d, val)
       /\ Write(WithPackages(d, t, Append(have, Item(id, val))), Request("add", t, "package", id, val))

\* What is left of a list without the key.
WithoutKey(s, key) == Keep(s, {i \in ToSet(s) : i.key # key})

RemovePackage(t, id) ==
    LET have == PackagesFor(spec, t)
    IN /\ spec # NoSpec /\ Ready(t)
       /\ \E i \in DOMAIN have : have[i].key = id
       /\ Write(WithPackages(spec, t, WithoutKey(have, id)),
                Request("remove", t, "package", id, ""))

WithEntry(bundle, key, e) ==
    [bundle EXCEPT !.named = [k \in DOMAIN @ \cup {key} |-> IF k = key THEN e ELSE @[k]]]
WithoutEntry(bundle, key) ==
    [bundle EXCEPT !.named = [k \in DOMAIN @ \ {key} |-> @[k]]]

\* schema.AtLeastVersion.
AtLeast(d, v) == IF d.version > v THEN d ELSE [d EXCEPT !.version = v]

\* Mutant: an alias for PowerShell raises the version no further than any alias.
RaisedForBlock(d, kind, val) == IF Portable(d) THEN d ELSE AtLeast(d, Needs(kind, "plain"))

Raised(d, kind, val) == IF Portable(d) THEN d ELSE AtLeast(d, Needs(kind, val))

\* An entry is put into the target's bundle, over a tombstone if there is one.
Set(t, kind, name, val) ==
    LET d == ReadOrNew
    IN /\ Ready(t)
       /\ Write(Raised(Edited(d, t, WithEntry(BundleFor(d, t), <<kind, name>>, Entry(val))), kind, val),
                Request("set", t, kind, name, val))

DefaultHas(d, key) == Portable(d) /\ key \in Live(d.defaults.named)

\* Mutant: the entry is deleted even where defaults would show through.
UnsetByDeleting(d, t, key) == Edited(d, t, WithoutEntry(BundleFor(d, t), key))

\* What defaults would show through is hidden by a tombstone.
UnsetIn(d, t, key) ==
    Edited(d, t, IF DefaultHas(d, key) THEN WithEntry(BundleFor(d, t), key, Null)
                 ELSE WithoutEntry(BundleFor(d, t), key))

Unset(t, kind, name) ==
    LET key == <<kind, name>>
    IN /\ spec # NoSpec /\ Ready(t)
       /\ key \in DOMAIN BundleFor(spec, t).named \/ DefaultHas(spec, key)
       /\ Write(UnsetIn(spec, t, key), Request("unset", t, kind, name, ""))

\* The commands have no flag for what a service requires.
EnvSet(t) == \E val \in {"plain", "secret"} : Set(t, "env", "x", val)
EnvUnset(t) == Unset(t, "env", "x")
ShellAliasSet(t) == \E val \in {"plain", "powershell"} : Set(t, "alias", "x", val)
ShellAliasUnset(t) == Unset(t, "alias", "x")
ServicePut(t) == \E name \in {"web", "db"} : Set(t, "service", name, "plain")
ServiceRemove(t) == \E name \in {"web", "db"} : Unset(t, "service", name)

(***************************************************************************)
(* migrate: host predicates become targets.                                *)
(***************************************************************************)
\* targetsForHostPredicate, for the hosts that have a target.
TargetsOf(hosts) == {IF h = "wsl2" THEN "wsl-arch" ELSE h : h \in hosts}

HostsOf(d) ==
    UNION {{items[i].hosts : i \in DOMAIN items} : items \in {d.top.lists[b].items : b \in Lists}}
        \cup {d.top.named[k].hosts : k \in DOMAIN d.top.named}

\* inferObservedTargets; with none, the empty-host items go to targets.linux.
ObservedTargets(d) ==
    IF UNION HostsOf(d) = {} THEN {"linux"} ELSE TargetsOf(UNION HostsOf(d))

\* A service moves to the targets of its hosts; the environment and aliases,
\* which have none, to defaults.
IsService(k) == k[1] = "service"

\* Mutant: what is for every host goes to no target.
BucketedScopedOnly(d, t) ==
    LET IsFor(i) == t \in TargetsOf(i.hosts)
        Moved(items) == [i \in DOMAIN items |-> [items[i] EXCEPT !.hosts = {}]]
        Kept(b) == Moved(Keep(d.top.lists[b].items, {i \in ToSet(d.top.lists[b].items) : IsFor(i)}))
    IN [lists |-> [b \in Lists |-> IF Kept(b) = <<>> THEN Nil ELSE Listed(Kept(b))],
        named |-> [k \in {j \in DOMAIN d.top.named : IsService(j) /\ IsFor(d.top.named[j])}
                       |-> [d.top.named[k] EXCEPT !.hosts = {}]]]

\* Mutant: a bucketed item keeps its predicate.
BucketedWithHosts(d, t) ==
    LET IsFor(i) == i.hosts = {} \/ t \in TargetsOf(i.hosts)
    IN [lists |-> [b \in Lists |-> Listed(Keep(d.top.lists[b].items, {i \in ToSet(d.top.lists[b].items) : IsFor(i)}))],
        named |-> [k \in {j \in DOMAIN d.top.named : IsService(j) /\ IsFor(d.top.named[j])}
                       |-> d.top.named[k]]]

\* bucketPackages, bucketServices, bucketFiles and bucketHooks.
Bucketed(d, t) ==
    LET IsFor(i) == i.hosts = {} \/ t \in TargetsOf(i.hosts)
        Moved(items) == [i \in DOMAIN items |-> [items[i] EXCEPT !.hosts = {}]]
        Kept(b) == Moved(Keep(d.top.lists[b].items, {i \in ToSet(d.top.lists[b].items) : IsFor(i)}))
    IN [lists |-> [b \in Lists |-> IF Kept(b) = <<>> THEN Nil ELSE Listed(Kept(b))],
        named |-> [k \in {j \in DOMAIN d.top.named : IsService(j) /\ IsFor(d.top.named[j])}
                       |-> [d.top.named[k] EXCEPT !.hosts = {}]]]

\* migrate.ToV8 of a legacy document whose hosts all have a target.
ToV8(d) ==
    [New EXCEPT !.updates = d.updates,
                !.defaults.named = [k \in {j \in DOMAIN d.top.named : ~IsService(j)} |-> d.top.named[k]],
                !.targets = [t \in ObservedTargets(d) |-> Bucketed(d, t)]]

CanMigrate(d) ==
    \/ d.version = 8
    \/ ~Portable(d) /\ TargetsOf(UNION HostsOf(d)) \subseteq KnownTargets
Migrated(d) == IF d.version = 8 THEN d ELSE ToV8(d)

\* genv migrate --write.
Migrate ==
    /\ exporting = Idle /\ spec # NoSpec /\ used.commands < MaxCommands
    /\ CanMigrate(spec)
    /\ Write(Migrated(spec), Request("migrate", "", "", "", ""))
    /\ UNCHANGED <<profile, out, exporting>>

(***************************************************************************)
(* export: one target is copied out, with the files it is made of.         *)
(***************************************************************************)
\* What is copied: the sources that are relative to the document.
Relative(bundle) ==
    {bundle.lists["file"].items[i].key : i \in
        {j \in DOMAIN bundle.lists["file"].items : bundle.lists["file"].items[j].val # "absolute"}}
    \cup {bundle.lists["hook"].items[i].key : i \in
        {j \in DOMAIN bundle.lists["hook"].items : bundle.lists["hook"].items[j].val = "script"}}

Missing(bundle) ==
    {bundle.lists["file"].items[i].key : i \in
        {j \in DOMAIN bundle.lists["file"].items : bundle.lists["file"].items[j].val = "missing"}}

AsBundle(effective) ==
    [lists |-> [b \in Lists |-> IF effective.lists[b] = <<>> THEN Nil ELSE Listed(effective.lists[b])],
     named |-> effective.named]

\* bundleFromFlat: a sensitive variable stays at home.
BundleFromFlat(effective) ==
    AsBundle([effective EXCEPT !.named =
        [k \in {j \in DOMAIN @ : ~(j[1] = "env" /\ @[j].val = "secret")} |-> @[k]]])

\* Mutant: the target alone is exported, without what defaults say.
ExportedTargetOnly(d, t) ==
    BundleFromFlat([lists |-> [b \in Lists |-> d.targets[t].lists[b].items],
                    named |-> [k \in Live(d.targets[t].named) |-> d.targets[t].named[k]]])

ExportedBundle(d, t) == BundleFromFlat(MergeTarget(d, t))

\* writeSnapshot: version 8 unless the document is version 9; one that has
\* modules was flattened to version 8 before.
Snapshot(d, t, bundle) ==
    [New EXCEPT !.version = IF d.version = 9 THEN 9 ELSE 8, !.adapters = d.adapters,
                !.targets = [u \in {t} |-> bundle]]

ExportFrom(d, t) ==
    /\ exporting = Idle /\ used.commands < MaxCommands
    /\ t \in Machines \cap DOMAIN d.targets
    /\ exporting' = [step |-> "assets", target |-> t, doc |-> d,
                     bundle |-> ExportedBundle(d, t), todo |-> Relative(ExportedBundle(d, t))]
    /\ used' = [used EXCEPT !.commands = @ + 1]
    /\ UNCHANGED <<spec, profile, out, last>>

Export(t) == spec # NoSpec /\ Portable(spec) /\ ExportFrom(spec, t)
ExportFromV7(t) == spec # NoSpec /\ CanMigrate(spec) /\ ExportFrom(Migrated(spec), t)

ExportEnds(end) ==
    /\ last' = [Request("export", exporting.target, "", "", "") EXCEPT !.end = end]
    /\ exporting' = Idle

\* copyAsset, in the order of the bundle.
CopyAsset ==
    /\ exporting.step = "assets" /\ exporting.todo # {}
    /\ LET source == CHOOSE k \in exporting.todo : TRUE
       IN IF source \in Missing(exporting.bundle)
          THEN ExportEnds("refused") /\ UNCHANGED out
          ELSE /\ out' = [out EXCEPT !.assets = @ \cup {source}]
               /\ exporting' = [exporting EXCEPT !.todo = @ \ {source}]
               /\ UNCHANGED last
    /\ UNCHANGED <<spec, profile, used>>

SaveSnapshot(snapshot) ==
    IF Valid(snapshot)
    THEN /\ out' = [out EXCEPT !.snapshot = snapshot,
                               !.of = MergeTarget(exporting.doc, exporting.target)]
         /\ exporting' = [exporting EXCEPT !.step = "report"]
         /\ UNCHANGED last
    ELSE ExportEnds("refused") /\ UNCHANGED out

\* Mutant: the snapshot is written while files have still to be copied.
WriteSnapshotEarly ==
    /\ exporting.step = "assets"
    /\ SaveSnapshot(Snapshot(exporting.doc, exporting.target, exporting.bundle))
    /\ UNCHANGED <<spec, profile, used>>

WriteSnapshot ==
    /\ exporting.step = "assets" /\ exporting.todo = {}
    /\ SaveSnapshot(Snapshot(exporting.doc, exporting.target, exporting.bundle))
    /\ UNCHANGED <<spec, profile, used>>

\* writeReport and writeReportMarkdown.
WriteReport ==
    /\ exporting.step = "report"
    /\ out' = [out EXCEPT !.report = TRUE]
    /\ ExportEnds("done")
    /\ UNCHANGED <<spec, profile, used>>

ExportFails ==
    /\ exporting # Idle /\ used.faults < MaxFaults
    /\ ExportEnds("failed")
    /\ used' = [used EXCEPT !.faults = @ + 1]
    /\ UNCHANGED <<spec, profile, out>>

(***************************************************************************)
(* Profiles: a second legacy document laid over the first.                 *)
(***************************************************************************)
\* profile.Create; the user then writes what the profile says.
ProfileCreate ==
    /\ exporting = Idle /\ used.commands < MaxCommands
    /\ profile = NoSpec /\ (spec = NoSpec \/ ~Portable(spec))
    /\ profile' = [New EXCEPT !.version = 6, !.targets = <<>>, !.top.lists["package"] = Listed(<<>>)]
    /\ Ends(Request("profile", "", "", "", ""), "done")
    /\ UNCHANGED <<spec, out, exporting>>

ProfileEdited ==
    /\ exporting = Idle /\ profile # NoSpec
    /\ \E p \in Profiles : Valid(p) /\ profile' = p
    /\ UNCHANGED <<spec, out, exporting, last, used>>

\* Mutant: the profile's items are appended, those of the base kept.
OverlaidByAppending(base, over) == base \o over

\* The lists of profile.Merge: the base's items in their places, of which the last
\* with a key is replaced by the profile's, and then what only the profile has.
Keys(s) == [i \in DOMAIN s |-> s[i].key]
LastOf(s, k) == s[CHOOSE i \in DOMAIN s : s[i].key = k /\ \A j \in DOMAIN s : s[j].key = k => j <= i]
Stays(base, over, i) ==
    \/ base[i].key \notin ToSet(Keys(over))
    \/ \E j \in DOMAIN base : j > i /\ base[j].key = base[i].key
Overlaid(base, over) ==
    LET order == Keys(base) \o Distinct(Keep(Keys(over), ToSet(Keys(over)) \ ToSet(Keys(base))))
    IN [i \in DOMAIN order |->
           IF i \in DOMAIN base /\ Stays(base, over, i) THEN base[i] ELSE LastOf(over, order[i])]

\* Mutant: the merged document has the version of the base.
MergeKeepsVersion(base, over) ==
    [base EXCEPT
        !.top.lists = [b \in Lists |-> IF base.top.lists[b].items \o over.top.lists[b].items = <<>> THEN Nil
            ELSE Listed(Overlaid(base.top.lists[b].items, over.top.lists[b].items))],
        !.top.named = [k \in DOMAIN base.top.named \cup DOMAIN over.top.named |->
            IF k \in DOMAIN over.top.named THEN over.top.named[k] ELSE base.top.named[k]]]

\* profile.Merge, of two legacy documents; hooks are appended.
Merge(base, over) ==
    LET Joined(b) == IF b = "hook" THEN base.top.lists[b].items \o over.top.lists[b].items
                    ELSE Overlaid(base.top.lists[b].items, over.top.lists[b].items)
    IN [base EXCEPT
           !.version = IF over.version > base.version THEN over.version ELSE base.version,
           !.schema = FALSE, !.updates = base.updates \/ over.updates,
           !.top.lists = [b \in Lists |-> IF Joined(b) = <<>> THEN Nil ELSE Listed(Joined(b))],
           !.top.named = [k \in DOMAIN base.top.named \cup DOMAIN over.top.named |->
               IF k \in DOMAIN over.top.named THEN over.top.named[k] ELSE base.top.named[k]]]

\* LoadMerged: only over a legacy document.
Merged == spec # NoSpec /\ profile # NoSpec /\ ~Portable(spec) /\ ~Portable(profile)

(***************************************************************************)
(* The specification.                                                      *)
(***************************************************************************)
Next ==
    \/ \E t \in Machines :
           \/ \E id \in {"p", "q"} : RemovePackage(t, id) \/ (\E val \in {"plain", "adapter"} : AddPackage(t, id, val))
           \/ EnvSet(t) \/ EnvUnset(t)
           \/ ShellAliasSet(t) \/ ShellAliasUnset(t)
           \/ ServicePut(t) \/ ServiceRemove(t)
           \/ Export(t) \/ ExportFromV7(t)
    \/ Migrate \/ DiskFails
    \/ CopyAsset \/ WriteSnapshot \/ WriteReport \/ ExportFails
    \/ ProfileCreate \/ ProfileEdited

Spec == Init /\ [][Next]_vars

(***************************************************************************)
(* Properties.                                                             *)
(***************************************************************************)
\* Whatever is asked of genv, genv.json can be read again afterwards
\* (genvfile.writeValidated): no command leaves behind a service that requires
\* one that is gone, a tombstone of nothing or a block its version lacks.
SpecReadable == spec = NoSpec \/ Valid(spec)

Environment(d, t) ==
    IF Portable(d) THEN MergeTarget(d, t)
    ELSE [lists |-> [b \in Lists |-> d.top.lists[b].items], named |-> d.top.named]
Places(d) == IF Portable(d) THEN DOMAIN d.targets ELSE {"arch"}

\* What the environment of a machine is to be after a request about it.
Wanted(env, r) ==
    CASE r.cmd = "add" -> [env EXCEPT !.lists["package"] = Append(@, Item(r.name, r.val))]
      [] r.cmd = "remove" -> [env EXCEPT !.lists["package"] = WithoutKey(@, r.name)]
      [] r.cmd = "set" -> WithEntry(env, <<r.kind, r.name>>, Entry(r.val))
      [] r.cmd = "unset" -> WithoutEntry(env, <<r.kind, r.name>>)

\* An empty array over a non-empty default, which omitempty cannot write.
Inexpressible(d, env, b) == env.lists[b] = <<>> /\ d.defaults.lists[b].items # <<>>

Edits == {"add", "remove", "set", "unset"}
EditEnded == last' # last \/ spec' # spec

\* An edit that is reported as done changes what its target is told to be as it
\* was asked to, and what every other target is told to be not at all, whether
\* the target inherits, overrides or has a tombstone (internal/commands), and
\* however the document is written back.  An array that the edit leaves empty
\* over a non-empty default is the exception: it is not written.
EditSays ==
    EditEnded /\ last'.cmd \in Edits /\ last'.end = "done" =>
        LET d == ReadOrNew
        IN \A t \in Places(d) :
             LET env == IF Portable(d) /\ t # last'.target THEN Environment(d, t)
                        ELSE Wanted(Environment(d, t), last')
             IN /\ Environment(spec', t).named = env.named
                /\ \A b \in Lists : Environment(spec', t).lists[b] = env.lists[b] \/ Inexpressible(d, env, b)
EditDoesWhatItSays == [][EditSays]_vars

\* An edit of a legacy document raises its version as far as the edit asks
\* (schema.AtLeastVersion), so that it is never refused for its version.
LegacyEditTaken == EditEnded /\ spec # NoSpec /\ ~Portable(spec) /\ last'.cmd \in Edits => last'.end # "refused"
LegacyEditNeverRefused == [][LegacyEditTaken]_vars

\* Adding a package leaves the rest of the document as the user wrote it, the
\* "$schema" key and empty blocks included (genvfile/rewrite.go).
TextKept ==
    EditEnded /\ spec # NoSpec /\ last'.cmd = "add" /\ last'.end = "done" =>
        /\ spec'.schema = spec.schema
        /\ WithoutPackages(spec'.top) = WithoutPackages(spec.top)
        /\ WithoutPackages(spec'.defaults) = WithoutPackages(spec.defaults)
        /\ \A t \in DOMAIN spec.targets : WithoutPackages(spec'.targets[t]) = WithoutPackages(spec.targets[t])
AddKeepsTheText == [][TextKept]_vars

MigratedNow == last' # last /\ last'.cmd = "migrate" /\ spec # NoSpec /\ ~Portable(spec)

WithoutHosts(env) ==
    [lists |-> [b \in Lists |-> [i \in DOMAIN env.lists[b] |-> [env.lists[b][i] EXCEPT !.hosts = {}]]],
     named |-> [k \in DOMAIN env.named |-> [env.named[k] EXCEPT !.hosts = {}]]]

\* After migrate, a machine that has a target is told to be what the predicates
\* told it before: nothing is lost and nothing comes to the wrong machine.
HostsKept ==
    MigratedNow /\ last'.end = "done" =>
        \A t \in DOMAIN spec'.targets :
            LET here == IF t = "wsl-arch" THEN {t, "wsl2"} ELSE {t}
            IN MergeTarget(spec', t) = WithoutHosts(FilterForHost(spec, here))
MigrateKeepsEveryHost == [][HostsKept]_vars

\* A document that migrate can map is written: predicates are gone, and no
\* record breaks a rule of portable documents.
MigrateTaken == MigratedNow => last'.end # "refused"
MigrateNeverRefused == [][MigrateTaken]_vars

SnapshotTarget == CHOOSE t \in DOMAIN out.snapshot.targets : TRUE

\* However an export ends, a snapshot that is there has beside it every file
\* that it names (export.BuildWithOptions copies before it writes).
SnapshotIsComplete ==
    out.snapshot # NoSpec => Relative(out.snapshot.targets[SnapshotTarget]) \subseteq out.assets

\* A snapshot can be read, and tells the machine that takes it what the
\* document told the target, but for the sensitive variables.
SnapshotIsTheTarget ==
    out.snapshot # NoSpec =>
        LET there == MergeTarget(out.snapshot, SnapshotTarget)
            secret == {k \in DOMAIN out.of.named : k[1] = "env" /\ out.of.named[k].val = "secret"}
        IN /\ Valid(out.snapshot)
           /\ there.lists = out.of.lists
           /\ there.named = [k \in DOMAIN out.of.named \ secret |-> out.of.named[k]]

\* A document and a profile that can be read make one that could be, were it
\* written: of a legacy document the packages always are, none though there be.
MergedIsReadable == Merged => Valid(Marshalled(Merge(spec, profile)))

\* The documents agree on which machines a key is for.
SameMachines(k, b) ==
    \A i \in DOMAIN spec.top.lists[b].items : \A j \in DOMAIN profile.top.lists[b].items :
        spec.top.lists[b].items[i].key = k /\ profile.top.lists[b].items[j].key = k =>
            spec.top.lists[b].items[i].hosts = profile.top.lists[b].items[j].hosts

\* A document has no key twice.
Once(d, b) ==
    \A i, j \in DOMAIN d.top.lists[b].items :
        d.top.lists[b].items[i].key = d.top.lists[b].items[j].key => i = j

\* A profile adds to the base and overrides it, on every machine: whatever only
\* one of them has is kept, and a key that both have is had once, as the profile
\* has it (the comment of profile.Merge; merged before it is filtered).  Of files,
\* a document may have a target twice: only the last one is overridden.
ProfileOverlays ==
    Merged => \A h \in KnownTargets : \A b \in {"package", "file"} :
        Once(spec, b) /\ Once(profile, b) =>
        LET mine == ToSet(FilterForHost(profile, {h}).lists[b])
            base == ToSet(FilterForHost(spec, {h}).lists[b])
            got == FilterForHost(Merge(spec, profile), {h}).lists[b]
        IN (\A i \in base \cup mine : SameMachines(i.key, b)) =>
              /\ ToSet(got) = mine \cup {i \in base : \A j \in mine : j.key # i.key}
              /\ Len(got) = Cardinality(ToSet(got))

\* VIOLATED.  README.md:236, "genv export flattens a composed spec into a single-target
\* snapshot": an export of a readable document ends for want of a file or for a
\* fault, and for nothing else.
ExportIsWritten ==
    [][last' # last /\ last'.cmd = "export" => last'.end # "refused" \/ Missing(exporting.bundle) # {}]_vars

\* VIOLATED.  What a user removes from a target is no longer part of it (`genv remove`).
RemoveRemoves ==
    [][EditEnded /\ last'.cmd = "remove" /\ last'.end = "done" =>
         ~\E i \in DOMAIN Environment(spec', last'.target).lists["package"] :
              Environment(spec', last'.target).lists["package"][i].key = last'.name]_vars

-----------------------------------------------------------------------------
(* What the runs check together, as conjunctions of the above.             *)

\* An edit does what it says to its target and to nothing else, in a document that
\* stays readable and stays the user's.
EditIsFaithful == []SpecReadable /\ EditDoesWhatItSays /\ LegacyEditNeverRefused /\ AddKeepsTheText

\* A migration is written, and tells every machine what it was told before.
MigrationIsFaithful == MigrateKeepsEveryHost /\ MigrateNeverRefused

\* A snapshot names only files that are beside it, and is the target it was made of.
SnapshotIsFaithful == SnapshotIsComplete /\ SnapshotIsTheTarget

\* Base and profile make a readable document in which the profile has the last word.
ProfileIsAnOverlay == MergedIsReadable /\ ProfileOverlays

=============================================================================
