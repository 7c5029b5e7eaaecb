---------------------------- MODULE MCSpecLife ----------------------------
(* SpecLife for TLC: documents that differ in what an edit runs into.     *)
EXTENDS SpecLife, TLC

For(i, hosts) == [i EXCEPT !.hosts = hosts]
List(b, items) == [Nothing EXCEPT !.lists[b] = Listed(items)]
Named(kind, name, e) == <<kind, name>> :> e
P == Item("p", "plain")
Q == Item("q", "plain")

Doc(v) == [version |-> v, schema |-> FALSE, top |-> Nothing, defaults |-> Nothing, targets |-> <<>>,
           adapters |-> FALSE, modules |-> FALSE, updates |-> FALSE]
Legacy(v, top) ==
    [Doc(v) EXCEPT !.top = [top EXCEPT !.lists["package"] = IF @.nil THEN Listed(<<>>) ELSE @]]
Flat(v, defaults, arch) ==
    [Doc(v) EXCEPT !.defaults = defaults, !.targets = ("arch" :> arch) @@ ("macos" :> Nothing)]

Everything ==
    [lists |-> [package |-> Listed(<<For(P, {"macos"}), Q>>),
                file |-> Listed(<<For(Item("f", "plain"), {"wsl2", "macos"}), Item("g", "plain")>>),
                hook |-> Listed(<<For(Item("h", "plain"), {"arch"})>>)],
     named |-> Named("env", "x", Entry("secret")) @@ Named("alias", "x", Entry("plain")) @@
               Named("service", "web", [Entry("plain") EXCEPT !.hosts = {"macos"}])]
Web(v) == Named("service", "web", Entry(v))
Db == Named("service", "db", Entry("plain"))

LegacyDocuments ==
    {Legacy(1, Nothing), Legacy(1, List("package", <<P>>)), Legacy(1, List("package", <<For(P, {"box"})>>)),
     Legacy(1, List("package", <<For(P, {"arch"})>>)),
     Legacy(4, [List("package", <<P, Q>>) EXCEPT !.named = Web("plain")]),
     [Legacy(6, Everything) EXCEPT !.updates = TRUE, !.schema = TRUE]}
PortableDocuments ==
    {[Flat(8, List("package", <<P>>), Nothing) EXCEPT !.schema = TRUE],
     Flat(8, List("package", <<P>>), List("package", <<>>)),
     [Flat(8, [Nothing EXCEPT !.named = Named("env", "x", Entry("plain")) @@ Db],
              [List("hook", <<>>) EXCEPT !.named = Named("env", "x", Null)]) EXCEPT !.schema = TRUE],
     Flat(8, List("hook", <<Item("h", "script")>>),
             [List("file", <<Item("f", "plain"), Item("g", "absolute")>>) EXCEPT !.named = Named("env", "x", Entry("secret"))]),
     Flat(8, Nothing, List("file", <<Item("f", "plain"), Item("g", "missing")>>)),
     [Flat(9, List("package", <<Item("q", "adapter"), Item("r", "recipe")>>), Nothing) EXCEPT !.adapters = TRUE, !.schema = TRUE],
     Flat(10, [Nothing EXCEPT !.named = Web("requires") @@ Db], Nothing),
     [Flat(10, Nothing, [Nothing EXCEPT !.named = Web("requires") @@ Db]) EXCEPT !.modules = TRUE]}
AllDocuments == {NoSpec} \cup LegacyDocuments \cup PortableDocuments

AllProfiles ==
    {Legacy(1, Nothing), Legacy(6, List("package", <<Item("q", "plain"), Item("p", "plain")>>)),
     Legacy(6, List("package", <<For(Item("p", "plain"), {"macos"})>>)),
     Legacy(7, [List("file", <<Item("g", "absolute")>>) EXCEPT !.named = Named("alias", "x", Entry("powershell"))])}
AllTexts == STRING
TwoMachines == {"arch", "macos"}
=============================================================================
