----------------------------- MODULE MCCompose -----------------------------
(* Compose for TLC: repositories that vary in one respect at a time.       *)
EXTENDS Compose

D(key, val, asset) == [key |-> key, val |-> val, asset |-> asset, null |-> FALSE,
                       requires |-> <<>>, watch |-> <<>>]
Service(name, asset, requires, watch) ==
    [D(name, "s", asset) EXCEPT !.requires = requires, !.watch = watch]
Null(key) == [D(key, "", <<>>) EXCEPT !.null = TRUE]

Empty == [lists |-> [package |-> Nil, link |-> Nil, template |-> Nil, dir |-> Nil, source |-> Nil, hook |-> Nil], named |-> <<>>, use |-> <<>>]
With(b, items) == [Empty EXCEPT !.lists[b] = Listed(items)]
Named(kind, key, d) == [Empty EXCEPT !.named = <<kind, key>> :> d]

Pkg(v) == With("package", <<D(<<"p">>, v, <<>>)>>)
Env(v) == Named("env", <<"K">>, D(<<"K">>, v, <<>>))
Svc(name, asset, requires, watch) == Named("service", name, Service(name, asset, requires, watch))
Link(asset) == With("link", <<D(<<"~", "x">>, "link", asset)>>)
Two == [Svc(<<"s">>, <<>>, <<<<"r">>>>, <<>>) EXCEPT !.named = @ @@ (<<"service", <<"r">>>> :> Service(<<"r">>, <<>>, <<>>, <<>>))]

Contents ==
    {Empty, Pkg("1"), Pkg("2"), Env("1"), Named("alias", <<"a">>, D(<<"a">>, "1", <<>>)),
     Svc(<<"s">>, <<>>, <<>>, <<<<"p">>>>), Svc(<<"s">>, <<>>, <<<<"r">>>>, <<>>), Svc(<<"r">>, <<>>, <<<<"s">>>>, <<>>),
     Svc(<<"s">>, <<"u">>, <<>>, <<>>), Svc(<<"s">>, <<"~", "x">>, <<>>, <<>>), Svc(<<"s">>, <<>>, <<>>, <<<<"~", "x">>>>),
     Link(<<"f">>), Link(<<"~", "f">>), Link(<<"..", "f">>),
     With("template", <<D(<<"~", "x">>, "link", <<"f">>)>>),
     With("dir", <<D(<<"~", "x">>, "", <<>>)>>),
     With("source", <<D(<<"rc">>, "", <<>>)>>), With("hook", <<D(<<"h">>, "", <<"h">>)>>)}
Tombs == {Empty, Named("env", <<"K">>, Null(<<"K">>)), With("package", <<>>), Env("2"), Pkg("2")}
Few == {Empty, Env("1"), Pkg("1"), Svc(<<"s">>, <<>>, <<>>, <<>>)}

Module(requires, defaults, targets) ==
    [kind |-> "regular", bytes |-> 1, requires |-> requires, hasDefaults |-> TRUE,
     defaults |-> defaults, targets |-> targets]
Using(b, names) == [b EXCEPT !.use = names]
Tree(root, registered, files) ==
    [root |-> root, registered |-> registered, files |-> files, active |-> "t", nothing |-> Empty]
Root(defaults, targets) == [defaults |-> defaults, targets |-> targets]

\* Two modules in one directory or in two, each with something to say.
Paths == {("a" :> <<"a.json">>) @@ ("b" :> <<"b.json">>),
          ("a" :> <<"m", "a.json">>) @@ ("b" :> <<"m", "b.json">>)}
Pair(d, r, x, t, y, p) ==
    Tree(Root(d, "t" :> Using(r, <<"a", "b">>)), p,
         (p["a"] :> Module(<<>>, x, IF t = Empty THEN <<>> ELSE "t" :> t)) @@ (p["b"] :> Module(<<>>, y, <<>>)))
Trees2 ==
    {Pair(Empty, Empty, x, Empty, y, p) : x \in Contents, y \in Contents, p \in Paths}
    \cup {Pair(Empty, r, x, Empty, Empty, p) : r \in Contents, x \in Contents, p \in Paths}
    \cup {Pair(d, r, x, t, Env("1"), "a" :> <<"a.json">> @@ "b" :> <<"b.json">>)
             : d \in {Empty, Env("2")}, r \in Few \cup Tombs, x \in Few \cup Tombs, t \in Tombs}

\* Every requires graph over three modules, one of which may be broken.
Needs == {<<>>, <<"a">>, <<"b">>, <<"c">>, <<"b", "c">>, <<"c", "b">>, <<"z">>}
Broken(k) == [Module(<<>>, Empty, <<>>) EXCEPT !.kind = k]
Selections == {<<<<>>, <<"a">>>>, <<<<"a">>, <<"c", "a">>>>, <<<<>>, <<"a", "a">>>>, <<<<"b">>, <<>>>>}
Graph(f, sd, st) ==
    Tree(Root(Using(Empty, sd), "t" :> Using(Empty, st)),
         [a |-> <<"a">>, b |-> <<"b">>, c |-> <<"c">>],
         (<<"a">> :> f.a) @@ (<<"b">> :> f.b) @@ (<<"c">> :> f.c))
Plain(requires) == Module(requires, Empty, <<>>)
Trees3 ==
    {Graph([a |-> Plain(x), b |-> Plain(y), c |-> z], s[1], s[2])
       : x \in Needs, y \in Needs,
         z \in {Plain(w) : w \in Needs} \cup {Broken("absent"), Broken("symlink"), Broken("directory"), Module(<<>>, With("package", <<D(<<"p">>, "malformed", <<>>)>>), <<>>)},
         s \in Selections}
    \cup {Graph([a |-> [Plain(<<"b">>) EXCEPT !.bytes = 2], b |-> [Plain(<<>>) EXCEPT !.bytes = 2], c |-> Plain(<<>>)], <<>>, <<s>>)
            : s \in {"a", "c"}}

\* One document alone, with or without a module that it does not use.
Flat1(d, t, p) == Tree(Root(d, "t" :> t), p, <<"a.json">> :> Plain(<<>>))
Trees1 ==
    {Flat1(d, t, p) : d \in Contents \cup {Two}, t \in Contents \cup Tombs \cup {Named("service", <<"s">>, Null(<<"s">>))},
                      p \in {<<>>, "a" :> <<"a.json">>}}
    \cup {[Flat1(Empty, Empty, <<>>) EXCEPT !.active = "u"],
          Tree(Root(Empty, ("t" :> Two) @@ ("u" :> Svc(<<"s">>, <<>>, <<<<"q">>>>, <<>>))), "a" :> <<"a.json">>, <<"a.json">> :> Plain(<<>>)),
          Tree(Root(Empty, "t" :> Empty), "a" :> <<"..", "a.json">>, <<"..", "a.json">> :> Plain(<<>>))}

AllTrees == Trees1 \cup Trees2 \cup Trees3
AllModes == {"validate", "apply"}
ApplyOnly == {"apply"}
ValidateFirst == {"validate"}
=============================================================================
