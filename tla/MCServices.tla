----------------------------- MODULE MCServices -----------------------------
(* A portable service, its variants, a plain command and a brew formula.   *)
EXTENDS Services

MCTexts == STRING
MCNameOrder == <<"db", "web">>
\* "web" stands for a name with a separator in it.
MCRenamed == {"web"}
MCBase == [s \in {"web.service", "plain"} |-> IF s = "plain" THEN "" ELSE "web"]
MCSources == {"a.plist", "web.service", "plain"}
MCRendered == {[label |-> "web", body |-> "two"], [label |-> "other", body |-> "two"], [label |-> "", body |-> "broken"]}

Task(trigger, at) == [action |-> "job", trigger |-> trigger, at |-> at, day |-> ""]
Plain(argv, stop) == [Undeclared EXCEPT !.start = argv, !.stop = stop]
Portable == [Undeclared EXCEPT !.plist = "a.plist", !.unit = "web.service", !.task = Task("daily", "09:30")]
UnitOnly == [Undeclared EXCEPT !.unit = "plain", !.requires = {"db"}]
Both == [Undeclared EXCEPT !.plist = "a.plist", !.unit = "plain"]
Brewed == [Undeclared EXCEPT !.brew = "postgres"]
OneWord == Plain(<<<<"serve", "fast">>>>, <<<<"halt">>>>)
TwoWords == Plain(<<<<"serve">>, <<"fast">>>>, <<<<"halt">>>>)
Other == [Plain(<<<<"other">>>>, <<>>) EXCEPT !.restart = <<<<"again">>>>]

MCDeclarations == {Portable, OneWord, TwoWords,
                   [Portable EXCEPT !.task = Task("", "09:30")],   \* a time without a clock: refused
                   [Brewed EXCEPT !.start = OneWord.start]}          \* two ways: refused

Pair(db, web) == [n \in {"db", "web"} |-> IF n = "db" THEN db ELSE web]
MCFirstSpecs == {Pair(Other, Portable), Pair(Both, UnitOnly), Pair(Brewed, OneWord)}
MCFirstTemplates == {[s \in MCSources |-> [label |-> "web", body |-> "one"]]}
=============================================================================
