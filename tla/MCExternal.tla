----------------------------- MODULE MCExternal -----------------------------
\* Recipes of each type over three paths, one of them outside the home.
EXTENDS External
CONSTANTS a, b, c, v1, v2

PathsVal == {a, b, c}
ProtectedVal == {c}
VerifiersVal == {v1, v2}

Base == [type |-> "direct", verify |-> {v1}, unverified |-> FALSE, dest |-> [v \in 1..2 |-> <<a>>],
         detect |-> a, channel |-> "stable", wants |-> 1..2, background |-> FALSE, http |-> FALSE,
         system |-> FALSE, uninstall |-> FALSE, matching |-> 1, kin |-> 1]
ArchiveOf(d1, d2) == [Base EXCEPT !.type = "archive", !.dest = <<d1, d2>>, !.kin = 2]
RecipesVal == {
  [Base EXCEPT !.wants = {1}], [Base EXCEPT !.verify = {}, !.unverified = TRUE],
  [Base EXCEPT !.http = TRUE], [Base EXCEPT !.matching = 2, !.kin = 3],
  [ArchiveOf(<<a, b>>, <<a, b>>) EXCEPT !.verify = {v1, v2}],
  [ArchiveOf(<<b, c>>, <<b, c>>) EXCEPT !.system = TRUE, !.detect = b, !.kin = 2],
  ArchiveOf(<<a, c>>, <<a, c>>),
  [Base EXCEPT !.type = "script", !.background = TRUE, !.uninstall = TRUE, !.kin = 6],
  [Base EXCEPT !.type = "script", !.kin = 7]}
TemplatedVal == {ArchiveOf(<<a, b>>, <<a, c>>), [Base EXCEPT !.channel = "any"]}
PlainHttpVal == {[Base EXCEPT !.http = TRUE]}
ArchiveVal == {ArchiveOf(<<a, b>>, <<a, b>>)}

R(v) == [draft |-> FALSE, pre |-> FALSE, ver |-> v]
FeedsVal == {<<R(1)>>, <<[R(2) EXCEPT !.pre = TRUE], [R(2) EXCEPT !.draft = TRUE], R(2), R(1)>>,
             <<R(0), R(1)>>}
InitDisksVal == {[p \in PathsVal |-> Nothing], [p \in PathsVal |-> User(1)],
                 [p \in PathsVal |-> IF p = a THEN User(0) ELSE Nothing]}
FeedsTwo == {<<R(1)>>, <<R(2), R(1)>>}
=============================================================================
