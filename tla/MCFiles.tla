------------------------------ MODULE MCFiles ------------------------------
(* Files for TLC: a directory with a merged file, a link and a template.   *)
EXTENDS Files

CONSTANTS dir, child, rc, tpl, sdir, schild, s1, s2, stpl

E(k, t, s, b, p) == [kind |-> k, target |-> t, source |-> s, backup |-> b, perm |-> p]

MCSpecs == {
  <<E("dir", dir, schild, FALSE, TRUE), E("link", rc, s1, FALSE, TRUE),
    E("merge", child, schild, FALSE, FALSE), E("template", tpl, stpl, TRUE, TRUE)>>,
  <<E("managed", rc, s2, TRUE, FALSE), E("merge", child, schild, TRUE, FALSE),
    E("template", tpl, stpl, FALSE, FALSE)>>}

Own(p) == File(Bytes(p, 1), TRUE)
Tree(d, c, r, t, s) == [p \in {dir, child, rc, tpl, schild, s1, s2, stpl} |->
  CASE p = dir -> d [] p = child -> c [] p = rc -> r [] p = tpl -> t [] p = s1 -> s
    [] p = stpl -> File(Bytes(stpl, 1), FALSE) [] OTHER -> Own(p)]

\* Each target in each of its states, the link with and without its source.
MCInitTrees ==
  {Tree(Absent, Absent, r, Absent, s) :
     r \in {Absent, Own(rc), Link(s2)}, s \in {Absent, File(Bytes(s1, 1), FALSE)}}
  \cup {Tree(d, c, Own(rc), Link(stpl), Own(s1)) :
     d \in {Plain(Absent, FALSE), Link(sdir), Own(dir)}, c \in {Absent, Own(child)}}
  \cup {Tree(Absent, Absent, Absent, Own(tpl), Own(s1))}
=============================================================================
