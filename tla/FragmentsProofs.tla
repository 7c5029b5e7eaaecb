--------------------------- MODULE FragmentsProofs ---------------------------
(***************************************************************************)
(* A shell that starts after an apply has what the spec declares, and the  *)
(* lock records what has been written, for any documents, hosts, start-up  *)
(* files, faults and edits.                                                *)
(***************************************************************************)
EXTENDS Fragments, ListTheorems, SequenceTheorems

-----------------------------------------------------------------------------
(* A start-up file after a rewrite: m in place of what is between the      *)
(* b-th and the e-th of its lines.                                         *)

Splice(s, b, m, e) == SubSeq(s, 1, b) \o m \o SubSeq(s, e, Len(s))

\* Where the lines of a rewritten file come from.
LEMMA SpliceLemma ==
    ASSUME NEW s \in Seq(Line), NEW m \in Seq(Line), NEW b \in 0..Len(s), NEW e \in (b + 1)..(Len(s) + 1)
    PROVE  LET t == Splice(s, b, m, e) IN
           /\ t \in Seq(Line) /\ Len(t) = b + Len(m) + Len(s) + 1 - e
           /\ Len(s) \in Nat /\ Len(m) \in Nat /\ Len(t) \in Nat
           /\ \A i \in 1..b : t[i] = s[i]
           /\ \A i \in 1..Len(m) : t[b + i] = m[i]
           /\ \A i \in e..Len(s) : t[b + Len(m) + 1 + i - e] = s[i]
           /\ \A i \in 1..Len(t) : \/ i <= b
                                   \/ i > b /\ i <= b + Len(m) /\ t[i] = m[i - b]
                                   \/ /\ i > b + Len(m) /\ i - b - Len(m) - 1 + e \in e..Len(s)
                                      /\ t[i] = s[i - b - Len(m) - 1 + e]
<1> DEFINE l == SubSeq(s, 1, b)
           r == SubSeq(s, e, Len(s))
<1>1. Len(s) \in Nat /\ Len(m) \in Nat /\ \A i \in 1..Len(s) : s[i] \in Line
  BY ElementOfSeq, LenProperties
<1>2. l \in Seq(Line) /\ Len(l) = b /\ \A i \in 1..b : l[i] = s[i]
  BY <1>1, SubSeqProperties
<1>3. r \in Seq(Line) /\ Len(r) = Len(s) + 1 - e /\ \A i \in 1..(Len(s) + 1 - e) : r[i] = s[e + i - 1]
  BY <1>1, SubSeqProperties
<1> DEFINE lm == l \o m
           t == lm \o r
<1> HIDE DEF l, r
<1>4. /\ lm \in Seq(Line) /\ Len(lm) = b + Len(m)
      /\ \A i \in 1..(b + Len(m)) : lm[i] = IF i <= b THEN l[i] ELSE m[i - b]
  BY <1>1, <1>2, ConcatProperties
<1> HIDE DEF lm
<1>5. /\ t \in Seq(Line) /\ Len(t) = b + Len(m) + (Len(s) + 1 - e)
      /\ \A i \in 1..(b + Len(m) + (Len(s) + 1 - e)) :
           t[i] = IF i <= b + Len(m) THEN lm[i] ELSE r[i - (b + Len(m))]
  <2>1. /\ t \in Seq(Line) /\ Len(t) = Len(lm) + Len(r)
        /\ \A i \in 1..(Len(lm) + Len(r)) : t[i] = IF i <= Len(lm) THEN lm[i] ELSE r[i - Len(lm)]
    BY <1>3, <1>4, ConcatProperties
  <2> HIDE DEF t
  <2> QED BY <1>1, <1>3, <1>4, <2>1
<1> HIDE DEF t
<1>6. \A i \in 1..b : t[i] = s[i]
  BY SMTT(30), <1>1, <1>2, <1>4, <1>5
<1>7. \A i \in 1..Len(m) : t[b + i] = m[i]
  <2> TAKE i \in 1..Len(m)
  <2> DEFINE k == b + i
  <2>1. k \in 1..(b + Len(m)) /\ k > b /\ k - b = i /\ k \in 1..(b + Len(m) + (Len(s) + 1 - e))
    BY <1>1
  <2> HIDE DEF k
  <2>2. t[k] = lm[k]
    BY <1>1, <1>5, <2>1
  <2>3. lm[k] = m[i]
    BY <1>1, <1>4, <2>1
  <2> QED BY <2>2, <2>3 DEF k
<1>8. \A i \in e..Len(s) : t[b + Len(m) + 1 + i - e] = s[i]
  <2> TAKE i \in e..Len(s)
  <2> DEFINE k == b + Len(m) + 1 + i - e
  <2>1. /\ k \in 1..(b + Len(m) + (Len(s) + 1 - e)) /\ k > b + Len(m)
        /\ k - (b + Len(m)) = i + 1 - e /\ i + 1 - e \in 1..(Len(s) + 1 - e) /\ e + (i + 1 - e) - 1 = i
    BY <1>1
  <2> HIDE DEF k
  <2>2. t[k] = r[i + 1 - e]
    BY SMTT(30), <1>1, <2>1, <1>5
  <2>3. t[k] = s[i]
    BY <2>1, <2>2, <1>3
  <2> QED BY <2>3 DEF k
<1>9. \A i \in 1..Len(t) : \/ i <= b
                           \/ i > b /\ i <= b + Len(m) /\ t[i] = m[i - b]
                           \/ /\ i > b + Len(m) /\ i - b - Len(m) - 1 + e \in e..Len(s)
                              /\ t[i] = s[i - b - Len(m) - 1 + e]
  <2> TAKE i \in 1..Len(t)
  <2>1. CASE i <= b
    BY <2>1
  <2>2. CASE i > b /\ i <= b + Len(m)
    BY SMTT(30), <1>1, <1>4, <1>5, <2>2
  <2>3. CASE i > b + Len(m)
    <3> DEFINE k == i - b - Len(m) - 1 + e
    <3>1. k \in e..Len(s) /\ b + Len(m) + 1 + k - e = i
      BY <1>1, <1>5, <2>3
    <3> HIDE DEF k
    <3>2. t[i] = s[k]
      BY <1>8, <3>1
    <3> QED BY <2>3, <3>1, <3>2 DEF k
  <2> QED BY <1>1, <1>5, <2>1, <2>2, <2>3
<1>10. t = Splice(s, b, m, e)
  BY DEF Splice, t, lm, l, r
<1>11. Len(t) \in Nat /\ Len(t) = b + Len(m) + Len(s) + 1 - e
  BY <1>1, <1>5
<1> QED BY <1>1, <1>5, <1>6, <1>7, <1>8, <1>9, <1>10, <1>11

\* The same as a relation between the two files.
IsSplice(t, s, b, m, e) ==
  /\ t \in Seq(Line) /\ Len(t) = b + Len(m) + Len(s) + 1 - e
  /\ Len(s) \in Nat /\ Len(m) \in Nat /\ Len(t) \in Nat
  /\ DOMAIN t = 1..Len(t) /\ DOMAIN s = 1..Len(s) /\ DOMAIN m = 1..Len(m)
  /\ b \in Nat /\ b <= Len(s) /\ e \in Nat /\ b < e /\ e <= Len(s) + 1
  /\ \A i \in 1..b : t[i] = s[i]
  /\ \A i \in 1..Len(m) : t[b + i] = m[i]
  /\ \A i \in e..Len(s) : t[b + Len(m) + 1 + i - e] = s[i]
  /\ \A i \in 1..Len(t) : \/ i <= b
                          \/ i > b /\ i <= b + Len(m) /\ t[i] = m[i - b]
                          \/ /\ i > b + Len(m) /\ i - b - Len(m) - 1 + e \in e..Len(s)
                             /\ t[i] = s[i - b - Len(m) - 1 + e]

LEMMA Spliced ==
    ASSUME NEW s \in Seq(Line), NEW m \in Seq(Line), NEW b \in 0..Len(s), NEW e \in (b + 1)..(Len(s) + 1)
    PROVE  IsSplice(Splice(s, b, m, e), s, b, m, e)
<1> DEFINE u == Splice(s, b, m, e)
<1>1. /\ u \in Seq(Line) /\ Len(u) = b + Len(m) + Len(s) + 1 - e
      /\ Len(s) \in Nat /\ Len(m) \in Nat /\ Len(u) \in Nat
      /\ \A i \in 1..b : u[i] = s[i]
      /\ \A i \in 1..Len(m) : u[b + i] = m[i]
      /\ \A i \in e..Len(s) : u[b + Len(m) + 1 + i - e] = s[i]
      /\ \A i \in 1..Len(u) : \/ i <= b
                              \/ i > b /\ i <= b + Len(m) /\ u[i] = m[i - b]
                              \/ /\ i > b + Len(m) /\ i - b - Len(m) - 1 + e \in e..Len(s)
                                 /\ u[i] = s[i - b - Len(m) - 1 + e]
  BY SpliceLemma
<1> HIDE DEF u
<1>2. DOMAIN u = 1..Len(u) /\ DOMAIN s = 1..Len(s) /\ DOMAIN m = 1..Len(m)
  BY <1>1, LenProperties
<1>3. b \in Nat /\ b <= Len(s) /\ e \in Nat /\ b < e /\ e <= Len(s) + 1
  BY <1>1
<1>4. IsSplice(u, s, b, m, e)
  BY <1>1, <1>2, <1>3 DEF IsSplice
<1> QED BY <1>4 DEF u

\* FirstOf is the first place of a line after a given one, or 0.
LEMMA FirstOfLemma ==
    ASSUME NEW s \in Seq(Line), NEW line, NEW after \in Nat
    PROVE  LET f == FirstOf(s, line, after) IN
           \/ f = 0 /\ \A i \in (after + 1)..Len(s) : s[i] # line
           \/ /\ f \in (after + 1)..Len(s) /\ s[f] = line
              /\ \A i \in (after + 1)..Len(s) : s[i] = line => f <= i
<1> DEFINE at == {i \in (after + 1)..Len(s) : s[i] = line}
<1>1. Len(s) \in Nat
  BY LenProperties
<1>2. CASE at = {}
  BY <1>2 DEF FirstOf
<1>3. CASE at # {}
  <2>1. at \subseteq Nat
    BY <1>1
  <2>2. \E i \in at : \A j \in at : i <= j
    BY <1>3, <2>1, SmallestOf
  <2>3. FirstOf(s, line, after) = CHOOSE i \in at : \A j \in at : i <= j
    BY <1>3 DEF FirstOf
  <2>4. FirstOf(s, line, after) \in at /\ \A j \in at : FirstOf(s, line, after) <= j
    BY <2>2, <2>3
  <2> QED BY <2>4
<1> QED BY <1>2, <1>3

\* FirstOf is the place that no other precedes, and 0 when there is none.
LEMMA FirstOfIs ==
    ASSUME NEW s \in Seq(Line), NEW line, NEW after \in Nat
    PROVE  /\ \A k \in (after + 1)..Len(s) :
                s[k] = line /\ (\A i \in (after + 1)..(k - 1) : s[i] # line) => FirstOf(s, line, after) = k
           /\ (\A i \in (after + 1)..Len(s) : s[i] # line) => FirstOf(s, line, after) = 0
<1> DEFINE f == FirstOf(s, line, after)
<1>1. Len(s) \in Nat
  BY LenProperties
<1>2. \/ f = 0 /\ \A i \in (after + 1)..Len(s) : s[i] # line
      \/ /\ f \in (after + 1)..Len(s) /\ s[f] = line
         /\ \A i \in (after + 1)..Len(s) : s[i] = line => f <= i
  BY FirstOfLemma
<1> HIDE DEF f
<1>3. ASSUME NEW k \in (after + 1)..Len(s), s[k] = line, \A i \in (after + 1)..(k - 1) : s[i] # line
      PROVE  f = k
  <2>1. f \in (after + 1)..Len(s) /\ s[f] = line /\ f <= k
    BY <1>2, <1>3
  <2>2. f \notin (after + 1)..(k - 1)
    BY <1>3, <2>1
  <2> QED BY <1>1, <2>1, <2>2
<1> QED BY <1>2, <1>3 DEF f

\* Where a line of s that is not between b and e is in a rewritten file.
Shift(b, m, e, i) == IF i <= b THEN i ELSE b + Len(m) + 1 + i - e

\* A rewrite of what does not hold a line moves the first place of it, and no more.
LEMMA SplicedFirst ==
    ASSUME NEW s \in Seq(Line), NEW m \in Seq(Line), NEW b \in 0..Len(s), NEW e \in (b + 1)..(Len(s) + 1),
           NEW line, \A i \in (b + 1)..(e - 1) : s[i] # line, \A i \in 1..Len(m) : m[i] # line,
           NEW a \in 0..Len(s), a <= b \/ a >= e
    PROVE  LET k == FirstOf(s, line, a) IN
           FirstOf(Splice(s, b, m, e), line, Shift(b, m, e, a)) = IF k = 0 THEN 0 ELSE Shift(b, m, e, k)
<1>a. PICK t : t = Splice(s, b, m, e)
  OBVIOUS
<1>b. PICK k : k = FirstOf(s, line, a)
  OBVIOUS
<1>c. PICK x : x = Shift(b, m, e, a)
  OBVIOUS
<1>d. PICK n \in Nat : n = Len(s)
  BY LenProperties
<1>e. PICK l \in Nat : l = Len(m)
  BY LenProperties
<1>1. /\ t \in Seq(Line) /\ Len(t) = b + l + n + 1 - e /\ Len(t) \in Nat
      /\ \A i \in 1..b : t[i] = s[i]
      /\ \A i \in e..n : t[b + l + 1 + i - e] = s[i]
      /\ \A i \in 1..Len(t) : \/ i <= b
                              \/ i > b /\ i <= b + l /\ t[i] = m[i - b]
                              \/ /\ i > b + l /\ i - b - l - 1 + e \in e..n
                                 /\ t[i] = s[i - b - l - 1 + e]
  <2>1. IsSplice(t, s, b, m, e)
    BY <1>a, Spliced
  <2> QED BY <2>1, <1>d, <1>e DEF IsSplice
<1>2. /\ b \in Nat /\ e \in Nat /\ a \in Nat /\ b < e /\ e <= n + 1 /\ a <= n
      /\ x = IF a <= b THEN a ELSE b + l + 1 + a - e
  BY <1>c, <1>d, <1>e DEF Shift
<1>s. \A i : Shift(b, m, e, i) = IF i <= b THEN i ELSE b + l + 1 + i - e
  BY <1>e DEF Shift
<1>x. x \in Nat
  BY <1>2
<1>3. ASSUME NEW i \in (x + 1)..Len(t), t[i] = line
      PROVE  \E j \in (a + 1)..n : s[j] = line /\ (j <= b \/ j >= e) /\ Shift(b, m, e, j) = i
  <2>0. i \in Nat /\ i > x /\ i <= Len(t) /\ i \in 1..Len(t)
    BY <1>1, <1>x
  <2>1. CASE i <= b
    <3>1. x = a
      BY <1>2, <2>0, <2>1
    <3>2. i \in (a + 1)..n /\ i \in 1..b
      BY <1>2, <2>0, <2>1, <3>1
    <3>3. s[i] = line /\ Shift(b, m, e, i) = i
      BY <1>1, <1>3, <1>s, <2>1, <3>2
    <3> QED BY <2>1, <3>2, <3>3
  <2>2. CASE i > b /\ i <= b + l /\ t[i] = m[i - b]
    <3>1. i - b \in 1..l
      BY <1>2, <2>0, <2>2
    <3> QED BY <1>3, <1>e, <2>2, <3>1
  <2>3. CASE i > b + l /\ i - b - l - 1 + e \in e..n /\ t[i] = s[i - b - l - 1 + e]
    <3>1. PICK j \in e..n : j = i - b - l - 1 + e
      BY <2>3
    <3>2. j \in Nat /\ j >= e /\ ~(j <= b) /\ b + l + 1 + j - e = i
      BY <1>2, <2>0, <3>1
    <3>3. Shift(b, m, e, j) = i
      BY <1>s, <3>2
    <3>4. a < j
      BY <1>2, <2>0, <3>2
    <3>5. j \in (a + 1)..n /\ s[j] = line
      BY <1>2, <1>3, <2>3, <3>1, <3>4
    <3> QED BY <3>2, <3>3, <3>5
  <2> QED BY <1>1, <2>0, <2>1, <2>2, <2>3
<1>4. \/ k = 0 /\ \A i \in (a + 1)..n : s[i] # line
      \/ /\ k \in (a + 1)..n /\ s[k] = line
         /\ \A i \in (a + 1)..n : s[i] = line => k <= i
  BY <1>2, <1>b, <1>d, FirstOfLemma
<1>5. CASE k = 0
  <2>1. \A i \in (a + 1)..n : s[i] # line
    BY <1>2, <1>4, <1>5
  <2>2. \A i \in (x + 1)..Len(t) : t[i] # line
    BY <1>3, <2>1
  <2>3. FirstOf(t, line, x) = 0
    BY <1>1, <1>x, <2>2, FirstOfIs
  <2> QED BY <1>5, <1>a, <1>b, <1>c, <2>3
<1>6. CASE k # 0
  <2>1. k \in (a + 1)..n /\ s[k] = line /\ \A i \in (a + 1)..n : s[i] = line => k <= i
    BY <1>4, <1>6
  <2>2. k \in Nat /\ a < k /\ k <= n /\ (k <= b \/ k >= e)
    <3>1. k \in Nat /\ a < k /\ k <= n
      BY <1>2, <2>1
    <3>2. ~(k \in (b + 1)..(e - 1))
      BY <2>1
    <3> QED BY <1>2, <3>1, <3>2
  <2>3. PICK y : y = Shift(b, m, e, k)
    OBVIOUS
  <2>4. y \in (x + 1)..Len(t) /\ t[y] = line
    <3>1. CASE k <= b
      <4>1. y = k /\ x = a /\ k \in 1..b
        BY <1>2, <1>s, <2>2, <2>3, <3>1
      <4>2. y \in (x + 1)..Len(t)
        BY <1>1, <1>2, <2>2, <3>1, <4>1
      <4> QED BY <1>1, <2>1, <4>1, <4>2
    <3>2. CASE k >= e
      <4>1. k \in e..n /\ y = b + l + 1 + k - e
        BY <1>2, <1>s, <2>2, <2>3, <3>2
      <4>2. y \in (x + 1)..Len(t)
        BY <1>1, <1>2, <2>2, <3>2, <4>1
      <4> QED BY <1>1, <2>1, <4>1, <4>2
    <3> QED BY <2>2, <3>1, <3>2
  <2>5. ASSUME NEW i \in (x + 1)..(y - 1), t[i] = line PROVE FALSE
    <3>1. i \in (x + 1)..Len(t) /\ i < y /\ i \in Nat /\ y \in Nat
      BY SMTT(30), <1>1, <1>x, <2>4
    <3>2. PICK j \in (a + 1)..n : s[j] = line /\ (j <= b \/ j >= e) /\ Shift(b, m, e, j) = i
      BY <1>3, <2>5, <3>1
    <3>3. k <= j /\ j \in Nat
      BY <1>2, <2>1, <3>2
    <3>4. /\ y = (IF k <= b THEN k ELSE b + l + 1 + k - e)
          /\ i = (IF j <= b THEN j ELSE b + l + 1 + j - e)
      BY <1>s, <2>3, <3>2
    <3>5. y <= i
      BY <1>2, <2>2, <3>2, <3>3, <3>4
    <3> QED BY <3>1, <3>5
  <2>6. FirstOf(t, line, x) = y
    BY <1>1, <1>x, <2>4, <2>5, FirstOfIs
  <2> QED BY <1>6, <1>a, <1>b, <1>c, <2>3, <2>6
<1> QED BY <1>5, <1>6

\* Lines added at the end.
LEMMA AppendIsSplice ==
    ASSUME NEW s \in Seq(Line), NEW m \in Seq(Line)
    PROVE  s \o m = Splice(s, Len(s), m, Len(s) + 1)
<1>1. SubSeq(s, 1, Len(s)) = s /\ SubSeq(s, Len(s) + 1, Len(s)) = <<>>
  BY SubSeqFull, SubSeqEmpty, LenProperties
<1>2. s \o m \in Seq(Line) /\ (s \o m) \o <<>> = s \o m
  BY ConcatProperties, ConcatEmptySeq
<1>3. Splice(s, Len(s), m, Len(s) + 1) = (SubSeq(s, 1, Len(s)) \o m) \o SubSeq(s, Len(s) + 1, Len(s))
  BY DEF Splice
<1> QED BY <1>1, <1>2, <1>3

\* The kinds of lines are different lines.
LEMMA LineKinds ==
    /\ Marker \in Line /\ \A p \in Parts : {Begin(p), End(p)} \subseteq Line
    /\ \A b \in Backends, p \in Parts : /\ FileOf[b][p] \in FragmentFiles
                                        /\ Source(FileOf[b][p], "here") \in Line
    /\ \A f, g \in FragmentFiles : Source(f, "here") = Source(g, "here") => f = g
    /\ \A p, q \in Parts, f \in FragmentFiles :
         /\ Begin(p) # End(q) /\ (Begin(p) = Begin(q) \/ End(p) = End(q) => p = q)
         /\ Begin(p) # Source(f, "here") /\ End(p) # Source(f, "here")
         /\ Begin(p) # Marker /\ End(p) # Marker
    /\ \A i : \A p \in Parts : User(i) # Begin(p) /\ User(i) # End(p)
    /\ User("1") \in Line /\ User("2") \in Line
<1>1. FragmentFiles = {"env.sh", "shell.sh", "env.ps1", "shell.ps1"}
  BY DEF FragmentFiles, FileOf, Backends, Parts
<1>2. \A b \in Backends, p \in Parts : FileOf[b][p] \in FragmentFiles
  BY DEF FragmentFiles
<1> QED BY <1>1, <1>2 DEF Line, Marker, Begin, End, Source, User, Parts

-----------------------------------------------------------------------------
(* A PowerShell profile: a block for each part.                            *)

\* The block of a part is the line that sources its fragment, and no other, or has no
\* end.
Tight(s, p) ==
  LET b == FirstOf(s, Begin(p), 0)
      e == FirstOf(s, End(p), b)
  IN  b > 0 /\ (e = 0 \/ (e = b + 2 /\ s[b + 1] = Source(FileOf["powershell"][p], "here")))

\* A rewrite that takes whole lines away and puts in none that begins or ends a block
\* leaves blocks apart.
LEMMA SpliceApart ==
    ASSUME NEW s \in Seq(Line), NEW m \in Seq(Line), NEW b \in 0..Len(s), NEW e \in (b + 1)..(Len(s) + 1),
           Apart(s), \A i \in DOMAIN m, p \in Parts : m[i] \notin {Begin(p), End(p)}
    PROVE  Apart(Splice(s, b, m, e))
<1> DEFINE t == Splice(s, b, m, e)
           At(i) == IF i <= b THEN i ELSE i - b - Len(m) - 1 + e
<1>1. /\ t \in Seq(Line) /\ DOMAIN t = 1..Len(t) /\ DOMAIN s = 1..Len(s) /\ DOMAIN m = 1..Len(m)
      /\ Len(t) \in Nat /\ Len(s) \in Nat /\ Len(m) \in Nat
      /\ \A i \in 1..b : t[i] = s[i]
      /\ \A i \in 1..Len(t) : \/ i <= b
                              \/ i > b /\ i <= b + Len(m) /\ t[i] = m[i - b]
                              \/ /\ i > b + Len(m) /\ i - b - Len(m) - 1 + e \in e..Len(s)
                                 /\ t[i] = s[i - b - Len(m) - 1 + e]
  BY SpliceLemma, LenProperties
<1> HIDE DEF t
<1>2. ASSUME NEW p \in Parts, NEW i \in DOMAIN t, t[i] \in {Begin(p), End(p)}
      PROVE  At(i) \in DOMAIN s /\ s[At(i)] = t[i] /\ (i <= b \/ i > b + Len(m))
  <2>1. \/ i <= b
        \/ i > b /\ i <= b + Len(m) /\ t[i] = m[i - b]
        \/ /\ i > b + Len(m) /\ i - b - Len(m) - 1 + e \in e..Len(s)
           /\ t[i] = s[i - b - Len(m) - 1 + e]
    BY <1>1
  <2>2. CASE i <= b
    BY <1>1, <2>2
  <2>3. CASE i > b /\ i <= b + Len(m) /\ t[i] = m[i - b]
    <3>1. i - b \in DOMAIN m
      BY <1>1, <2>3
    <3> QED BY <1>2, <2>3, <3>1
  <2>4. CASE /\ i > b + Len(m) /\ i - b - Len(m) - 1 + e \in e..Len(s)
             /\ t[i] = s[i - b - Len(m) - 1 + e]
    BY <1>1, <2>4
  <2> QED BY <2>1, <2>2, <2>3, <2>4
<1>3. \A i, j \in DOMAIN t : (i <= b \/ i > b + Len(m)) /\ (j <= b \/ j > b + Len(m)) /\ i < j => At(i) < At(j)
  BY SMTT(30), <1>1
<1> HIDE DEF At
<1>4. ASSUME NEW p \in Parts, NEW q \in Parts, NEW i \in DOMAIN t, NEW k \in DOMAIN t, NEW j \in DOMAIN t,
             i < k, k < j, t[i] = Begin(p), t[j] = End(p), t[k] \in {Begin(q), End(q)}
      PROVE  FALSE
  <2>1. At(i) \in DOMAIN s /\ s[At(i)] = Begin(p) /\ (i <= b \/ i > b + Len(m))
    BY <1>2, <1>4
  <2>2. At(j) \in DOMAIN s /\ s[At(j)] = End(p) /\ (j <= b \/ j > b + Len(m))
    BY <1>2, <1>4
  <2>3. At(k) \in DOMAIN s /\ s[At(k)] \in {Begin(q), End(q)} /\ (k <= b \/ k > b + Len(m))
    BY <1>2, <1>4
  <2>4. At(i) < At(k) /\ At(k) < At(j)
    BY <1>3, <1>4, <2>1, <2>2, <2>3
  <2> QED BY <2>1, <2>2, <2>3, <2>4 DEF Apart
<1> QED BY <1>4 DEF Apart, t

\* No marker begins one block and ends another.
LEMMA BlockKinds ==
    \A p, q \in Parts : Begin(p) # End(q) /\ (Begin(p) = Begin(q) \/ End(p) = End(q) => p = q)
BY DEF Begin, End, Parts

\* What a new block of a part is, and its line.
Dot(p)   == Source(FileOf["powershell"][p], "here")
Block(p) == <<Begin(p), Dot(p), End(p)>>

LEMMA BlockLines ==
    ASSUME NEW p \in Parts
    PROVE  /\ Block(p) \in Seq(Line) /\ Len(Block(p)) = 3
           /\ Block(p)[1] = Begin(p) /\ Block(p)[2] = Dot(p) /\ Block(p)[3] = End(p)
           /\ <<Dot(p)>> \in Seq(Line) /\ Len(<<Dot(p)>>) = 1 /\ <<Dot(p)>>[1] = Dot(p)
           /\ \A q \in Parts : Dot(p) # Begin(q) /\ Dot(p) # End(q)
<1>1. /\ Dot(p) \in Line /\ Begin(p) \in Line /\ End(p) \in Line
      /\ \A q \in Parts : Dot(p) # Begin(q) /\ Dot(p) # End(q)
  BY LineKinds DEF Backends, Dot
<1> QED BY <1>1 DEF Block

\* InjectProfileLine adds a block, or replaces what is between the markers of one, or
\* finds none to replace.
LEMMA ProfileForm ==
    ASSUME NEW s \in Seq(Line), NEW p \in Parts,
           NEW b, b = FirstOf(s, Begin(p), 0), NEW e, e = FirstOf(s, End(p), b)
    PROVE  LET t == InjectProfileLine(s, p) IN
           \/ /\ b = 0 /\ \A i \in 1..Len(s) : s[i] # Begin(p)
              /\ t = Splice(s, Len(s), Block(p), Len(s) + 1)
           \/ /\ b \in 1..Len(s) /\ s[b] = Begin(p) /\ e = 0 /\ t = s
           \/ /\ b \in 1..Len(s) /\ s[b] = Begin(p) /\ e \in (b + 1)..Len(s) /\ s[e] = End(p)
              /\ t = Splice(s, b, <<Dot(p)>>, e)
<1> DEFINE t == InjectProfileLine(s, p)
<1>1. Len(s) \in Nat
  BY LenProperties
<1>2. \/ b = 0 /\ \A i \in (0 + 1)..Len(s) : s[i] # Begin(p)
      \/ b \in (0 + 1)..Len(s) /\ s[b] = Begin(p)
  BY FirstOfLemma
<1>3. b \in Nat
  BY <1>1, <1>2
<1>4. e = 0 \/ (e \in (b + 1)..Len(s) /\ s[e] = End(p))
  BY <1>3, FirstOfLemma
<1>5. CASE b = 0
  <2>1. \A i \in 1..Len(s) : s[i] # Begin(p)
    BY <1>1, <1>2, <1>5
  <2>2. ~Contains(s, Begin(p))
    BY <2>1 DEF Contains
  <2>3. t = s \o Block(p)
    BY <2>2 DEF InjectProfileLine, Block, Dot
  <2>4. t = Splice(s, Len(s), Block(p), Len(s) + 1)
    BY <2>3, BlockLines, AppendIsSplice
  <2> QED BY <1>5, <2>1, <2>4
<1>6. CASE b # 0
  <2>1. b \in 1..Len(s) /\ s[b] = Begin(p)
    BY <1>1, <1>2, <1>6
  <2>2. Contains(s, Begin(p))
    BY <2>1 DEF Contains
  <2>3. t = ReplaceBetween(s, p, Dot(p))
    BY <2>2 DEF InjectProfileLine, Dot
  <2>4. t = IF e = 0 THEN s ELSE Splice(s, b, <<Dot(p)>>, e)
    BY <1>6, <2>3 DEF ReplaceBetween, Splice
  <2> QED BY <1>4, <2>1, <2>4
<1> QED BY <1>5, <1>6

\* A rewrite that does not touch the markers of a block keeps it tight.
LEMMA StaysTight ==
    ASSUME NEW s \in Seq(Line), NEW m \in Seq(Line), NEW b \in 0..Len(s), NEW e \in (b + 1)..(Len(s) + 1),
           NEW q \in Parts, Tight(s, q),
           \A i \in (b + 1)..(e - 1) : s[i] # Begin(q) /\ s[i] # End(q),
           \A i \in 1..Len(m) : m[i] # Begin(q) /\ m[i] # End(q),
           b = Len(s) \/ (b > 0 /\ \A p \in Parts : s[b] # Dot(p) /\ s[b] # Begin(q))
    PROVE  Tight(Splice(s, b, m, e), q)
<1> DEFINE t == Splice(s, b, m, e)
<1>1. PICK x : x = FirstOf(s, Begin(q), 0)
  OBVIOUS
<1>2. PICK y : y = FirstOf(s, End(q), x)
  OBVIOUS
<1>3. Len(s) \in Nat /\ Len(m) \in Nat /\ b \in Nat /\ e \in Nat
  BY LenProperties
<1>4. x > 0 /\ (y = 0 \/ (y = x + 2 /\ s[x + 1] = Dot(q)))
  BY <1>1, <1>2 DEF Tight, Dot
<1>5. x \in 1..Len(s) /\ s[x] = Begin(q)
  <2>1. x = 0 \/ (x \in (0 + 1)..Len(s) /\ s[x] = Begin(q))
    BY <1>1, FirstOfLemma
  <2> QED BY <1>3, <1>4, <2>1
<1>6. y = 0 \/ (y \in (x + 1)..Len(s) /\ s[y] = End(q))
  <2>1. x \in Nat
    BY <1>5
  <2> QED BY <1>2, <2>1, FirstOfLemma
<1>7. x <= b \/ x >= e
  BY <1>3, <1>5
<1>8. FirstOf(t, Begin(q), 0) = Shift(b, m, e, x)
  <2>1. FirstOf(t, Begin(q), Shift(b, m, e, 0)) = IF x = 0 THEN 0 ELSE Shift(b, m, e, x)
    <3>1. 0 \in 0..Len(s) /\ (0 <= b \/ 0 >= e)
      BY <1>3
    <3> QED BY <1>1, <3>1, SplicedFirst
  <2>2. Shift(b, m, e, 0) = 0
    BY <1>3 DEF Shift
  <2> QED BY <1>5, <2>1, <2>2
<1>9. FirstOf(t, End(q), Shift(b, m, e, x)) = IF y = 0 THEN 0 ELSE Shift(b, m, e, y)
  <2>1. x \in 0..Len(s)
    BY <1>5
  <2> QED BY <1>2, <1>7, <2>1, SplicedFirst
<1>10. Shift(b, m, e, x) > 0
  BY <1>3, <1>5, <1>7 DEF Shift
<1>11. CASE y = 0
  BY <1>8, <1>9, <1>10, <1>11 DEF Tight
<1>12. CASE y # 0
  <2>1. y = x + 2 /\ s[x + 1] = Dot(q) /\ y \in 1..Len(s) /\ s[y] = End(q) /\ (y <= b \/ y >= e)
    BY SMTT(30), <1>3, <1>4, <1>5, <1>6, <1>12
  <2>2. y <= b \/ x >= e
    <3>1. ~(x <= b /\ y >= e)
      <4>1. ASSUME x <= b, y >= e PROVE FALSE
        <5>1. b # Len(s)
          BY <1>3, <1>5, <2>1, <4>1
        <5>2. b = x \/ b = x + 1
          BY <1>3, <1>5, <2>1, <4>1
        <5> QED BY <1>5, <2>1, <5>1, <5>2
      <4> QED BY <4>1
    <3> QED BY <1>7, <2>1, <3>1
  <2>3. Shift(b, m, e, y) = Shift(b, m, e, x) + 2
    BY <1>3, <1>5, <2>1, <2>2 DEF Shift
  <2>4. t[Shift(b, m, e, x) + 1] = s[x + 1]
    <3>1. /\ \A i \in 1..b : t[i] = s[i]
          /\ \A i \in e..Len(s) : t[b + Len(m) + 1 + i - e] = s[i]
      BY SMTT(30), SpliceLemma
    <3> HIDE DEF t
    <3>2. CASE y <= b
      BY SMTT(30), <1>3, <1>5, <2>1, <3>1, <3>2 DEF Shift
    <3>3. CASE x >= e
      <4>1. x + 1 \in e..Len(s) /\ Shift(b, m, e, x) + 1 = b + Len(m) + 1 + (x + 1) - e
        BY <1>3, <1>5, <2>1, <3>3 DEF Shift
      <4> QED BY <3>1, <4>1
    <3> QED BY <2>2, <3>2, <3>3
  <2> QED BY <1>8, <1>9, <1>10, <1>12, <2>1, <2>3, <2>4 DEF Tight, Dot
<1> QED BY <1>11, <1>12

\* InjectProfileLine puts the line of part p, alone, into its block, or finds the block
\* without an end; it leaves the other part's block as it was (powershell.go,
\* InjectProfileLine).
LEMMA ProfileLemma ==
    ASSUME NEW s \in Seq(Line), NEW p \in Parts, Apart(s)
    PROVE  LET t == InjectProfileLine(s, p) IN
           /\ t \in Seq(Line) /\ Apart(t) /\ Tight(t, p)
           /\ \A q \in Parts : Tight(s, q) => Tight(t, q)
<1> DEFINE n == Len(s)
           t == InjectProfileLine(s, p)
<1>1. n \in Nat /\ DOMAIN s = 1..n
  BY LenProperties
<1>2. PICK b : b = FirstOf(s, Begin(p), 0)
  OBVIOUS
<1>3. PICK e : e = FirstOf(s, End(p), b)
  OBVIOUS
<1>4. PICK m : m = Block(p)
  OBVIOUS
<1>5. m \in Seq(Line) /\ Len(m) = 3 /\ m[1] = Begin(p) /\ m[2] = Dot(p) /\ m[3] = End(p)
  BY <1>4, BlockLines
<1>6. PICK d : d = <<Dot(p)>>
  OBVIOUS
<1>7. d \in Seq(Line) /\ Len(d) = 1 /\ d[1] = Dot(p) /\ \A q \in Parts : Dot(p) # Begin(q) /\ Dot(p) # End(q)
  BY <1>6, BlockLines
<1>8. \/ b = 0 /\ (\A i \in 1..n : s[i] # Begin(p)) /\ t = Splice(s, n, m, n + 1)
      \/ b \in 1..n /\ s[b] = Begin(p) /\ e = 0 /\ t = s
      \/ /\ b \in 1..n /\ s[b] = Begin(p) /\ e \in (b + 1)..n /\ s[e] = End(p)
         /\ t = Splice(s, b, d, e)
  <2>1. \/ /\ b = 0 /\ \A i \in 1..Len(s) : s[i] # Begin(p)
           /\ t = Splice(s, Len(s), Block(p), Len(s) + 1)
        \/ /\ b \in 1..Len(s) /\ s[b] = Begin(p) /\ e = 0 /\ t = s
        \/ /\ b \in 1..Len(s) /\ s[b] = Begin(p) /\ e \in (b + 1)..Len(s) /\ s[e] = End(p)
           /\ t = Splice(s, b, <<Dot(p)>>, e)
    BY <1>2, <1>3, ProfileForm
  <2> QED BY <1>4, <1>6, <2>1
<1> HIDE DEF t
<1>9. CASE b = 0 /\ (\A i \in 1..n : s[i] # Begin(p)) /\ t = Splice(s, n, m, n + 1)
  <2>1. n \in 0..Len(s) /\ n + 1 \in (n + 1)..(Len(s) + 1) /\ Len(s) = n
    BY <1>1
  <2>2. /\ t \in Seq(Line) /\ Len(t) = n + 3 + n + 1 - (n + 1) /\ DOMAIN t = 1..Len(t)
        /\ \A i \in 1..n : t[i] = s[i]
        /\ \A i \in 1..3 : t[n + i] = m[i]
    <3> HIDE DEF n
    <3>1. IsSplice(t, s, n, m, n + 1)
      BY <1>5, <1>9, <2>1, Spliced
    <3> QED BY <1>5, <2>1, <3>1 DEF IsSplice
  <2>3. Len(t) = n + 3 /\ DOMAIN t = 1..(n + 3)
    BY <1>1, <2>2
  <2>4. t[n + 1] = Begin(p) /\ t[n + 2] = Dot(p) /\ t[n + 3] = End(p)
    BY <1>5, <2>2
  <2>5. \A i \in 1..(n + 3) : i \in 1..n \/ i = n + 1 \/ i = n + 2 \/ i = n + 3
    BY <1>1
  <2>6. Apart(t)
    <3> SUFFICES ASSUME NEW a \in Parts, NEW q \in Parts, NEW i \in 1..(n + 3), NEW k \in 1..(n + 3), NEW j \in 1..(n + 3),
                        i < k, k < j, t[i] = Begin(a), t[j] = End(a), t[k] \in {Begin(q), End(q)}
                 PROVE  FALSE
      BY <2>3 DEF Apart
    <3>1. CASE j \in 1..n
      <4>1. i \in 1..n /\ k \in 1..n
        BY <1>1, <3>1
      <4>2. s[i] = Begin(a) /\ s[j] = End(a) /\ s[k] = t[k]
        BY <2>2, <3>1, <4>1
      <4>3. s[k] \notin {Begin(q), End(q)}
        BY <1>1, <3>1, <4>1, <4>2 DEF Apart
      <4> QED BY <4>2, <4>3
    <3>2. CASE j > n
      <4>1. j = n + 3 /\ a = p
        BY <1>1, <1>7, <2>4, <2>5, <3>2, BlockKinds
      <4>2. i = n + 1 /\ k = n + 2
        BY <1>1, <1>7, <1>9, <2>2, <2>4, <2>5, <4>1, BlockKinds
      <4> QED BY <1>7, <2>4, <4>2
    <3> QED BY <1>1, <3>1, <3>2
  <2>7. Tight(t, p)
    <3>1. FirstOf(t, Begin(p), 0) = n + 1
      <4>1. 0 \in Nat /\ n + 1 \in (0 + 1)..Len(t) /\ t[n + 1] = Begin(p)
        BY <1>1, <2>3, <2>4
      <4>2. \A i \in (0 + 1)..((n + 1) - 1) : t[i] # Begin(p)
        BY <1>1, <1>9, <2>2
      <4> QED BY <2>2, <4>1, <4>2, FirstOfIs
    <3>2. FirstOf(t, End(p), n + 1) = n + 3
      <4>1. n + 1 \in Nat /\ n + 3 \in ((n + 1) + 1)..Len(t) /\ t[n + 3] = End(p)
        BY <1>1, <2>3, <2>4
      <4>2. \A i \in ((n + 1) + 1)..((n + 3) - 1) : t[i] # End(p)
        BY <1>1, <1>7, <2>4
      <4> QED BY <2>2, <4>1, <4>2, FirstOfIs
    <3>3. n + 1 > 0 /\ n + 3 = (n + 1) + 2 /\ (n + 1) + 1 = n + 2
      BY <1>1
    <3> QED BY <2>4, <3>1, <3>2, <3>3 DEF Tight, Dot
  <2>8. ASSUME NEW q \in Parts \ {p}, Tight(s, q) PROVE Tight(t, q)
    <3>1. \A i \in 1..Len(m) : m[i] # Begin(q) /\ m[i] # End(q)
      <4>1. \A i \in 1..3 : i = 1 \/ i = 2 \/ i = 3
        OBVIOUS
      <4> QED BY <1>5, <1>7, <4>1, BlockKinds
    <3>2. \A i \in (n + 1)..((n + 1) - 1) : s[i] # Begin(q) /\ s[i] # End(q)
      BY <1>1
    <3> HIDE DEF n
    <3>3. n = Len(s) /\ n \in 0..Len(s) /\ n + 1 \in (n + 1)..(Len(s) + 1) /\ q \in Parts
      BY <2>1 DEF n
    <3> QED BY <1>5, <1>9, <2>8, <3>1, <3>2, <3>3, StaysTight
  <2>9. \A q \in Parts : Tight(s, q) => Tight(t, q)
    BY <2>7, <2>8
  <2> QED BY <2>2, <2>6, <2>7, <2>9 DEF t
<1>10. CASE b \in 1..n /\ s[b] = Begin(p) /\ e = 0 /\ t = s
  <2>1. Tight(s, p)
    BY <1>1, <1>2, <1>3, <1>10 DEF Tight
  <2>2. t \in Seq(Line) /\ Apart(t) /\ Tight(t, p)
    BY <1>10, <2>1
  <2>3. \A q \in Parts : Tight(s, q) => Tight(t, q)
    BY <1>10
  <2> QED BY <2>2, <2>3 DEF t
<1>11. CASE /\ b \in 1..n /\ s[b] = Begin(p) /\ e \in (b + 1)..n /\ s[e] = End(p)
            /\ t = Splice(s, b, d, e)
  <2>1. b \in 0..Len(s) /\ e \in (b + 1)..(Len(s) + 1)
    BY <1>1, <1>11
  <2>2. /\ t \in Seq(Line) /\ Len(t) = b + Len(d) + Len(s) + 1 - e
        /\ \A i \in 1..b : t[i] = s[i]
        /\ \A i \in 1..Len(d) : t[b + i] = d[i]
        /\ \A i \in e..Len(s) : t[b + Len(d) + 1 + i - e] = s[i]
    <3>1. IsSplice(t, s, b, d, e)
      BY <1>7, <1>11, <2>1, Spliced
    <3> QED BY <3>1 DEF IsSplice
  <2>3. Apart(t)
    <3>1. \A i \in DOMAIN d, q \in Parts : d[i] \notin {Begin(q), End(q)}
      <4>1. DOMAIN d = 1..1
        BY <1>7, LenProperties
      <4>2. \A i \in 1..1 : i = 1
        OBVIOUS
      <4> QED BY <1>7, <4>1, <4>2
    <3> QED BY <1>7, <1>11, <2>1, <3>1, SpliceApart
  <2>4. Len(t) = b + 2 + n - e /\ t[b + 1] = Dot(p) /\ t[b + 2] = End(p) /\ t[b] = Begin(p)
    <3>1. b + Len(d) + 1 + e - e = b + 2 /\ e \in e..Len(s) /\ 1 \in 1..Len(d) /\ b \in 1..b
      BY <1>1, <1>7, <1>11
    <3>2. Len(t) = b + 2 + n - e
      BY <1>1, <1>7, <1>11, <2>2
    <3>3. t[b + 2] = End(p)
      BY <1>11, <2>2, <3>1
    <3> QED BY <1>7, <1>11, <2>2, <3>1, <3>2, <3>3
  <2>5. Tight(t, p)
    <3>1. FirstOf(t, Begin(p), 0) = b
      <4>1. 0 \in Nat /\ b \in (0 + 1)..Len(t)
        BY <1>1, <1>11, <2>4
      <4>2. \A i \in (0 + 1)..(b - 1) : s[i] # Begin(p)
        <5>1. \A i \in (0 + 1)..Len(s) : s[i] = Begin(p) => b <= i
          BY <1>1, <1>2, <1>11, FirstOfLemma
        <5> QED BY <1>1, <1>11, <5>1
      <4>3. \A i \in (0 + 1)..(b - 1) : t[i] # Begin(p)
        BY <1>1, <1>11, <2>2, <4>2
      <4> QED BY <2>2, <2>4, <4>1, <4>3, FirstOfIs
    <3>2. FirstOf(t, End(p), b) = b + 2
      <4>1. b \in Nat /\ b + 2 \in (b + 1)..Len(t)
        BY <1>1, <1>11, <2>4
      <4>2. \A i \in (b + 1)..((b + 2) - 1) : t[i] # End(p)
        BY <1>1, <1>7, <1>11, <2>4
      <4> QED BY <2>2, <2>4, <4>1, <4>2, FirstOfIs
    <3> QED BY <1>1, <1>11, <2>4, <3>1, <3>2 DEF Tight, Dot
  <2>6. ASSUME NEW q \in Parts \ {p}, Tight(s, q) PROVE Tight(t, q)
    <3>1. \A i \in 1..Len(d) : d[i] # Begin(q) /\ d[i] # End(q)
      <4>1. \A i \in 1..1 : i = 1
        OBVIOUS
      <4> QED BY <1>7, <4>1
    <3>2. \A i \in (b + 1)..(e - 1) : s[i] # Begin(q) /\ s[i] # End(q)
      BY <1>1, <1>11 DEF Apart
    <3>3. b > 0 /\ \A r \in Parts : s[b] # Dot(r) /\ s[b] # Begin(q)
      BY <1>1, <1>11, BlockLines, BlockKinds
    <3> QED BY <1>7, <1>11, <2>1, <2>6, <3>1, <3>2, <3>3, StaysTight
  <2>7. \A q \in Parts : Tight(s, q) => Tight(t, q)
    BY <2>5, <2>6
  <2> QED BY <2>2, <2>3, <2>5, <2>7 DEF t
<1> QED BY <1>8, <1>9, <1>10, <1>11

\* A tight block is left as it is.
LEMMA TightIsLeft ==
    ASSUME NEW s \in Seq(Line), NEW p \in Parts, Tight(s, p)
    PROVE  InjectProfileLine(s, p) = s
<1> DEFINE t == InjectProfileLine(s, p)
<1>1. Len(s) \in Nat
  BY LenProperties
<1>2. PICK b : b = FirstOf(s, Begin(p), 0)
  OBVIOUS
<1>3. PICK e : e = FirstOf(s, End(p), b)
  OBVIOUS
<1>4. b > 0 /\ (e = 0 \/ (e = b + 2 /\ s[b + 1] = Dot(p)))
  BY <1>2, <1>3 DEF Tight, Dot
<1>5. PICK d : d = <<Dot(p)>>
  OBVIOUS
<1>6. d \in Seq(Line) /\ Len(d) = 1 /\ d[1] = Dot(p)
  BY <1>5, BlockLines
<1>7. CASE t = s
  BY <1>7
<1>8. CASE b \in 1..Len(s) /\ e \in (b + 1)..Len(s) /\ t = Splice(s, b, d, e)
  <2>1. b \in 0..Len(s) /\ e \in (b + 1)..(Len(s) + 1) /\ e = b + 2
    BY <1>1, <1>4, <1>8
  <2>2. /\ t \in Seq(Line) /\ Len(t) = b + Len(d) + Len(s) + 1 - e
        /\ \A i \in 1..b : t[i] = s[i]
        /\ \A i \in 1..Len(d) : t[b + i] = d[i]
        /\ \A i \in e..Len(s) : t[b + Len(d) + 1 + i - e] = s[i]
    <3>1. IsSplice(t, s, b, d, e)
      BY <1>6, <1>8, <2>1, Spliced
    <3> QED BY <3>1 DEF IsSplice
  <2> HIDE DEF t
  <2>3. Len(t) = Len(s)
    BY <1>1, <1>6, <2>1, <2>2
  <2>4. ASSUME NEW i \in 1..Len(s) PROVE t[i] = s[i]
    <3>1. CASE i <= b
      BY <2>2, <3>1
    <3>2. CASE i = b + 1
      BY <1>4, <1>6, <2>1, <2>2, <3>2
    <3>3. CASE i > b + 1
      <4>1. i \in e..Len(s) /\ b + Len(d) + 1 + i - e = i
        BY <1>1, <1>6, <2>1, <3>3
      <4> QED BY <2>2, <4>1
    <3> QED BY <1>1, <2>1, <3>1, <3>2, <3>3
  <2> QED BY <2>2, <2>3, <2>4, SeqEqual DEF t
<1> QED BY <1>1, <1>2, <1>3, <1>4, <1>5, <1>7, <1>8, ProfileForm

\* The user's edits leave blocks apart, and so does a write that is cut short.
LEMMA EditLemma ==
    ASSUME NEW s \in Seq(Line)
    PROVE  /\ \A i \in 1..(Len(s) + 1) : /\ InsertAt(s, i, User("2")) \in Seq(Line)
                                         /\ Apart(s) => Apart(InsertAt(s, i, User("2")))
           /\ \A i \in 1..Len(s) : /\ RemoveAt(s, i) \in Seq(Line)
                                   /\ Apart(s) => Apart(RemoveAt(s, i))
           /\ <<>> \in Seq(Line) /\ Apart(<<>>)
<1>1. Len(s) \in Nat /\ \A i \in 1..Len(s) : s[i] \in Line
  BY ElementOfSeq, LenProperties
<1>2. ASSUME NEW i \in 1..(Len(s) + 1)
      PROVE  /\ InsertAt(s, i, User("2")) \in Seq(Line)
             /\ Apart(s) => Apart(InsertAt(s, i, User("2")))
  <2> DEFINE m == <<User("2")>>
  <2>1. m \in Seq(Line) /\ \A k \in DOMAIN m, p \in Parts : m[k] \notin {Begin(p), End(p)}
    BY LineKinds
  <2>2. i - 1 \in 0..Len(s) /\ i \in (i - 1 + 1)..(Len(s) + 1)
    BY <1>1
  <2>3. InsertAt(s, i, User("2")) = Splice(s, i - 1, m, i)
    BY DEF InsertAt, Splice
  <2> HIDE DEF m
  <2>4. Splice(s, i - 1, m, i) \in Seq(Line)
    BY <2>1, <2>2, SpliceLemma
  <2>5. Apart(s) => Apart(Splice(s, i - 1, m, i))
    BY <2>1, <2>2, SpliceApart
  <2> QED BY <2>3, <2>4, <2>5
<1>3. ASSUME NEW i \in 1..Len(s)
      PROVE  RemoveAt(s, i) \in Seq(Line) /\ (Apart(s) => Apart(RemoveAt(s, i)))
  <2>1. <<>> \in Seq(Line) /\ DOMAIN <<>> = {}
    BY LenProperties, EmptySeq
  <2>2. i - 1 \in 0..Len(s) /\ i + 1 \in (i - 1 + 1)..(Len(s) + 1)
    BY <1>1
  <2>3. RemoveAt(s, i) = Splice(s, i - 1, <<>>, i + 1)
    <3>1. SubSeq(s, 1, i - 1) \in Seq(Line)
      BY <1>1, SubSeqProperties
    <3>2. SubSeq(s, 1, i - 1) \o <<>> = SubSeq(s, 1, i - 1)
      BY <3>1, ConcatEmptySeq
    <3> QED BY <3>2 DEF RemoveAt, Splice
  <2>4. Splice(s, i - 1, <<>>, i + 1) \in Seq(Line)
    BY <2>1, <2>2, SpliceLemma
  <2>5. Apart(s) => Apart(Splice(s, i - 1, <<>>, i + 1))
    BY <2>1, <2>2, SpliceApart
  <2> QED BY <2>3, <2>4, <2>5
<1>4. <<>> \in Seq(Line) /\ Apart(<<>>)
  BY EmptySeq DEF Apart
<1> QED BY <1>2, <1>3, <1>4

-----------------------------------------------------------------------------
(* A POSIX start-up file: one block for both parts.                        *)

ShFiles == {"env.sh", "shell.sh"}

\* The last line of the block that sources fragment f is this host's.
Latest(s, f) ==
  LET m == FirstOf(s, Marker, 0)
      e == BlockEnd(s, m)
  IN  m > 0 /\ \E i \in (m + 1)..e : s[i] = Source(f, "here") /\ \A j \in (i + 1)..e : s[j][2] # f

\* Such a block is this host's, in order, and nothing besides.
Neat(s) ==
  LET m == FirstOf(s, Marker, 0)
      e == BlockEnd(s, m)
  IN  m > 0 => e <= m + 2 /\ (e = m + 2 => s[m + 1][2] = "env.sh" /\ s[m + 2][2] = "shell.sh")

\* BlockEnd is where the run of managed lines under the marker ends, and nowhere else.
LEMMA BlockEndLemma ==
    ASSUME NEW s \in Seq(Line), NEW m \in 1..Len(s)
    PROVE  /\ BlockEnd(s, m) \in m..Len(s)
           /\ \A i \in (m + 1)..BlockEnd(s, m) : Managed(s[i])
           /\ \A e \in m..Len(s) :
                (\A i \in (m + 1)..e : Managed(s[i])) /\ (e = Len(s) \/ ~Managed(s[e + 1])) => e = BlockEnd(s, m)
<1> DEFINE n == Len(s)
           Ok(e) == /\ \A i \in (m + 1)..e : Managed(s[i])
                    /\ e = n \/ ~Managed(s[e + 1])
           D == {e \in m..n : \A i \in (m + 1)..e : Managed(s[i])}
<1>1. n \in Nat
  BY LenProperties
<1>2. D \subseteq 1..n /\ m \in D
  BY <1>1
<1>3. PICK e \in D : \A x \in D : x <= e
  BY <1>1, <1>2, MaxLemma
<1>4. Ok(e)
  <2>1. ASSUME e # n, Managed(s[e + 1]) PROVE FALSE
    <3>1. e + 1 \in m..n
      BY <1>1, <1>3, <2>1
    <3>2. \A i \in (m + 1)..(e + 1) : i \in (m + 1)..e \/ i = e + 1
      BY <1>1, <1>3
    <3>3. e + 1 \in D
      BY <1>3, <2>1, <3>1, <3>2
    <3> QED BY <1>1, <1>3, <3>3
  <2> QED BY <1>3, <2>1
<1>5. ASSUME NEW x \in m..n, NEW y \in m..n, Ok(x), Ok(y), x < y PROVE FALSE
  <2>1. x + 1 \in (m + 1)..y /\ x # n
    BY <1>1, <1>5
  <2> QED BY <1>5, <2>1
<1>6. BlockEnd(s, m) = CHOOSE x \in m..n : Ok(x)
  BY DEF BlockEnd
<1>7. BlockEnd(s, m) \in m..n /\ Ok(BlockEnd(s, m))
  BY <1>3, <1>4, <1>6
<1> HIDE DEF Ok
<1>8. \A x \in m..n : Ok(x) => x = BlockEnd(s, m)
  BY <1>1, <1>5, <1>7
<1> QED BY <1>7, <1>8 DEF Ok

\* What a block keeps for the fragment that is not being injected.
LastOf(s, m, e, n) == CHOOSE i \in (m + 1)..e : s[i][2] = n /\ \A j \in (i + 1)..e : s[j][2] # n

\* A block that sources fragment n has a last line that does.
LEMMA LastOfBlock ==
    ASSUME NEW s \in Seq(Line), NEW m \in 1..Len(s), NEW e \in m..Len(s), NEW n,
           NEW some \in (m + 1)..e, s[some][2] = n
    PROVE  LET i == LastOf(s, m, e, n) IN
           i \in (m + 1)..e /\ s[i][2] = n /\ \A j \in (i + 1)..e : s[j][2] # n
<1> DEFINE at == {i \in (m + 1)..e : s[i][2] = n}
<1>1. Len(s) \in Nat
  BY LenProperties
<1>2. at \subseteq 1..Len(s) /\ at # {} /\ some \in at
  BY <1>1
<1>3. PICK x \in at : x \in Nat /\ \A i \in at : i <= x
  <2>1. Max(at) \in at /\ \A y \in at : Max(at) >= y
    BY <1>1, <1>2, MaxLemma
  <2>2. at \subseteq Nat
    BY <1>1, <1>2
  <2> HIDE DEF at
  <2> QED BY <2>1, <2>2
<1>4. ASSUME NEW j \in (x + 1)..e, s[j][2] = n PROVE FALSE
  <2>1. j \in at
    BY <1>1, <1>3, <1>4
  <2> QED BY <1>1, <1>3, <2>1
<1>5. \E i \in (m + 1)..e : s[i][2] = n /\ \A j \in (i + 1)..e : s[j][2] # n
  BY <1>3, <1>4
<1> QED BY <1>5 DEF LastOf

KeptFor(s, f, n) ==
  LET m == FirstOf(s, Marker, 0)
      e == BlockEnd(s, m)
      last == LastOf(s, m, e, n)
  IN  IF n = f THEN <<Source(f, "here")>>
      ELSE IF \E i \in (m + 1)..e : s[i][2] = n THEN <<s[last]>> ELSE <<>>

\* For each fragment a block keeps at most one line, the last one, the new one for f.
LEMMA KeptLemma ==
    ASSUME NEW s \in Seq(Line), NEW f \in ShFiles, NEW n \in ShFiles, FirstOf(s, Marker, 0) # 0,
           NEW m, m = FirstOf(s, Marker, 0), NEW e, e = BlockEnd(s, m)
    PROVE  LET k == KeptFor(s, f, n) IN
           /\ k \in Seq(Line)
           /\ \/ k = <<>>
              \/ Len(k) = 1 /\ Managed(k[1]) /\ k[1][2] = n
           /\ n = f \/ Latest(s, n) => k = <<Source(n, "here")>>
<1> DEFINE last == LastOf(s, m, e, n)
           k == KeptFor(s, f, n)
<1>1. m \in 1..Len(s) /\ Len(s) \in Nat /\ \A i \in 1..Len(s) : s[i] \in Line
  BY FirstOfLemma, LenProperties, ElementOfSeq
<1>2. e \in m..Len(s) /\ \A i \in (m + 1)..e : Managed(s[i])
  BY <1>1, BlockEndLemma
<1>3. k = IF n = f THEN <<Source(f, "here")>>
          ELSE IF \E i \in (m + 1)..e : s[i][2] = n THEN <<s[last]>> ELSE <<>>
  BY DEF KeptFor
<1>4. Latest(s, n) => \E i \in (m + 1)..e : s[i] = Source(n, "here") /\ \A j \in (i + 1)..e : s[j][2] # n
  BY DEF Latest
<1>5. /\ Source(n, "here") \in Line /\ Managed(Source(n, "here")) /\ Source(n, "here")[2] = n
  BY DEF Source, Line, FragmentFiles, FileOf, Backends, Parts, ShFiles, Managed
<1>6. CASE n = f
  BY <1>3, <1>5, <1>6, EmptySeq
<1>7. CASE n # f /\ \E i \in (m + 1)..e : s[i][2] = n
  <2>1. m \in 1..Len(s) /\ e \in m..Len(s)
    BY <1>1, <1>2
  <2>2. PICK some \in (m + 1)..e : s[some][2] = n
    BY <1>7
  <2>3. last \in (m + 1)..e /\ s[last][2] = n /\ \A j \in (last + 1)..e : s[j][2] # n
    BY SMTT(30), <2>1, <2>2, LastOfBlock
  <2> HIDE DEF last
  <2>4. k = <<s[last]>> /\ s[last] \in Line /\ Managed(s[last])
    BY <1>1, <1>2, <1>3, <1>7, <2>3
  <2>5. Latest(s, n) => s[last] = Source(n, "here")
    <3>1. ASSUME NEW i \in (m + 1)..e, s[i] = Source(n, "here"), \A j \in (i + 1)..e : s[j][2] # n
          PROVE  i = last
      <4>1. ~(i < last)
        BY <1>1, <1>2, <2>3, <3>1
      <4>2. ~(last < i)
        BY <1>1, <1>2, <1>5, <2>3, <3>1
      <4> QED BY <1>1, <1>2, <2>3, <4>1, <4>2
    <3> QED BY <1>4, <3>1
  <2> QED BY <1>7, <2>3, <2>4, <2>5
<1>8. CASE n # f /\ ~\E i \in (m + 1)..e : s[i][2] = n
  <2>1. k = <<>>
    BY <1>3, <1>8
  <2>2. ~Latest(s, n)
    BY <1>4, <1>5, <1>8
  <2> QED BY <1>8, <2>1, <2>2, EmptySeq
<1> QED BY <1>6, <1>7, <1>8 DEF k

\* ReplaceOrAppend adds a block, or replaces the lines of the first one.
LEMMA PosixForm ==
    ASSUME NEW s \in Seq(Line), NEW f \in ShFiles,
           NEW m, m = FirstOf(s, Marker, 0), NEW e, e = BlockEnd(s, m)
    PROVE  LET t == ReplaceOrAppend(s, f) IN
           \/ /\ m = 0 /\ t = Splice(s, Len(s), <<Marker, Source(f, "here")>>, Len(s) + 1)
           \/ /\ m \in 1..Len(s) /\ s[m] = Marker /\ e \in m..Len(s)
              /\ t = Splice(s, m, KeptFor(s, f, "env.sh") \o KeptFor(s, f, "shell.sh"), e + 1)
<1> DEFINE t == ReplaceOrAppend(s, f)
           x == KeptFor(s, f, "env.sh")
           y == KeptFor(s, f, "shell.sh")
           l == SubSeq(s, 1, m)
<1>1. Len(s) \in Nat
  BY LenProperties
<1>2. CASE m = 0
  <2>1. t = s \o <<Marker, Source(f, "here")>>
    BY <1>2 DEF ReplaceOrAppend
  <2>2. Source(f, "here") \in Line /\ Marker \in Line
    BY LineKinds DEF Source, Line, FragmentFiles, FileOf, Backends, Parts, ShFiles
  <2>3. <<Marker, Source(f, "here")>> \in Seq(Line)
    BY <2>2
  <2>4. t = Splice(s, Len(s), <<Marker, Source(f, "here")>>, Len(s) + 1)
    BY <2>1, <2>3, AppendIsSplice
  <2> QED BY <1>2, <2>4
<1>3. CASE m # 0
  <2>1. m \in 1..Len(s) /\ s[m] = Marker
    BY <1>1, <1>3, FirstOfLemma
  <2>2. e \in m..Len(s)
    BY <2>1, BlockEndLemma
  <2>3. t = SubSeq(s, 1, m) \o KeptFor(s, f, "env.sh") \o KeptFor(s, f, "shell.sh") \o SubSeq(s, e + 1, Len(s))
    <3>1. FirstOf(s, Marker, 0) # 0
      BY <1>3
    <3>2. t = SubSeq(s, 1, FirstOf(s, Marker, 0)) \o KeptFor(s, f, "env.sh") \o KeptFor(s, f, "shell.sh")
              \o SubSeq(s, BlockEnd(s, FirstOf(s, Marker, 0)) + 1, Len(s))
      BY <3>1 DEF ReplaceOrAppend, KeptFor, LastOf
    <3> QED BY <3>2
  <2>4. x \in Seq(Line) /\ y \in Seq(Line)
    BY <1>3, KeptLemma DEF ShFiles
  <2>5. l \in Seq(Line)
    BY <1>1, <2>1, SubSeqProperties, ElementOfSeq
  <2>6. t = ((l \o x) \o y) \o SubSeq(s, e + 1, Len(s))
    BY <2>3
  <2>7. (l \o x) \o y = l \o (x \o y)
    <3> HIDE DEF l, x, y
    <3> QED BY SMTT(30), <2>4, <2>5, ConcatAssociative
  <2>8. t = Splice(s, m, x \o y, e + 1)
    BY <2>6, <2>7 DEF Splice
  <2> QED BY <2>1, <2>2, <2>8
<1> QED BY <1>2, <1>3

\* After ReplaceOrAppend the last line of the block for fragment f is this host's, what
\* was so for the other fragment still is, and nothing else is in the block (env.go,
\* replaceOrAppendBlock).
LEMMA PosixLemma ==
    ASSUME NEW s \in Seq(Line), NEW f \in ShFiles
    PROVE  LET t == ReplaceOrAppend(s, f) IN
           /\ t \in Seq(Line) /\ Latest(t, f) /\ Neat(t)
           /\ \A g \in ShFiles : Latest(s, g) => Latest(t, g)
<1> DEFINE m == FirstOf(s, Marker, 0)
           e == BlockEnd(s, m)
           n == Len(s)
           t == ReplaceOrAppend(s, f)
<1>1. n \in Nat /\ DOMAIN s = 1..n
  BY LenProperties
<1>2. \A g \in ShFiles : Source(g, "here") \in Line /\ Managed(Source(g, "here")) /\ Source(g, "here")[2] = g
  BY DEF Source, Line, FragmentFiles, FileOf, Backends, Parts, ShFiles, Managed
<1>3. Marker \in Line /\ ~Managed(Marker)
  BY LineKinds DEF Marker, Managed
<1>4. CASE m = 0
  <2> DEFINE w == <<Marker, Source(f, "here")>>
             u == Splice(s, n, w, n + 1)
  <2>1. w \in Seq(Line) /\ Len(w) = 2 /\ w[1] = Marker /\ w[2] = Source(f, "here")
    BY <1>2, <1>3
  <2>2. t = u
    BY <1>4, PosixForm
  <2> HIDE DEF w
  <2>3. /\ u \in Seq(Line) /\ Len(u) = n + 2
        /\ \A i \in 1..n : u[i] = s[i]
        /\ u[n + 1] = Marker /\ u[n + 2] = Source(f, "here")
    <3> HIDE DEF n
    <3>1. s \in Seq(Line) /\ w \in Seq(Line) /\ n \in 0..Len(s) /\ n + 1 \in (n + 1)..(Len(s) + 1)
      BY <1>1, <2>1 DEF n
    <3>2. /\ u \in Seq(Line) /\ Len(u) = n + Len(w) + Len(s) + 1 - (n + 1)
          /\ \A i \in 1..n : u[i] = s[i]
          /\ \A i \in 1..Len(w) : u[n + i] = w[i]
      BY <3>1, SpliceLemma
    <3> HIDE DEF u
    <3>3. Len(u) = n + 2
      BY <1>1, <2>1, <3>2 DEF n
    <3> QED BY <2>1, <3>2, <3>3
  <2> HIDE DEF u
  <2>4. \A i \in 1..n : s[i] # Marker
    BY <1>1, <1>4, FirstOfLemma
  <2>5. FirstOf(u, Marker, 0) = n + 1
    <3> DEFINE x == FirstOf(u, Marker, 0)
    <3>1. \/ x = 0 /\ \A i \in (0 + 1)..Len(u) : u[i] # Marker
          \/ /\ x \in (0 + 1)..Len(u) /\ u[x] = Marker
             /\ \A i \in (0 + 1)..Len(u) : u[i] = Marker => x <= i
      BY <2>3, FirstOfLemma
    <3> HIDE DEF x
    <3>2. n + 1 \in (0 + 1)..Len(u)
      BY <1>1, <2>3
    <3>3. x \in 1..(n + 1) /\ u[x] = Marker
      BY <1>1, <2>3, <3>1, <3>2
    <3>4. x \notin 1..n
      BY <2>3, <2>4, <3>3
    <3> QED BY <1>1, <3>3, <3>4 DEF x
  <2>6. BlockEnd(u, n + 1) = n + 2
    <3>1. n + 1 \in 1..Len(u) /\ n + 2 \in (n + 1)..Len(u) /\ \A i \in (n + 1 + 1)..(n + 2) : i = n + 2
      BY <1>1, <2>3
    <3>2. \A i \in (n + 1 + 1)..(n + 2) : Managed(u[i])
      BY <1>2, <2>3, <3>1
    <3> QED BY <2>3, <3>1, <3>2, BlockEndLemma
  <2>7. Latest(u, f)
    <3>1. n + 2 \in (n + 1 + 1)..(n + 2) /\ n + 1 > 0 /\ ((n + 2) + 1)..(n + 2) = {}
      BY <1>1
    <3> QED BY <2>3, <2>5, <2>6, <3>1 DEF Latest
  <2>8. \A g : ~Latest(s, g)
    BY <1>4 DEF Latest
  <2>9. Neat(u)
    BY <1>1, <2>5, <2>6 DEF Neat
  <2> QED BY <2>2, <2>3, <2>7, <2>8, <2>9
<1>5. CASE m # 0
  <2> DEFINE K(g) == KeptFor(s, f, g)
             w == K("env.sh") \o K("shell.sh")
             u == Splice(s, m, w, e + 1)
  <2>1. /\ m \in 1..n /\ s[m] = Marker /\ \A i \in 1..n : s[i] = Marker => m <= i
    BY <1>1, <1>5, FirstOfLemma
  <2>2. e \in m..n /\ (e = n \/ ~Managed(s[e + 1]))
    <3>1. e \in m..Len(s) /\ (e = Len(s) \/ ~Managed(s[e + 1]))
      BY <2>1, BlockEndLemma DEF BlockEnd
    <3> QED BY <3>1
  <2>3. \A g \in ShFiles : /\ K(g) \in Seq(Line)
                           /\ K(g) = <<>> \/ (Len(K(g)) = 1 /\ Managed(K(g)[1]) /\ K(g)[1][2] = g)
                           /\ g = f \/ Latest(s, g) => K(g) = <<Source(g, "here")>>
    BY <1>5, KeptLemma
  <2>4. t = u
    BY <1>5, PosixForm
  <2> HIDE DEF K, m, e
  <2> DEFINE a == Len(K("env.sh"))
             c == Len(K("shell.sh"))
  <2>5. /\ w \in Seq(Line) /\ Len(w) = a + c /\ a \in {0, 1} /\ c \in {0, 1}
        /\ \A i \in 1..(a + c) : w[i] = IF i <= a THEN K("env.sh")[i] ELSE K("shell.sh")[i - a]
    BY <2>3, ConcatProperties, LenProperties, EmptySeq DEF ShFiles
  <2>6. /\ a = 1 => w[1] = K("env.sh")[1] /\ Managed(w[1]) /\ w[1][2] = "env.sh"
        /\ c = 1 => w[a + 1] = K("shell.sh")[1] /\ Managed(w[a + 1]) /\ w[a + 1][2] = "shell.sh"
    BY <2>3, <2>5 DEF ShFiles
  <2> HIDE DEF w, a, c, n
  <2>a. n = Len(s) /\ n \in Nat /\ m \in Nat /\ e \in Nat /\ 1 <= m /\ m <= e /\ e <= n
    <3>1. n = Len(s)
      BY DEF n
    <3>2. n \in Nat
      BY <1>1
    <3>3. m \in 1..n
      BY <2>1
    <3>4. e \in m..n
      BY <2>2
    <3> QED BY <3>1, <3>2, <3>3, <3>4
  <2>7. \A i \in 1..(a + c) : (i = 1 /\ a = 1) \/ (i = a + 1 /\ c = 1)
    BY <2>5
  <2>8. /\ u \in Seq(Line) /\ Len(u) = m + a + c + n - e
        /\ \A i \in 1..m : u[i] = s[i]
        /\ \A i \in 1..(a + c) : u[m + i] = w[i]
        /\ e < n => u[m + a + c + 1] = s[e + 1]
    <3>1. m \in 0..Len(s) /\ e + 1 \in (m + 1)..(Len(s) + 1)
      BY <2>a
    <3>2. /\ u \in Seq(Line) /\ Len(u) = m + Len(w) + Len(s) + 1 - (e + 1)
          /\ \A i \in 1..m : u[i] = s[i]
          /\ \A i \in 1..Len(w) : u[m + i] = w[i]
          /\ \A i \in (e + 1)..Len(s) : u[m + Len(w) + 1 + i - (e + 1)] = s[i]
      <4>1. w \in Seq(Line)
        BY <2>5
      <4>2. ASSUME NEW b \in 0..Len(s), NEW c1 \in (b + 1)..(Len(s) + 1)
            PROVE  LET v == Splice(s, b, w, c1) IN
                   /\ v \in Seq(Line) /\ Len(v) = b + Len(w) + Len(s) + 1 - c1
                   /\ \A i \in 1..b : v[i] = s[i]
                   /\ \A i \in 1..Len(w) : v[b + i] = w[i]
                   /\ \A i \in c1..Len(s) : v[b + Len(w) + 1 + i - c1] = s[i]
        BY <4>1, SpliceLemma
      <4> QED BY <3>1, <4>2
    <3> HIDE DEF u
    <3>3. Len(u) = m + a + c + n - e
      <4>1. Len(u) = m + Len(w) + n + 1 - (e + 1) /\ Len(w) = a + c /\ a \in Nat /\ c \in Nat
        BY <2>a, <2>5, <3>2
      <4> QED BY <2>a, <4>1
    <3>4. e < n => e + 1 \in (e + 1)..Len(s) /\ m + Len(w) + 1 + (e + 1) - (e + 1) = m + a + c + 1
      BY <2>a, <2>5
    <3> QED BY <2>5, <3>2, <3>3, <3>4
  <2> HIDE DEF u
  <2>9. FirstOf(u, Marker, 0) = m
    <3> DEFINE x == FirstOf(u, Marker, 0)
    <3>1. \/ x = 0 /\ \A i \in (0 + 1)..Len(u) : u[i] # Marker
          \/ /\ x \in (0 + 1)..Len(u) /\ u[x] = Marker
             /\ \A i \in (0 + 1)..Len(u) : u[i] = Marker => x <= i
      BY <2>8, FirstOfLemma
    <3> HIDE DEF x
    <3>2. m \in (0 + 1)..Len(u) /\ u[m] = Marker
      BY <2>a, <2>1, <2>2, <2>5, <2>8
    <3>3. x \in 1..m /\ u[x] = Marker
      BY <2>a, <2>1, <3>1, <3>2
    <3>4. s[x] = Marker /\ x \in 1..n
      BY <2>a, <2>1, <2>8, <3>3
    <3>5. m <= x
      BY <2>1, <3>4
    <3> QED BY <2>a, <2>1, <3>3, <3>5 DEF x
  <2>10. BlockEnd(u, m) = m + a + c
    <3> DEFINE y == m + a + c
    <3>1. m \in 1..Len(u) /\ y \in m..Len(u)
      BY <2>a, <2>1, <2>2, <2>5, <2>8
    <3>2. ASSUME NEW i \in (m + 1)..y PROVE Managed(u[i])
      <4>1. i - m \in 1..(a + c) /\ m + (i - m) = i
        BY SMTT(30), <2>a, <2>1, <2>5
      <4>2. Managed(w[i - m])
        BY <2>6, <2>7, <4>1
      <4> QED BY <2>8, <4>1, <4>2
    <3>3. y = Len(u) \/ ~Managed(u[y + 1])
      <4>1. CASE e = n
        BY <2>a, <2>1, <2>2, <2>5, <2>8, <4>1
      <4>2. CASE e < n
        BY <2>a, <2>2, <2>8, <4>2
      <4> QED BY <2>a, <2>1, <2>2, <4>1, <4>2
    <3> HIDE DEF y
    <3>4. y = BlockEnd(u, m)
      BY <2>8, <3>1, <3>2, <3>3, BlockEndLemma
    <3> QED BY <3>4 DEF y
  <2>11. ASSUME NEW g \in ShFiles, g = f \/ Latest(s, g) PROVE Latest(u, g)
    <3>1. K(g) = <<Source(g, "here")>>
      BY <2>3, <2>11
    <3>2. Len(K(g)) = 1 /\ K(g)[1] = Source(g, "here")
      BY <3>1
    <3>3. PICK i \in 1..(a + c) : w[i] = Source(g, "here") /\ \A j \in (i + 1)..(a + c) : w[j][2] # g
      <4>1. CASE g = "env.sh"
        <5>1. a = 1 /\ 1 \in 1..(a + c) /\ w[1] = Source(g, "here")
          BY <2>5, <2>6, <3>2, <4>1 DEF a
        <5>2. \A j \in (1 + 1)..(a + c) : j = a + 1 /\ c = 1
          BY <2>5, <5>1
        <5> QED BY <2>6, <4>1, <5>1, <5>2
      <4>2. CASE g = "shell.sh"
        <5>1. c = 1 /\ a + 1 \in 1..(a + c) /\ w[a + 1] = Source(g, "here")
          BY <2>5, <2>6, <3>2, <4>2 DEF c
        <5>2. ((a + 1) + 1)..(a + c) = {}
          BY <2>5, <5>1
        <5> QED BY <5>1, <5>2
      <4> QED BY <4>1, <4>2 DEF ShFiles
    <3>4. m + i \in (m + 1)..(m + a + c) /\ u[m + i] = Source(g, "here")
      BY <2>a, <2>1, <2>5, <2>8, <3>3
    <3>5. ASSUME NEW j \in (m + i + 1)..(m + a + c) PROVE u[j][2] # g
      <4>1. j - m \in (i + 1)..(a + c) /\ j - m \in 1..(a + c) /\ m + (j - m) = j
        BY <2>a, <2>1, <2>5, <3>3
      <4> QED BY <2>8, <3>3, <4>1
    <3>6. m > 0
      BY <2>a, <2>1
    <3> QED BY <2>9, <2>10, <3>4, <3>5, <3>6 DEF Latest
  <2>12. Neat(u)
    <3>1. m + a + c <= m + 2
      BY <2>a, <2>5
    <3>2. ASSUME m + a + c = m + 2 PROVE u[m + 1][2] = "env.sh" /\ u[m + 2][2] = "shell.sh"
      <4>1. a = 1 /\ c = 1
        BY <2>a, <2>5, <3>2
      <4>2. 1 \in 1..(a + c) /\ 2 \in 1..(a + c) /\ a + 1 = 2
        BY <4>1
      <4> QED BY <2>6, <2>8, <4>1, <4>2
    <3> QED BY <2>9, <2>10, <3>1, <3>2 DEF Neat
  <2> QED BY <2>4, <2>8, <2>11, <2>12
<1> QED BY <1>4, <1>5

\* A block that is neat and has this host's line is left as it is.
LEMMA NeatIsLeft ==
    ASSUME NEW s \in Seq(Line), NEW f \in ShFiles, Neat(s), Latest(s, f)
    PROVE  ReplaceOrAppend(s, f) = s
<1> DEFINE K(g) == KeptFor(s, f, g)
           t == ReplaceOrAppend(s, f)
<1>1. Len(s) \in Nat /\ \A i \in 1..Len(s) : s[i] \in Line
  BY LenProperties, ElementOfSeq
<1>2. PICK m : m = FirstOf(s, Marker, 0)
  OBVIOUS
<1>3. PICK e : e = BlockEnd(s, m)
  OBVIOUS
<1>4. m # 0 /\ m \in 1..Len(s) /\ e \in m..Len(s) /\ t = Splice(s, m, K("env.sh") \o K("shell.sh"), e + 1)
  <2>1. m # 0
    BY <1>2 DEF Latest
  <2> QED BY <1>2, <1>3, <2>1, PosixForm
<1>5. PICK i \in (m + 1)..e : s[i] = Source(f, "here") /\ \A j \in (i + 1)..e : s[j][2] # f
  BY <1>2, <1>3 DEF Latest
<1>6. /\ e <= m + 2 /\ (e = m + 2 => s[m + 1][2] = "env.sh" /\ s[m + 2][2] = "shell.sh")
  BY <1>1, <1>2, <1>3, <1>4 DEF Neat
<1>7. s[i][2] = f
  BY <1>5 DEF Source
<1>8. \A g : K(g) = IF g = f THEN <<Source(f, "here")>>
                    ELSE IF \E j \in (m + 1)..e : s[j][2] = g THEN <<s[LastOf(s, m, e, g)]>> ELSE <<>>
  BY <1>2, <1>3 DEF KeptFor
<1>9. ASSUME NEW g, NEW j \in (m + 1)..e, s[j][2] = g, \A k \in (m + 1)..e : s[k][2] = g => k = j
      PROVE  K(g) = <<s[j]>>
  <2>1. CASE g = f
    <3>1. i = j
      BY <1>7, <1>9, <2>1
    <3> QED BY <1>5, <1>8, <2>1, <3>1
  <2>2. CASE g # f
    <3>1. PICK k : k = LastOf(s, m, e, g)
      OBVIOUS
    <3>2. k \in (m + 1)..e /\ s[k][2] = g
      BY <1>4, <1>9, <3>1, LastOfBlock
    <3>3. k = j
      BY <1>9, <3>2
    <3>4. K(g) = <<s[k]>>
      BY <1>8, <1>9, <2>2, <3>1
    <3> QED BY <3>3, <3>4
  <2> QED BY <2>1, <2>2
<1> HIDE DEF K
<1>10. PICK w : w = K("env.sh") \o K("shell.sh")
  OBVIOUS
<1>11. w \in Seq(Line) /\ Len(w) = e - m /\ \A j \in 1..(e - m) : w[j] = s[m + j]
  <2>1. CASE e = m + 2
    <3>1. \A k \in (m + 1)..e : k = m + 1 \/ k = m + 2
      BY <1>4, <2>1
    <3>2. K("env.sh") = <<s[m + 1]>> /\ K("shell.sh") = <<s[m + 2]>>
      <4>1. m + 1 \in (m + 1)..e /\ m + 2 \in (m + 1)..e
        BY <1>4, <2>1
      <4> QED BY <1>6, <1>9, <2>1, <3>1, <4>1
    <3>3. s[m + 1] \in Line /\ s[m + 2] \in Line
      <4>1. m + 1 \in 1..Len(s) /\ m + 2 \in 1..Len(s)
        BY <1>1, <1>4, <2>1
      <4> QED BY <1>1, <4>1
    <3>4. PICK c \in Line, d \in Line : c = s[m + 1] /\ d = s[m + 2]
      BY <3>3
    <3>5. <<c>> \in Seq(Line) /\ <<d>> \in Seq(Line) /\ Len(<<c>>) = 1 /\ Len(<<d>>) = 1 /\ <<c>>[1] = c /\ <<d>>[1] = d
      OBVIOUS
    <3>w. w = <<c>> \o <<d>>
      BY <1>10, <3>2, <3>4
    <3>6. w \in Seq(Line) /\ Len(w) = 2 /\ w[1] = c /\ w[2] = d
      BY <3>w, <3>5, ConcatProperties
    <3>7. \A j \in 1..(e - m) : j = 1 \/ j = 2
      BY <1>4, <2>1
    <3> QED BY <1>4, <2>1, <3>4, <3>6, <3>7
  <2>2. CASE e = m + 1
    <3>1. i = m + 1 /\ \A k \in (m + 1)..e : k = m + 1
      BY <1>4, <1>5, <2>2
    <3>2. K(f) = <<s[m + 1]>>
      BY <1>5, <1>8, <3>1
    <3>3. \A g \in ShFiles \ {f} : K(g) = <<>>
      BY <1>7, <1>8, <3>1
    <3>4. s[m + 1] \in Line
      BY <1>1, <1>4, <2>2
    <3>5. PICK d : d = <<s[m + 1]>>
      OBVIOUS
    <3>6. d \in Seq(Line) /\ Len(d) = 1 /\ d[1] = s[m + 1]
      BY <3>4, <3>5
    <3>7. w = d
      <4>1. f = "env.sh" \/ f = "shell.sh"
        BY DEF ShFiles
      <4>2. w = d \o <<>> \/ w = <<>> \o d
        BY <1>10, <3>2, <3>3, <3>5, <4>1 DEF ShFiles
      <4> QED BY <3>6, <4>2, ConcatEmptySeq
    <3>8. \A j \in 1..(e - m) : j = 1
      BY <1>4, <2>2
    <3> QED BY <1>4, <2>2, <3>6, <3>7, <3>8
  <2>3. e = m + 1 \/ e = m + 2
    BY <1>4, <1>5, <1>6
  <2> QED BY <2>1, <2>2, <2>3
<1>12. /\ t \in Seq(Line) /\ Len(t) = m + Len(w) + Len(s) + 1 - (e + 1)
       /\ \A j \in 1..m : t[j] = s[j]
       /\ \A j \in 1..Len(w) : t[m + j] = w[j]
       /\ \A j \in (e + 1)..Len(s) : t[m + Len(w) + 1 + j - (e + 1)] = s[j]
  <2>1. m \in 0..Len(s) /\ e + 1 \in (m + 1)..(Len(s) + 1) /\ t = Splice(s, m, w, e + 1)
    BY <1>1, <1>4, <1>10
  <2> HIDE DEF t
  <2>2. IsSplice(t, s, m, w, e + 1)
    BY <1>11, <2>1, Spliced
  <2> QED BY <2>2 DEF IsSplice
<1> HIDE DEF t
<1>13. Len(t) = Len(s)
  BY <1>1, <1>4, <1>11, <1>12
<1>14. ASSUME NEW j \in 1..Len(s) PROVE t[j] = s[j]
  <2>1. CASE j <= m
    BY <1>4, <1>12, <2>1
  <2>2. CASE j > m /\ j <= e
    <3>1. j - m \in 1..(e - m) /\ m + (j - m) = j
      BY <1>4, <2>2
    <3> QED BY <1>11, <1>12, <3>1
  <2>3. CASE j > e
    <3>1. j \in (e + 1)..Len(s) /\ m + Len(w) + 1 + j - (e + 1) = j
      BY <1>1, <1>4, <1>11, <2>3
    <3> QED BY <1>12, <3>1
  <2> QED BY <1>1, <1>4, <2>1, <2>2, <2>3
<1>15. t = s
  BY <1>12, <1>13, <1>14, SeqEqual
<1> QED BY <1>15 DEF t

\* A file whose block has the line, has the line.
LEMMA LatestIsThere ==
    ASSUME NEW s \in Seq(Line), NEW f, Latest(s, f)
    PROVE  Contains(s, Source(f, "here"))
<1> DEFINE m == FirstOf(s, Marker, 0)
<1>1. Len(s) \in Nat /\ m > 0
  BY LenProperties DEF Latest
<1>2. m \in 1..Len(s)
  BY <1>1, FirstOfLemma
<1>3. BlockEnd(s, m) \in m..Len(s)
  BY <1>2, BlockEndLemma
<1>4. PICK i \in (m + 1)..BlockEnd(s, m) : s[i] = Source(f, "here")
  BY DEF Latest
<1>5. i \in 1..Len(s)
  BY <1>1, <1>2, <1>3
<1> QED BY <1>4, <1>5 DEF Contains

-----------------------------------------------------------------------------
(* The invariant.                                                          *)

Docs == [env : {d.env : d \in Documents} \cup {{}}, shell : {d.shell : d \in Documents} \cup {NoShell}]
Todos == {<<>>, <<"posix">>, <<"powershell">>, <<"powershell", "posix">>}
Steps == {"idle", "env", "env rc", "shell", "shell rc", "rest"}
Runs == [pc : Steps, doc : Docs, lf : Docs, todo : Todos,
         settled : BOOLEAN, failed : BOOLEAN, warned : BOOLEAN, since : Nat]

Shape ==
  /\ spec \in Documents /\ host \in Hosts /\ lock \in Docs /\ run \in Runs
  /\ fragment \in [FragmentFiles -> {Absent} \cup {Content(b, p, d) : b \in Backends, p \in Parts, d \in Docs}]
  /\ \A f \in FragmentFiles : fragment[f] # {}
  /\ rc \in [Rcs -> Seq(Line) \cup {Absent}] /\ \A r \in Profiles : Apart(Lines(rc[r]))
  /\ fresh \in BOOLEAN /\ forgotten \in BOOLEAN
  /\ runs \in 0..MaxRuns /\ faults \in 0..MaxFaults /\ edits \in 0..MaxEdits

\* What a run has to do with: the backends of the host, and for each part those
\* whose fragment is as the run's document says, whose start-up file sources it (or
\* need not), and those that have no fragment.
Chosen == {b \in Backends : IF b = "posix" THEN ~host.windows \/ PosixRelevant
                            ELSE host.windows /\ host.engine # "none"}
Written(b, p, doc) == fragment[FileOf[b][p]] = Rendered(b, p, doc)
SourcedIn(s, b, p) == IF b = "posix" THEN Latest(s, FileOf[b][p]) /\ Neat(s) ELSE Tight(s, p)
Sourced(b, p) == SourcedIn(Lines(rc[RcOf(b)]), b, p)
Served(b, p, doc) == NeedsLine(b, p, doc) => Sourced(b, p)

View(doc) ==
  [chosen |-> Chosen, lock |-> lock, forgotten |-> forgotten, edits |-> edits, windows |-> host.windows,
   written |-> [p \in Parts |-> {b \in Backends : Written(b, p, doc)}],
   served  |-> [p \in Parts |-> {b \in Backends : Served(b, p, doc)}],
   blank   |-> [p \in Parts |-> {b \in Backends : fragment[FileOf[b][p]] = Absent}]]

Bare(p, l) == IF p = "env" THEN l.env = {} ELSE Entries(l.shell) = {}
Blank(p, l, w) == ~w.forgotten /\ Bare(p, l) => w.blank[p] = Backends

Moved(r, w) == w.windows /\ r.since # w.edits
Clean(r, w) == r.since = w.edits /\ ~r.failed /\ ~r.warned

\* A part that has had its turn, one whose turn is still to come, and one that is
\* written for all backends but those in todo.
Over(p, r, w) ==
  /\ \/ r.lf[p] = w.lock[p]
     \/ r.lf[p] = r.doc[p] /\ (Moved(r, w) \/ w.chosen \subseteq w.written[p])
  /\ Clean(r, w) => \/ w.chosen \subseteq w.written[p] \cap w.served[p]
                    \/ Skipped(p, r.doc, r.lf)
  /\ Blank(p, r.lf, w)
Ahead(p, r, w) == r.lf[p] = w.lock[p] /\ Blank(p, r.lf, w)
UpTo(p, r, todo, w) ==
  /\ Moved(r, w) \/ w.chosen \ ToSet(todo) \subseteq w.written[p]
  /\ ~w.forgotten => Backends \ ToSet(todo) \subseteq w.written[p] \cup w.blank[p]
ServedUpTo(p, r, todo, w) ==
  Clean(r, w) => w.chosen \ ToSet(todo) \subseteq w.written[p] \cap w.served[p]
During(p, r, w) ==
  /\ r.todo # <<>> /\ ToSet(r.todo) \subseteq w.chosen
  /\ r.lf[p] = w.lock[p]
  /\ UpTo(p, r, IF r.pc = RcStep[p] THEN Tail(r.todo) ELSE r.todo, w)
  /\ ServedUpTo(p, r, r.todo, w)

Sound(r, w) ==
  \/ r.pc \in {"env", "env rc"} /\ During("env", r, w) /\ Ahead("shell", r, w)
  \/ r.pc \in {"shell", "shell rc"} /\ Over("env", r, w) /\ During("shell", r, w)
  \/ r.pc = "rest" /\ Over("env", r, w) /\ Over("shell", r, w)

Running ==
  run.pc # "idle" =>
    /\ run.doc = spec /\ run.since <= edits
    /\ run.settled => spec.env = lock.env /\ Entries(spec.shell) = Entries(lock.shell)
    /\ Sound(run, View(spec))
Resting == run.pc = "idle" => run = Idle /\ \A p \in Parts : Blank(p, lock, View(spec))
NoneBesides == ~forgotten => \A p \in Parts : Backends \ Chosen \subseteq View(spec).blank[p]
FreshIsServed ==
  fresh => \A p \in Parts, b \in Chosen : \/ Written(b, p, spec) /\ Served(b, p, spec)
                                          \/ forgotten /\ Skipped(p, spec, lock)

IInv == Shape /\ Running /\ Resting /\ NoneBesides /\ FreshIsServed

-----------------------------------------------------------------------------
(* The turns of the parts.                                                 *)

\* The queues of backends, and what they hold.
LEMMA TodoKinds ==
    /\ \A t \in Todos : ToSet(t) \subseteq Backends /\ (ToSet(t) = {} <=> t = <<>>)
    /\ \A t \in Todos : t # <<>> => /\ Head(t) \in Backends /\ Tail(t) \in Todos
                                    /\ ToSet(t) = {Head(t)} \cup ToSet(Tail(t))
    /\ SelectBackends \in Todos /\ ToSet(SelectBackends) = Chosen
<1>1. /\ ToSet(<<>>) = {} /\ ToSet(<<"posix">>) = {"posix"} /\ ToSet(<<"powershell">>) = {"powershell"}
      /\ ToSet(<<"powershell", "posix">>) = {"powershell", "posix"}
  BY DEF ToSet
<1>2. /\ Head(<<"posix">>) = "posix" /\ Tail(<<"posix">>) = <<>>
      /\ Head(<<"powershell">>) = "powershell" /\ Tail(<<"powershell">>) = <<>>
      /\ Head(<<"powershell", "posix">>) = "powershell" /\ Tail(<<"powershell", "posix">>) = <<"posix">>
  OBVIOUS
<1>3. /\ <<"posix">> # <<>> /\ <<"powershell">> # <<>> /\ <<"powershell", "posix">> # <<>>
  OBVIOUS
<1>4. /\ <<>> \o <<>> = <<>> /\ <<>> \o <<"posix">> = <<"posix">> /\ <<"powershell">> \o <<>> = <<"powershell">>
      /\ <<"powershell">> \o <<"posix">> = <<"powershell", "posix">>
  <2>1. <<>> \in Seq(Backends) /\ <<"posix">> \in Seq(Backends) /\ <<"powershell">> \in Seq(Backends)
    BY DEF Backends
  <2>2. <<"powershell">> \o <<"posix">> = Append(<<"powershell">>, "posix")
    BY <2>1, AppendIsConcat DEF Backends
  <2>3. Append(<<"powershell">>, "posix") = <<"powershell", "posix">>
    <3> DEFINE a == Append(<<"powershell">>, "posix")
               c == <<"powershell", "posix">>
    <3>1. a \in Seq(Backends) /\ Len(a) = 2 /\ a[1] = "powershell" /\ a[2] = "posix"
      BY <2>1 DEF Backends
    <3>2. c \in Seq(Backends) /\ Len(c) = 2 /\ c[1] = "powershell" /\ c[2] = "posix"
      BY DEF Backends
    <3> HIDE DEF a, c
    <3>3. a = c
      BY <3>1, <3>2, SeqEqual
    <3> QED BY <3>3 DEF a, c
  <2> QED BY <2>1, <2>2, <2>3, ConcatEmptySeq
<1>5. SelectBackends \in Todos /\ ToSet(SelectBackends) = Chosen
  <2>1. CASE ~host.windows
    BY <1>1, <2>1 DEF SelectBackends, Chosen, Todos, Backends
  <2>2. CASE host.windows /\ host.engine # "none" /\ PosixRelevant
    BY <1>1, <1>4, <2>2 DEF SelectBackends, Chosen, Todos, Backends
  <2>3. CASE host.windows /\ host.engine # "none" /\ ~PosixRelevant
    BY <1>1, <1>4, <2>3 DEF SelectBackends, Chosen, Todos, Backends
  <2>4. CASE host.windows /\ host.engine = "none" /\ PosixRelevant
    BY <1>1, <1>4, <2>4 DEF SelectBackends, Chosen, Todos, Backends
  <2>5. CASE host.windows /\ host.engine = "none" /\ ~PosixRelevant
    BY <1>1, <1>4, <2>5 DEF SelectBackends, Chosen, Todos, Backends
  <2> QED BY <2>1, <2>2, <2>3, <2>4, <2>5
<1> QED BY <1>1, <1>2, <1>3, <1>5 DEF Todos, Backends

\* What a view has to do with the state and with the run's document.
Seen(doc, w) ==
  /\ w.chosen = Chosen
  /\ \A p \in Parts : /\ Bare(p, doc) => w.written[p] \subseteq w.blank[p]
                      /\ w.blank[p] \subseteq Backends
                      /\ ~w.forgotten => Backends \ w.chosen \subseteq w.blank[p]

\* The same run at another place.
Same(q, r) == q.doc = r.doc /\ q.settled = r.settled /\ q.failed = r.failed /\ q.warned = r.warned /\ q.since = r.since

\* Whether a part is over, or to come, does not depend on where the run is.
LEMMA SameIsOver ==
    ASSUME NEW r, NEW q, NEW w, NEW p \in Parts, Same(q, r), q.lf[p] = r.lf[p]
    PROVE  /\ Over(p, r, w) => Over(p, q, w)
           /\ Ahead(p, r, w) => Ahead(p, q, w)
BY DEF Same, Over, Ahead, Moved, Clean, Blank, Bare, Skipped, Parts

\* With the env part over, the shell part has its turn.
LEMMA ShellTurnLemma ==
    ASSUME NEW r \in Runs, NEW w, Seen(r.doc, w), Over("env", r, w), Ahead("shell", r, w)
    PROVE  LET q == ShellTurn(r) IN q \in Runs /\ Same(q, r) /\ q.pc # "idle" /\ Sound(q, w)
<1> DEFINE q == ShellTurn(r)
<1>1. "env" \in Parts /\ "shell" \in Parts
  BY DEF Parts
<1>2. Due("shell", r) \in Todos /\ SelectBackends \in Todos /\ ToSet(SelectBackends) = w.chosen
  BY TodoKinds DEF Due, Todos, Seen
<1>3. CASE Due("shell", r) = <<>>
  <2>1. q = [r EXCEPT !.pc = "rest", !.todo = <<>>, !.lf.shell = r.doc.shell]
    BY <1>3 DEF ShellTurn
  <2>2. /\ q \in Runs /\ Same(q, r) /\ q.pc = "rest" /\ q.lf.env = r.lf.env /\ q.lf.shell = r.doc.shell
    <3>1. PICK l : l = [r.lf EXCEPT !.shell = r.doc.shell]
      OBVIOUS
    <3>2. l \in Docs /\ l.env = r.lf.env /\ l.shell = r.doc.shell
      BY <3>1 DEF Runs, Docs
    <3>3. q = [r EXCEPT !.pc = "rest", !.todo = <<>>, !.lf = l]
      BY <2>1, <3>1 DEF Runs
    <3> QED BY <3>2, <3>3 DEF Runs, Same, Steps, Todos
  <2> HIDE DEF q
  <2>3. Over("env", q, w)
    BY <1>1, <2>2, SameIsOver
  <2>4. CASE Skipped("shell", r.doc, r.lf)
    <3>1. r.doc.shell = r.lf.shell
      BY <2>4 DEF Skipped
    <3>2. Skipped("shell", q.doc, q.lf) /\ q.lf.shell = w.lock.shell /\ Blank("shell", q.lf, w)
      BY <2>2, <2>4, <3>1 DEF Skipped, Ahead, Blank, Bare, Same
    <3> QED BY <2>2, <2>3, <3>2 DEF Sound, Over, q
  <2>5. CASE ~Skipped("shell", r.doc, r.lf)
    <3>1. w.chosen = {}
      BY <1>2, <1>3, <2>5, TodoKinds DEF Due
    <3>2. Blank("shell", q.lf, w)
      BY <1>1, <3>1 DEF Seen, Blank
    <3> QED BY <2>2, <2>3, <3>1, <3>2 DEF Sound, Over, Same, q
  <2> QED BY <2>4, <2>5
<1>4. CASE Due("shell", r) # <<>>
  <2>1. q = [r EXCEPT !.pc = "shell", !.todo = Due("shell", r)] /\ Due("shell", r) = SelectBackends
    BY <1>4 DEF ShellTurn, Due
  <2>2. /\ q \in Runs /\ Same(q, r) /\ q.pc = "shell" /\ q.lf = r.lf /\ q.todo = SelectBackends
    BY <1>2, <2>1 DEF Runs, Same, Steps
  <2> HIDE DEF q
  <2>3. Over("env", q, w)
    BY <1>1, <2>2, SameIsOver
  <2>4. q.todo # <<>> /\ ToSet(q.todo) = w.chosen
    BY <1>2, <1>4, <2>1, <2>2
  <2>5. During("shell", q, w)
    BY <1>1, <2>2, <2>4 DEF During, UpTo, ServedUpTo, Seen, Ahead, RcStep
  <2> QED BY <2>2, <2>3, <2>5 DEF Sound, q
<1> QED BY <1>3, <1>4

\* With both parts to come, the env part has its turn.
LEMMA EnvTurnLemma ==
    ASSUME NEW r \in Runs, NEW w, Seen(r.doc, w), Ahead("env", r, w), Ahead("shell", r, w)
    PROVE  LET q == EnvTurn(r) IN q \in Runs /\ Same(q, r) /\ q.pc # "idle" /\ Sound(q, w)
<1>1. "env" \in Parts /\ "shell" \in Parts
  BY DEF Parts
<1>2. Due("env", r) \in Todos /\ SelectBackends \in Todos /\ ToSet(SelectBackends) = w.chosen
  BY TodoKinds DEF Due, Todos, Seen
<1>3. CASE Due("env", r) = <<>>
  <2>1. PICK q : q = [r EXCEPT !.lf.env = r.doc.env]
    OBVIOUS
  <2>2. /\ q \in Runs /\ Same(q, r) /\ q.lf.shell = r.lf.shell /\ q.lf.env = r.doc.env
    BY <2>1 DEF Runs, Docs, Same
  <2>3. Ahead("shell", q, w)
    BY <1>1, <2>2, SameIsOver
  <2>4. Over("env", q, w)
    <3>1. CASE Skipped("env", r.doc, r.lf)
      <4>1. r.doc.env = r.lf.env
        BY <3>1 DEF Skipped
      <4>2. Skipped("env", q.doc, q.lf) /\ q.lf.env = w.lock.env /\ Blank("env", q.lf, w)
        BY <2>2, <3>1, <4>1 DEF Skipped, Ahead, Blank, Bare, Same
      <4> QED BY <4>2 DEF Over
    <3>2. CASE ~Skipped("env", r.doc, r.lf)
      <4>1. w.chosen = {}
        BY <1>2, <1>3, <3>2, TodoKinds DEF Due
      <4>2. Blank("env", q.lf, w)
        BY <1>1, <4>1 DEF Seen, Blank
      <4> QED BY <2>2, <4>1, <4>2 DEF Over, Same
    <3> QED BY <3>1, <3>2
  <2>5. EnvTurn(r) = ShellTurn(q) /\ Seen(q.doc, w)
    BY <1>3, <2>1, <2>2 DEF EnvTurn, Same
  <2>6. ShellTurn(q) \in Runs /\ Same(ShellTurn(q), q) /\ ShellTurn(q).pc # "idle" /\ Sound(ShellTurn(q), w)
    BY <2>2, <2>3, <2>4, <2>5, ShellTurnLemma
  <2> QED BY <2>2, <2>5, <2>6 DEF Same
<1>4. CASE Due("env", r) # <<>>
  <2> DEFINE q == EnvTurn(r)
  <2>1. q = [r EXCEPT !.pc = "env", !.todo = Due("env", r)] /\ Due("env", r) = SelectBackends
    BY <1>4 DEF EnvTurn, Due
  <2>2. /\ q \in Runs /\ Same(q, r) /\ q.pc = "env" /\ q.lf = r.lf /\ q.todo = SelectBackends
    BY <1>2, <2>1 DEF Runs, Same, Steps
  <2> HIDE DEF q
  <2>3. Ahead("shell", q, w)
    BY <1>1, <2>2, SameIsOver
  <2>4. q.todo # <<>> /\ ToSet(q.todo) = w.chosen
    BY <1>2, <1>4, <2>1, <2>2
  <2>5. During("env", q, w)
    BY <1>1, <2>2, <2>4 DEF During, UpTo, ServedUpTo, Seen, Ahead, RcStep
  <2> QED BY <2>2, <2>3, <2>5 DEF Sound, q
<1> QED BY <1>3, <1>4

\* A part is over when all its backends are done with.
LEMMA LastOneLemma ==
    ASSUME NEW r, NEW q, NEW w, NEW p \in Parts, Seen(r.doc, w), Same(q, r), q.lf[p] = r.doc[p],
           UpTo(p, r, <<>>, w), ServedUpTo(p, r, <<>>, w)
    PROVE  Over(p, q, w)
<1>1. ToSet(<<>>) = {}
  BY DEF ToSet
<1>2. Moved(r, w) \/ w.chosen \subseteq w.written[p]
  BY <1>1 DEF UpTo
<1>3. Clean(r, w) => w.chosen \subseteq w.written[p] \cap w.served[p]
  BY <1>1 DEF ServedUpTo
<1>4. Bare(p, q.lf) => Bare(p, r.doc)
  BY DEF Bare, Parts
<1>5. Blank(p, q.lf, w)
  BY <1>1, <1>4 DEF UpTo, Seen, Blank
<1> QED BY <1>2, <1>3, <1>5 DEF Over, Same, Moved, Clean

\* With its first backend done, the run is where the invariant says.
LEMMA AfterLemma ==
    ASSUME NEW r \in Runs, NEW w, NEW p \in Parts, Seen(r.doc, w), r.todo # <<>>, ToSet(r.todo) \subseteq w.chosen,
           r.lf[p] = w.lock[p], UpTo(p, r, Tail(r.todo), w), ServedUpTo(p, r, Tail(r.todo), w),
           p = "env" => Ahead("shell", r, w), p = "shell" => Over("env", r, w)
    PROVE  LET q == After(p, r) IN q \in Runs /\ Same(q, r) /\ q.pc # "idle" /\ Sound(q, w)
<1>1. "env" \in Parts /\ "shell" \in Parts /\ (p = "env" \/ p = "shell")
  BY DEF Parts
<1>2. r.todo \in Todos /\ Tail(r.todo) \in Todos /\ ToSet(Tail(r.todo)) \subseteq w.chosen
  <2>1. r.todo \in Todos
    BY DEF Runs
  <2> QED BY <2>1, TodoKinds
<1>3. CASE Tail(r.todo) # <<>>
  <2> DEFINE q == After(p, r)
  <2>1. q = [r EXCEPT !.todo = Tail(r.todo), !.pc = p]
    BY <1>3 DEF After, Runs
  <2>2. /\ q \in Runs /\ Same(q, r) /\ q.pc = p /\ q.lf = r.lf /\ q.todo = Tail(r.todo)
    BY <1>1, <1>2, <2>1 DEF Runs, Same, Steps
  <2> HIDE DEF q
  <2>3. During(p, q, w)
    <3>1. p # RcStep[p] /\ q.todo # <<>> /\ ToSet(q.todo) \subseteq w.chosen
      <4>1. RcStep["env"] = "env rc" /\ RcStep["shell"] = "shell rc"
        BY DEF RcStep
      <4> QED BY <1>1, <1>2, <1>3, <2>2, <4>1
    <3>2. UpTo(p, q, q.todo, w) /\ ServedUpTo(p, q, q.todo, w)
      BY <2>2 DEF UpTo, ServedUpTo, Moved, Clean, Same
    <3> QED BY <2>2, <3>1, <3>2 DEF During
  <2>4. (p = "env" => Ahead("shell", q, w)) /\ (p = "shell" => Over("env", q, w))
    BY <1>1, <2>2, SameIsOver
  <2> QED BY <1>1, <2>2, <2>3, <2>4 DEF Sound, q
<1>4. CASE Tail(r.todo) = <<>> /\ p = "env"
  <2>1. PICK q : q = [r EXCEPT !.todo = <<>>, !.lf.env = r.doc.env]
    OBVIOUS
  <2>2. /\ q \in Runs /\ Same(q, r) /\ q.lf.shell = r.lf.shell /\ q.lf.env = r.doc.env
    BY <2>1 DEF Runs, Docs, Same, Todos
  <2>3. Ahead("shell", q, w)
    BY <1>1, <1>4, <2>2, SameIsOver
  <2>4. Over("env", q, w)
    BY <1>4, <2>2, LastOneLemma
  <2>5. After(p, r) = ShellTurn(q) /\ Seen(q.doc, w)
    BY <1>4, <2>1, <2>2 DEF After, Same, Runs
  <2>6. ShellTurn(q) \in Runs /\ Same(ShellTurn(q), q) /\ ShellTurn(q).pc # "idle" /\ Sound(ShellTurn(q), w)
    BY <2>2, <2>3, <2>4, <2>5, ShellTurnLemma
  <2> QED BY <2>2, <2>5, <2>6 DEF Same
<1>5. CASE Tail(r.todo) = <<>> /\ p = "shell"
  <2> DEFINE q == After(p, r)
  <2>1. q = [r EXCEPT !.todo = <<>>, !.pc = "rest", !.lf.shell = r.doc.shell]
    BY <1>5 DEF After, Runs
  <2>2. /\ q \in Runs /\ Same(q, r) /\ q.pc = "rest" /\ q.lf.env = r.lf.env /\ q.lf.shell = r.doc.shell
    <3>1. PICK l : l = [r.lf EXCEPT !.shell = r.doc.shell]
      OBVIOUS
    <3>2. l \in Docs /\ l.env = r.lf.env /\ l.shell = r.doc.shell
      BY <3>1 DEF Runs, Docs
    <3>3. q = [r EXCEPT !.pc = "rest", !.todo = <<>>, !.lf = l]
      BY <2>1, <3>1 DEF Runs
    <3> QED BY <3>2, <3>3 DEF Runs, Same, Steps, Todos
  <2> HIDE DEF q
  <2>3. Over("env", q, w)
    BY <1>1, <1>5, <2>2, SameIsOver
  <2>4. Over("shell", q, w)
    BY <1>5, <2>2, LastOneLemma
  <2> QED BY <2>2, <2>3, <2>4 DEF Sound, q
<1> QED BY <1>1, <1>3, <1>4, <1>5

\* A part that fails is over: its section of the lock stays.
LEMMA GiveUpLemma ==
    ASSUME NEW r \in Runs, NEW w, NEW p \in Parts, Seen(r.doc, w), r.failed, w.forgotten,
           r.lf[p] = w.lock[p], p = "env" => Ahead("shell", r, w), p = "shell" => Over("env", r, w)
    PROVE  LET q == GiveUp(p, r) IN q \in Runs /\ Same(q, r) /\ q.pc # "idle" /\ Sound(q, w)
<1>1. "env" \in Parts /\ "shell" \in Parts /\ (p = "env" \/ p = "shell")
  BY DEF Parts
<1>2. Over(p, r, w)
  BY DEF Over, Clean, Blank
<1>3. CASE p = "env"
  <2>1. GiveUp(p, r) = ShellTurn(r)
    BY <1>3 DEF GiveUp
  <2> QED BY <1>2, <1>3, <2>1, ShellTurnLemma
<1>4. CASE p = "shell"
  <2> DEFINE q == GiveUp(p, r)
  <2>1. q = [r EXCEPT !.pc = "rest", !.todo = <<>>]
    BY <1>4 DEF GiveUp
  <2>2. /\ q \in Runs /\ Same(q, r) /\ q.pc = "rest" /\ q.lf = r.lf
    BY <2>1 DEF Runs, Same, Steps, Todos
  <2> HIDE DEF q
  <2>3. Over("env", q, w) /\ Over("shell", q, w)
    BY <1>1, <1>2, <1>4, <2>2, SameIsOver
  <2> QED BY <2>2, <2>3 DEF Sound, q
<1> QED BY <1>1, <1>3, <1>4

-----------------------------------------------------------------------------
(* Files, contents and views.                                              *)

\* Each backend has a file of its own for each part.
LEMMA FileKinds ==
    /\ \A b, c \in Backends, p, q \in Parts : FileOf[b][p] = FileOf[c][q] => b = c /\ p = q
    /\ \A b \in Backends, p \in Parts : FileOf[b][p] \in FragmentFiles
    /\ \A f \in FragmentFiles : \E b \in Backends, p \in Parts : f = FileOf[b][p]
    /\ \A p \in Parts : FileOf["posix"][p] \in ShFiles
    /\ RcOf("posix") \in PosixRcs /\ RcOf("powershell") \in Profiles
    /\ PosixRcs \subseteq Rcs /\ Profiles \subseteq Rcs /\ PosixRcs \cap Profiles = {}
<1>1. /\ FileOf["posix"]["env"] = "env.sh" /\ FileOf["posix"]["shell"] = "shell.sh"
      /\ FileOf["powershell"]["env"] = "env.ps1" /\ FileOf["powershell"]["shell"] = "shell.ps1"
  BY DEF FileOf
<1>2. \A b, c \in Backends, p, q \in Parts : FileOf[b][p] = FileOf[c][q] => b = c /\ p = q
  BY <1>1 DEF Backends, Parts
<1>3. \A p \in Parts : FileOf["posix"][p] \in ShFiles
  BY <1>1 DEF Parts, ShFiles
<1>4. RcOf("posix") \in PosixRcs /\ RcOf("powershell") \in Profiles
  BY DEF RcOf, PosixRc, ProfilePath, PosixRcs, Profiles
<1>5. PosixRcs \subseteq Rcs /\ Profiles \subseteq Rcs /\ PosixRcs \cap Profiles = {}
  BY DEF Rcs, PosixRcs, Profiles
<1> QED BY <1>2, <1>3, <1>4, <1>5 DEF FragmentFiles

\* What a document says of one part.
LEMMA ContentKinds ==
    ASSUME Documents # {}
    PROVE  /\ \A d \in Documents : d \in Docs
           /\ NoLock \in Docs /\ Entries(NoShell) = {}
           /\ \A d \in Docs, b \in Backends, p \in Parts :
                /\ IsFiniteSet(Content(b, p, d)) /\ Content(b, p, d) # Absent
                /\ Bare(p, d) => Content(b, p, d) = {}
                /\ \A e \in Docs : d[p] = e[p] => Content(b, p, d) = Content(b, p, e)
<1>1. \A d \in Documents : d \in Docs
  BY DocumentsAssumption DEF Docs
<1>2. NoLock \in Docs /\ Entries(NoShell) = {}
  BY DEF NoLock, Docs, Entries
<1>3. ASSUME NEW d \in Docs, NEW b \in Backends, NEW p \in Parts
      PROVE  /\ IsFiniteSet(Content(b, p, d)) /\ Content(b, p, d) # Absent
             /\ Bare(p, d) => Content(b, p, d) = {}
             /\ \A e \in Docs : d[p] = e[p] => Content(b, p, d) = Content(b, p, e)
  <2>1. /\ d.env = {} \/ \E doc \in Documents : d.env = doc.env
        /\ d.shell = NoShell \/ \E doc \in Documents : d.shell = doc.shell
    BY DEF Docs
  <2>2. CASE p = "env"
    <3>1. \A e : Content(b, p, e) = e.env
      BY <2>2 DEF Content, EnvSh, EnvPs1
    <3>2. IsFiniteSet(d.env) /\ (d.env # {} => d.env # Absent)
      BY <2>1, DocumentsAssumption, FS_EmptySet
    <3>3. {} # Absent
      BY DocumentsAssumption
    <3> QED BY <2>2, <3>1, <3>2, <3>3 DEF Bare
  <2>3. CASE p = "shell"
    <3>1. \A e : Content(b, p, e) = IF b = "posix" THEN {x \in Entries(e.shell) : x[3] # "powershell"}
                                    ELSE {x \in Entries(e.shell) : x[3] \in {"powershell", "source"}}
      BY <2>3 DEF Content, ShellSh, ShellPs1
    <3>2. IsFiniteSet(Entries(d.shell)) /\ \A S : S \subseteq Entries(d.shell) => S # Absent
      <4>1. CASE d.shell = NoShell
        BY <1>2, <4>1, DocumentsAssumption, FS_EmptySet
      <4>2. CASE \E doc \in Documents : d.shell = doc.shell
        BY <4>2, DocumentsAssumption
      <4> QED BY <2>1, <4>1, <4>2
    <3>3. Content(b, p, d) \subseteq Entries(d.shell)
      BY <3>1
    <3>4. IsFiniteSet(Content(b, p, d)) /\ Content(b, p, d) # Absent
      BY <3>2, <3>3, FS_Subset
    <3> QED BY <2>3, <3>1, <3>3, <3>4 DEF Bare
  <2> QED BY <2>2, <2>3 DEF Parts
<1> QED BY <1>1, <1>2, <1>3

\* No run is a run.
LEMMA IdleIsARun == ASSUME Documents # {} PROVE Idle \in Runs
<1>1. NoLock \in Docs
  BY ContentKinds
<1> QED BY <1>1 DEF Idle, Runs, Steps, Todos

\* A part that a step does not touch, in another view of it.
LEMMA OtherPart ==
    ASSUME NEW p \in Parts, NEW r, NEW q, NEW v, NEW w, q.doc = r.doc, q.lf[p] = r.lf[p], w.lock[p] = v.lock[p],
           v.forgotten => w.forgotten, v.blank[p] \subseteq w.blank[p], w.blank[p] \subseteq Backends,
           Moved(r, v) \/ v.chosen \subseteq v.written[p] => Moved(q, w) \/ w.chosen \subseteq w.written[p],
           Clean(q, w) => /\ Clean(r, v) /\ w.chosen = v.chosen
                          /\ v.written[p] \subseteq w.written[p] /\ v.served[p] \subseteq w.served[p]
    PROVE  /\ Over(p, r, v) => Over(p, q, w)
           /\ Ahead(p, r, v) => Ahead(p, q, w)
<1>1. Bare(p, q.lf) = Bare(p, r.lf) /\ Skipped(p, q.doc, q.lf) = Skipped(p, r.doc, r.lf)
  BY DEF Bare, Skipped, Parts
<1>2. Blank(p, r.lf, v) => Blank(p, q.lf, w)
  BY <1>1 DEF Blank
<1>3. Ahead(p, r, v) => Ahead(p, q, w)
  BY <1>2 DEF Ahead
<1>4. ASSUME Over(p, r, v) PROVE Over(p, q, w)
  <2>1. \/ q.lf[p] = w.lock[p]
        \/ q.lf[p] = q.doc[p] /\ (Moved(q, w) \/ w.chosen \subseteq w.written[p])
    BY <1>4 DEF Over
  <2>2. Clean(q, w) => \/ w.chosen \subseteq w.written[p] \cap w.served[p]
                       \/ Skipped(p, q.doc, q.lf)
    BY <1>1, <1>4 DEF Over
  <2> QED BY <1>2, <1>4, <2>1, <2>2 DEF Over
<1> QED BY <1>3, <1>4

\* The state and its view.
LEMMA ViewLemma ==
    ASSUME Shape, NoneBesides
    PROVE  Seen(spec, View(spec))
<1>1. spec \in Docs
  BY ContentKinds DEF Shape
<1>2. ASSUME NEW p \in Parts, NEW b \in Backends, Bare(p, spec), Written(b, p, spec)
      PROVE  fragment[FileOf[b][p]] = Absent
  BY <1>1, <1>2, ContentKinds DEF Shape, Written, Rendered
<1> QED BY <1>2 DEF Seen, View, NoneBesides

-----------------------------------------------------------------------------
(* What an injection leaves alone.                                         *)

\* The lines at the places D of s are in t, in the same order.
InOrder(s, t, D) ==
  \E to \in [D -> DOMAIN t] : /\ \A i \in D : t[to[i]] = s[i]
                              /\ \A i, j \in D : i < j => to[i] < to[j]

\* A rewrite keeps the lines outside what it replaces, in their order.
LEMMA KeptInOrder ==
    ASSUME NEW s \in Seq(Line), NEW m \in Seq(Line), NEW b \in 0..Len(s), NEW e \in (b + 1)..(Len(s) + 1),
           NEW D, \A i \in D : i \in 1..Len(s) /\ (i <= b \/ i >= e)
    PROVE  InOrder(s, Splice(s, b, m, e), D)
<1>1. PICK t : t = Splice(s, b, m, e)
  OBVIOUS
<1>2. IsSplice(t, s, b, m, e)
  BY <1>1, Spliced
<1>3. PICK to : to = [i \in D |-> Shift(b, m, e, i)]
  OBVIOUS
<1>4. ASSUME NEW i \in D PROVE to[i] \in DOMAIN t /\ t[to[i]] = s[i]
  <2>1. to[i] = Shift(b, m, e, i) /\ i \in 1..Len(s) /\ (i <= b \/ i >= e)
    BY <1>3
  <2>2. CASE i <= b
    <3>1. to[i] = i /\ i \in 1..b
      BY <1>2, <2>1, <2>2 DEF Shift, IsSplice
    <3>2. i \in DOMAIN t
      BY <1>2, <3>1 DEF IsSplice
    <3> QED BY <1>2, <3>1, <3>2 DEF IsSplice
  <2>3. CASE i >= e
    <3>1. to[i] = b + Len(m) + 1 + i - e /\ i \in e..Len(s)
      BY <1>2, <2>1, <2>3 DEF Shift, IsSplice
    <3>2. to[i] \in DOMAIN t
      BY <1>2, <3>1 DEF IsSplice
    <3> QED BY <1>2, <3>1, <3>2 DEF IsSplice
  <2> QED BY <2>1, <2>2, <2>3
<1>5. ASSUME NEW i \in D, NEW j \in D, i < j PROVE to[i] < to[j]
  <2>1. /\ to[i] = Shift(b, m, e, i) /\ i \in 1..Len(s) /\ (i <= b \/ i >= e)
        /\ to[j] = Shift(b, m, e, j) /\ j \in 1..Len(s) /\ (j <= b \/ j >= e)
    BY <1>3
  <2>2. /\ Len(m) \in Nat /\ Len(s) \in Nat /\ b \in Nat /\ e \in Nat /\ b < e
    BY <1>2 DEF IsSplice
  <2> QED BY <1>5, <2>1, <2>2 DEF Shift
<1>6. to \in [D -> DOMAIN t]
  BY <1>3, <1>4
<1> QED BY <1>1, <1>4, <1>5, <1>6 DEF InOrder

\* What an injection takes out of a file is a managed line of the POSIX block, or is
\* between the markers of a PowerShell block.
LEMMA InjectedKeepsUsers ==
    ASSUME NEW s \in Seq(Line), NEW b \in Backends, NEW p \in Parts
    PROVE  InOrder(s, Injected(b, p, s), Own(s))
<1>1. Len(s) \in Nat /\ DOMAIN s = 1..Len(s)
  BY LenProperties
<1>2. \A i \in Own(s) : i \in 1..Len(s) /\ s[i][1] = "user" /\ ~Enclosed(s, i)
  BY <1>1 DEF Own
<1>3. PICK t : t = Injected(b, p, s)
  OBVIOUS
<1>4. ASSUME NEW w \in Seq(Line), NEW x \in 0..Len(s), NEW y \in (x + 1)..(Len(s) + 1), t = Splice(s, x, w, y),
             \A i \in Own(s) : i <= x \/ i >= y
      PROVE  InOrder(s, t, Own(s))
  BY <1>2, <1>4, KeptInOrder
<1>5. ASSUME NEW w \in Seq(Line), t = Splice(s, Len(s), w, Len(s) + 1)
      PROVE  InOrder(s, t, Own(s))
  <2>1. Len(s) \in 0..Len(s) /\ Len(s) + 1 \in (Len(s) + 1)..(Len(s) + 1) /\ \A i \in Own(s) : i <= Len(s)
    BY <1>1, <1>2
  <2> QED BY <1>4, <1>5, <2>1
<1>6. CASE b = "posix"
  <2>1. PICK f \in ShFiles : f = FileOf[b][p]
    BY <1>6, FileKinds
  <2>2. PICK m : m = FirstOf(s, Marker, 0)
    OBVIOUS
  <2>3. PICK e : e = BlockEnd(s, m)
    OBVIOUS
  <2>4. PICK w : w = KeptFor(s, f, "env.sh") \o KeptFor(s, f, "shell.sh")
    OBVIOUS
  <2>5. \/ m = 0 /\ t = Splice(s, Len(s), <<Marker, Source(f, "here")>>, Len(s) + 1)
        \/ /\ m # 0 /\ m \in 1..Len(s) /\ e \in m..Len(s) /\ t = Splice(s, m, w, e + 1)
    <3>1. t = ReplaceOrAppend(s, f)
      BY <1>3, <1>6, <2>1 DEF Injected
    <3>2. \/ /\ m = 0 /\ ReplaceOrAppend(s, f) = Splice(s, Len(s), <<Marker, Source(f, "here")>>, Len(s) + 1)
          \/ /\ m \in 1..Len(s) /\ s[m] = Marker /\ e \in m..Len(s)
             /\ ReplaceOrAppend(s, f) = Splice(s, m, KeptFor(s, f, "env.sh") \o KeptFor(s, f, "shell.sh"), e + 1)
      BY <2>2, <2>3, PosixForm
    <3> QED BY <2>4, <3>1, <3>2
  <2>6. CASE m = 0
    <3>1. <<Marker, Source(f, "here")>> \in Seq(Line)
      <4>1. Source(f, "here") \in Line /\ Marker \in Line
        BY LineKinds DEF Source, Line, FragmentFiles, FileOf, Backends, Parts, ShFiles
      <4> QED BY <4>1
    <3>2. t = Splice(s, Len(s), <<Marker, Source(f, "here")>>, Len(s) + 1)
      BY <2>5, <2>6
    <3>3. InOrder(s, t, Own(s))
      BY <1>5, <3>1, <3>2
    <3> QED BY <1>3, <3>3
  <2>7. CASE m # 0
    <3>1. m \in 1..Len(s) /\ e \in m..Len(s) /\ t = Splice(s, m, w, e + 1)
      BY <2>5, <2>7
    <3>2. KeptFor(s, f, "env.sh") \in Seq(Line) /\ KeptFor(s, f, "shell.sh") \in Seq(Line)
      BY <2>2, <2>7, KeptLemma DEF ShFiles
    <3>3. w \in Seq(Line)
      BY <2>4, <3>2, ConcatProperties
    <3>4. ASSUME NEW i \in Own(s) PROVE i <= m \/ i >= e + 1
      <4>1. ASSUME i \in (m + 1)..e PROVE FALSE
        <5>1. Managed(s[i])
          BY <2>3, <3>1, <4>1, BlockEndLemma
        <5> QED BY <1>2, <5>1 DEF Managed
      <4> QED BY <1>1, <1>2, <3>1, <4>1
    <3>5. m \in 0..Len(s) /\ e + 1 \in (m + 1)..(Len(s) + 1)
      BY <1>1, <3>1
    <3>6. InOrder(s, t, Own(s))
      BY <1>4, <3>1, <3>3, <3>4, <3>5
    <3> QED BY <1>3, <3>6
  <2> QED BY <2>5, <2>6, <2>7
<1>7. CASE b = "powershell"
  <2>1. PICK x : x = FirstOf(s, Begin(p), 0)
    OBVIOUS
  <2>2. PICK y : y = FirstOf(s, End(p), x)
    OBVIOUS
  <2>3. t = InjectProfileLine(s, p)
    BY <1>3, <1>7 DEF Injected
  <2>4. \/ t = Splice(s, Len(s), Block(p), Len(s) + 1)
        \/ t = s
        \/ x \in 1..Len(s) /\ y \in (x + 1)..Len(s) /\ t = Splice(s, x, <<Dot(p)>>, y)
    <3>1. \/ InjectProfileLine(s, p) = Splice(s, Len(s), Block(p), Len(s) + 1)
          \/ InjectProfileLine(s, p) = s
          \/ x \in 1..Len(s) /\ y \in (x + 1)..Len(s) /\ InjectProfileLine(s, p) = Splice(s, x, <<Dot(p)>>, y)
      BY <2>1, <2>2, ProfileForm
    <3> QED BY <2>3, <3>1
  <2>5. Block(p) \in Seq(Line) /\ <<Dot(p)>> \in Seq(Line)
    BY BlockLines
  <2>6. CASE t = Splice(s, Len(s), Block(p), Len(s) + 1)
    BY <1>3, <1>5, <2>5, <2>6
  <2>7. CASE t = s
    <3>1. PICK to : to = [i \in Own(s) |-> i]
      OBVIOUS
    <3>2. to \in [Own(s) -> DOMAIN t]
      BY <1>1, <1>2, <2>7, <3>1
    <3>3. (\A i \in Own(s) : t[to[i]] = s[i]) /\ \A i, j \in Own(s) : i < j => to[i] < to[j]
      BY <2>7, <3>1
    <3> QED BY <1>3, <3>2, <3>3 DEF InOrder
  <2>8. CASE x \in 1..Len(s) /\ y \in (x + 1)..Len(s) /\ t = Splice(s, x, <<Dot(p)>>, y)
    <3>1. ASSUME NEW i \in Own(s) PROVE i <= x \/ i >= y
      <4>1. ASSUME x < i, i < y PROVE FALSE
        <5>1. x > 0
          BY <1>1, <2>8
        <5>2. Enclosed(s, i)
          BY <2>1, <2>2, <4>1, <5>1 DEF Enclosed
        <5> QED BY <1>2, <5>2
      <4> QED BY <1>1, <1>2, <2>8, <4>1
    <3>2. x \in 0..Len(s) /\ y \in (x + 1)..(Len(s) + 1)
      BY <1>1, <2>8
    <3> QED BY <1>3, <1>4, <2>5, <2>8, <3>1, <3>2
  <2> QED BY <2>4, <2>6, <2>7, <2>8
<1> QED BY <1>6, <1>7 DEF Backends

\* A line is for a fragment.
For(line, f) == line[1] = "source" /\ line[2] = f

\* There are as many lines for a fragment as there are, and no more than lines.
LEMMA CountType == ASSUME NEW s \in Seq(Line), NEW f PROVE IsFiniteSet(LinesFor(s, f)) /\ Count(s, f) \in Nat
<1>1. Len(s) \in Nat /\ DOMAIN s = 1..Len(s)
  BY LenProperties
<1>2. IsFiniteSet(1..Len(s))
  BY <1>1, FS_Interval
<1>3. LinesFor(s, f) \in SUBSET (1..Len(s))
  BY <1>1 DEF LinesFor
<1>4. IsFiniteSet(LinesFor(s, f))
  BY <1>2, <1>3, FS_Subset
<1> QED BY <1>4, FS_CardinalityType DEF Count

\* A rewrite that puts in no line for a fragment, or one for at least one that it takes
\* out, adds none.
LEMMA SpliceCount ==
    ASSUME NEW s \in Seq(Line), NEW m \in Seq(Line), NEW b \in 0..Len(s), NEW e \in (b + 1)..(Len(s) + 1),
           NEW f, NEW w \in Nat,
           \/ \A i \in 1..Len(m) : ~For(m[i], f)
           \/ /\ w \in (b + 1)..(e - 1) /\ For(s[w], f)
              /\ \A i, j \in 1..Len(m) : For(m[i], f) /\ For(m[j], f) => i = j
    PROVE  Count(Splice(s, b, m, e), f) <= Count(s, f)
<1>1. PICK t : t = Splice(s, b, m, e)
  OBVIOUS
<1>2. IsSplice(t, s, b, m, e)
  BY <1>1, Spliced
<1>3. PICK l \in Nat, n \in Nat : l = Len(m) /\ n = Len(s)
  BY <1>2 DEF IsSplice
<1>4. /\ t \in Seq(Line) /\ DOMAIN t = 1..Len(t) /\ DOMAIN s = 1..n /\ Len(t) \in Nat
      /\ b \in Nat /\ b <= n /\ e \in Nat /\ b < e /\ e <= n + 1
      /\ \A i \in 1..b : t[i] = s[i]
      /\ \A i \in 1..Len(t) : \/ i <= b
                              \/ i > b /\ i <= b + l /\ t[i] = m[i - b]
                              \/ /\ i > b + l /\ i - b - l - 1 + e \in e..n
                                 /\ t[i] = s[i - b - l - 1 + e]
  BY <1>2, <1>3 DEF IsSplice
<1>5. PICK g : g = [i \in LinesFor(t, f) |-> IF i <= b THEN i ELSE IF i <= b + l THEN w ELSE i - b - l - 1 + e]
  OBVIOUS
<1>6. /\ \A i : i \in LinesFor(t, f) <=> i \in 1..Len(t) /\ For(t[i], f)
      /\ \A i : i \in LinesFor(s, f) <=> i \in 1..n /\ For(s[i], f)
  BY <1>4 DEF LinesFor, For
<1>7. ASSUME NEW i \in LinesFor(t, f)
      PROVE  /\ g[i] \in LinesFor(s, f)
             /\ \/ i <= b /\ g[i] = i
                \/ /\ i > b /\ i <= b + l /\ g[i] = w /\ w > b /\ w < e
                   /\ i - b \in 1..l /\ For(m[i - b], f)
                   /\ \A x, y \in 1..l : For(m[x], f) /\ For(m[y], f) => x = y
                \/ i > b + l /\ g[i] = i - b - l - 1 + e /\ g[i] >= e
  <2>1. i \in 1..Len(t) /\ For(t[i], f) /\ g[i] = IF i <= b THEN i ELSE IF i <= b + l THEN w ELSE i - b - l - 1 + e
    BY <1>5, <1>6
  <2>2. CASE i <= b
    <3>1. i \in 1..b /\ i \in 1..n
      BY <1>4, <2>1, <2>2
    <3>2. For(s[i], f)
      BY <1>4, <2>1, <3>1
    <3> QED BY <1>6, <2>1, <2>2, <3>1, <3>2
  <2>3. CASE i > b /\ i <= b + l /\ t[i] = m[i - b]
    <3>1. i - b \in 1..l /\ For(m[i - b], f)
      BY SMTT(30), <1>4, <2>1, <2>3
    <3>2. /\ w \in (b + 1)..(e - 1) /\ For(s[w], f)
          /\ \A x, y \in 1..l : For(m[x], f) /\ For(m[y], f) => x = y
      BY <1>3, <3>1
    <3>3. w \in 1..n /\ w > b /\ w < e
      BY <1>4, <3>2
    <3>4. w \in LinesFor(s, f) /\ g[i] = w
      BY <1>4, <1>6, <2>1, <2>3, <3>2, <3>3
    <3> QED BY <2>3, <3>1, <3>2, <3>3, <3>4
  <2>4. CASE i > b + l /\ i - b - l - 1 + e \in e..n /\ t[i] = s[i - b - l - 1 + e]
    <3>1. g[i] = i - b - l - 1 + e /\ g[i] \in e..n
      BY <1>4, <2>1, <2>4
    <3>2. g[i] \in 1..n /\ For(s[g[i]], f) /\ g[i] >= e
      BY <1>4, <2>1, <2>4, <3>1
    <3> QED BY <1>6, <2>4, <3>1, <3>2
  <2> QED BY <1>4, <2>1, <2>2, <2>3, <2>4
<1>8. ASSUME NEW i \in LinesFor(t, f), NEW j \in LinesFor(t, f), g[i] = g[j] PROVE i = j
  <2>1. i \in Nat /\ j \in Nat
    BY <1>4, <1>6
  <2>2. \/ i <= b /\ g[i] = i
        \/ /\ i > b /\ i <= b + l /\ g[i] = w /\ w > b /\ w < e
           /\ i - b \in 1..l /\ For(m[i - b], f)
           /\ \A x, y \in 1..l : For(m[x], f) /\ For(m[y], f) => x = y
        \/ i > b + l /\ g[i] = i - b - l - 1 + e /\ g[i] >= e
    BY <1>7
  <2>3. \/ j <= b /\ g[j] = j
        \/ j > b /\ j <= b + l /\ g[j] = w /\ w > b /\ w < e /\ j - b \in 1..l /\ For(m[j - b], f)
        \/ j > b + l /\ g[j] = j - b - l - 1 + e /\ g[j] >= e
    BY <1>7
  <2>4. CASE i > b /\ i <= b + l /\ j > b /\ j <= b + l
    <3>1. i - b = j - b
      BY <1>4, <2>1, <2>2, <2>3, <2>4
    <3> QED BY <1>4, <2>1, <3>1
  <2>5. CASE ~(i > b /\ i <= b + l /\ j > b /\ j <= b + l)
    <3>1. CASE i <= b
      BY <1>4, <1>8, <2>1, <2>2, <2>3, <3>1
    <3>2. CASE i > b /\ i <= b + l
      BY <1>4, <1>8, <2>1, <2>2, <2>3, <2>5, <3>2
    <3>3. CASE i > b + l
      BY <1>4, <1>8, <2>1, <2>2, <2>3, <3>3
    <3> QED BY <2>2, <3>1, <3>2, <3>3
  <2> QED BY <2>4, <2>5
<1>9. g \in Injection(LinesFor(t, f), LinesFor(s, f))
  <2>1. g \in [LinesFor(t, f) -> LinesFor(s, f)]
    BY <1>5, <1>7
  <2> QED BY <1>8, <2>1 DEF Injection, IsInjective
<1>10. Cardinality(LinesFor(t, f)) <= Cardinality(LinesFor(s, f))
  BY <1>9, CountType, FS_Injection
<1> QED BY <1>1, <1>10 DEF Count

\* An injection adds no line for a fragment whose block has one.
LEMMA InjectedCounts ==
    ASSUME NEW s \in Seq(Line), NEW b \in Backends, NEW p \in Parts, NEW f \in FragmentFiles, NEW r,
           r \in PosixRcs <=> b = "posix", InBlock(r, s, f)
    PROVE  Count(Injected(b, p, s), f) <= Count(s, f)
<1>1. Len(s) \in Nat /\ DOMAIN s = 1..Len(s)
  BY LenProperties
<1>2. PICK t : t = Injected(b, p, s)
  OBVIOUS
<1>3. CASE b = "posix"
  <2>1. PICK g \in ShFiles : g = FileOf[b][p]
    BY <1>3, FileKinds
  <2>2. PICK m : m = FirstOf(s, Marker, 0)
    OBVIOUS
  <2>3. PICK e : e = BlockEnd(s, m)
    OBVIOUS
  <2>4. PICK w \in LinesFor(s, f) : m > 0 /\ m < w /\ w <= e
    BY <1>3, <2>2, <2>3 DEF InBlock
  <2>5. t = ReplaceOrAppend(s, g)
    BY <1>2, <1>3, <2>1 DEF Injected
  <2>6. PICK x : x = KeptFor(s, g, "env.sh")
    OBVIOUS
  <2>7. PICK y : y = KeptFor(s, g, "shell.sh")
    OBVIOUS
  <2>8. m # 0 /\ m \in 1..Len(s) /\ e \in m..Len(s) /\ t = Splice(s, m, x \o y, e + 1)
    <3>1. m # 0
      BY <1>1, <2>2, <2>4, FirstOfLemma
    <3>2. \/ m = 0
          \/ /\ m \in 1..Len(s) /\ e \in m..Len(s)
             /\ ReplaceOrAppend(s, g) = Splice(s, m, KeptFor(s, g, "env.sh") \o KeptFor(s, g, "shell.sh"), e + 1)
      BY <2>2, <2>3, PosixForm
    <3> QED BY <2>5, <2>6, <2>7, <3>1, <3>2
  <2>9. /\ x \in Seq(Line) /\ (x = <<>> \/ (Len(x) = 1 /\ x[1][2] = "env.sh"))
        /\ y \in Seq(Line) /\ (y = <<>> \/ (Len(y) = 1 /\ y[1][2] = "shell.sh"))
    BY <2>2, <2>6, <2>7, <2>8, KeptLemma DEF ShFiles
  <2>10. PICK k : k = x \o y
    OBVIOUS
  <2>11. /\ k \in Seq(Line) /\ Len(k) = Len(x) + Len(y) /\ Len(x) \in {0, 1} /\ Len(y) \in {0, 1}
         /\ \A i \in 1..(Len(x) + Len(y)) : k[i] = IF i <= Len(x) THEN x[i] ELSE y[i - Len(x)]
    BY <2>9, <2>10, ConcatProperties, EmptySeq
  <2>e. ASSUME NEW z \in Seq(Line), Len(z) = 1 PROVE z # <<>>
    <3>1. ASSUME z = <<>> PROVE FALSE
      <4>1. PICK n : n = Len(z)
        OBVIOUS
      <4>2. n = Len(<<>>)
        BY ONLY <3>1, <4>1, Zenon
      <4>3. n = 0
        BY ONLY <4>2, EmptySeq
      <4> QED BY <2>e, <4>1, <4>3
    <3> QED BY <3>1
  <2>12. ASSUME NEW i \in 1..Len(k) PROVE (i = 1 /\ Len(x) = 1 /\ k[i][2] = "env.sh") \/ (i = Len(x) + 1 /\ k[i][2] = "shell.sh")
    <3>1. CASE i <= Len(x)
      <4>1. i = 1 /\ Len(x) = 1 /\ k[i] = x[1]
        BY <2>11, <3>1
      <4>3. x # <<>>
        BY <2>9, <2>e, <4>1
      <4>4. x[1][2] = "env.sh"
        BY <2>9, <4>3
      <4> QED BY <4>1, <4>4
    <3>2. CASE i > Len(x)
      <4>1. i = Len(x) + 1 /\ Len(y) = 1 /\ i - Len(x) = 1 /\ k[i] = y[1]
        BY <2>11, <3>2
      <4>2. y # <<>>
        BY <2>9, <2>e, <4>1
      <4>3. y[1][2] = "shell.sh"
        BY <2>9, <4>2
      <4> QED BY <4>1, <4>3
    <3> QED BY <2>11, <3>1, <3>2
  <2>13. \A i, j \in 1..Len(k) : For(k[i], f) /\ For(k[j], f) => i = j
    <3> SUFFICES ASSUME NEW i \in 1..Len(k), NEW j \in 1..Len(k), k[i][2] = f, k[j][2] = f PROVE i = j
      BY DEF For
    <3>1. (i = 1 /\ k[i][2] = "env.sh") \/ (i = Len(x) + 1 /\ k[i][2] = "shell.sh")
      BY <2>12
    <3>2. (j = 1 /\ k[j][2] = "env.sh") \/ (j = Len(x) + 1 /\ k[j][2] = "shell.sh")
      BY <2>12
    <3>3. "env.sh" # "shell.sh"
      OBVIOUS
    <3> QED BY <3>1, <3>2, <3>3
  <2>14. w \in Nat /\ w \in (m + 1)..((e + 1) - 1) /\ For(s[w], f)
    BY <1>1, <2>4, <2>8 DEF LinesFor, For
  <2>15. m \in 0..Len(s) /\ e + 1 \in (m + 1)..(Len(s) + 1) /\ t = Splice(s, m, k, e + 1)
    BY <1>1, <2>8, <2>10
  <2>16. Count(Splice(s, m, k, e + 1), f) <= Count(s, f)
    BY <2>11, <2>13, <2>14, <2>15, SpliceCount
  <2> QED BY <1>2, <2>15, <2>16
<1>4. CASE b = "powershell"
  <2>1. PICK w \in LinesFor(s, f), q \in Parts :
          LET x == FirstOf(s, Begin(q), 0)
              y == FirstOf(s, End(q), x)
          IN  f = FileOf["powershell"][q] /\ x > 0 /\ x < w /\ w < y
    BY <1>4 DEF InBlock
  <2>2. PICK x : x = FirstOf(s, Begin(p), 0)
    OBVIOUS
  <2>3. PICK y : y = FirstOf(s, End(p), x)
    OBVIOUS
  <2>4. t = InjectProfileLine(s, p)
    BY <1>2, <1>4 DEF Injected
  <2>5. \/ x = 0 /\ t = Splice(s, Len(s), Block(p), Len(s) + 1)
        \/ t = s
        \/ x \in 1..Len(s) /\ y \in (x + 1)..Len(s) /\ t = Splice(s, x, <<Dot(p)>>, y)
    <3>1. \/ x = 0 /\ InjectProfileLine(s, p) = Splice(s, Len(s), Block(p), Len(s) + 1)
          \/ InjectProfileLine(s, p) = s
          \/ x \in 1..Len(s) /\ y \in (x + 1)..Len(s) /\ InjectProfileLine(s, p) = Splice(s, x, <<Dot(p)>>, y)
      BY <2>2, <2>3, ProfileForm
    <3> QED BY <2>4, <3>1
  <2>6. w \in Nat /\ For(s[w], f) /\ w \in 1..Len(s)
    BY <1>1 DEF LinesFor, For
  <2>7. For(Dot(p), f) => p = q
    BY <2>1, FileKinds DEF For, Dot, Source, Backends
  <2>8. ~For(Begin(p), f) /\ ~For(End(p), f)
    BY DEF For, Begin, End
  <2>9. /\ Block(p) \in Seq(Line) /\ Len(Block(p)) = 3
        /\ Block(p)[1] = Begin(p) /\ Block(p)[2] = Dot(p) /\ Block(p)[3] = End(p)
        /\ <<Dot(p)>> \in Seq(Line) /\ Len(<<Dot(p)>>) = 1 /\ <<Dot(p)>>[1] = Dot(p)
    BY BlockLines
  <2>10. CASE x = 0 /\ t = Splice(s, Len(s), Block(p), Len(s) + 1)
    <3>1. p # q
      BY <2>1, <2>2, <2>10
    <3>2. \A i \in 1..Len(Block(p)) : ~For(Block(p)[i], f)
      <4>1. \A i \in 1..3 : i = 1 \/ i = 2 \/ i = 3
        OBVIOUS
      <4> QED BY <2>7, <2>8, <2>9, <3>1, <4>1
    <3>3. Len(s) \in 0..Len(s) /\ Len(s) + 1 \in (Len(s) + 1)..(Len(s) + 1)
      BY <1>1
    <3>4. Count(Splice(s, Len(s), Block(p), Len(s) + 1), f) <= Count(s, f)
      BY <2>6, <2>9, <3>2, <3>3, SpliceCount
    <3> QED BY <1>2, <2>10, <3>4
  <2>11. CASE t = s
    <3>1. Count(s, f) \in Nat
      BY CountType
    <3> QED BY <1>2, <2>11, <3>1
  <2>12. CASE x \in 1..Len(s) /\ y \in (x + 1)..Len(s) /\ t = Splice(s, x, <<Dot(p)>>, y)
    <3>1. PICK d : d = <<Dot(p)>>
      OBVIOUS
    <3>2. d \in Seq(Line) /\ Len(d) = 1 /\ d[1] = Dot(p)
      BY <2>9, <3>1
    <3>3. \A i \in 1..Len(d) : i = 1
      BY <3>2
    <3>4. \/ \A i \in 1..Len(d) : ~For(d[i], f)
          \/ /\ w \in (x + 1)..(y - 1) /\ For(s[w], f)
             /\ \A i, j \in 1..Len(d) : For(d[i], f) /\ For(d[j], f) => i = j
      <4>1. CASE p # q
        BY <2>7, <3>2, <3>3, <4>1
      <4>2. CASE p = q
        <5>1. x < w /\ w < y
          BY <2>1, <2>2, <2>3, <4>2
        <5>2. w \in (x + 1)..(y - 1)
          BY <1>1, <2>6, <2>12, <5>1
        <5> QED BY <2>6, <3>3, <5>2
      <4> QED BY <4>1, <4>2
    <3>5. x \in 0..Len(s) /\ y \in (x + 1)..(Len(s) + 1)
      BY <1>1, <2>12
    <3>6. Count(Splice(s, x, d, y), f) <= Count(s, f)
      BY <2>6, <3>2, <3>4, <3>5, SpliceCount
    <3> QED BY <1>2, <2>12, <3>1, <3>6
  <2> QED BY <2>5, <2>10, <2>11, <2>12
<1> QED BY <1>3, <1>4 DEF Backends

-----------------------------------------------------------------------------
(* The initial states, and the steps of the user.                          *)

\* At first nothing is recorded and there is no fragment.
LEMMA InitIInv == ASSUME Init PROVE IInv
<1>1. Documents # {} /\ spec \in Documents
  BY DocumentsAssumption DEF Init
<1>2. NoLock \in Docs /\ Idle \in Runs
  BY <1>1, ContentKinds, IdleIsARun
<1>3. Shape
  <2>1. \A f \in FragmentFiles : fragment[f] = Absent /\ Absent # {}
    BY <1>1, DocumentsAssumption DEF Init
  <2>2. fragment \in [FragmentFiles -> {Absent} \cup {Content(b, p, d) : b \in Backends, p \in Parts, d \in Docs}]
    BY DEF Init
  <2>3. rc \in [Rcs -> Seq(Line) \cup {Absent}] /\ \A r \in Profiles : Apart(Lines(rc[r]))
    BY RcsAssumption DEF Init
  <2>4. host \in Hosts /\ lock \in Docs /\ run \in Runs /\ fresh \in BOOLEAN /\ forgotten \in BOOLEAN
    BY <1>2, HostsAssumption DEF Init
  <2>5. runs \in 0..MaxRuns /\ faults \in 0..MaxFaults /\ edits \in 0..MaxEdits
    BY BoundsAssumption DEF Init
  <2> QED BY <1>1, <2>1, <2>2, <2>3, <2>4, <2>5 DEF Shape
<1>4. \A p \in Parts : View(spec).blank[p] = Backends
  BY FileKinds DEF Init, View
<1> QED BY <1>3, <1>4 DEF Init, IInv, Running, Resting, NoneBesides, FreshIsServed, Idle, Blank

\* The counters keep their bounds.
LEMMA EditLeft == ASSUME Shape, Edit PROVE edits' \in 0..MaxEdits /\ fresh' = FALSE /\ edits' = edits + 1
BY BoundsAssumption DEF Shape, Edit

\* Likewise for faults.
LEMMA FaultLeft == ASSUME Shape, Fault PROVE faults' \in 0..MaxFaults
BY BoundsAssumption DEF Shape, Fault

\* The steps of the user keep the invariant, one by one.
LEMMA EditSpecKeeps == ASSUME IInv, EditSpec PROVE IInv'
<1>1. View(spec)'.blank = View(spec).blank /\ View(spec)'.forgotten = View(spec).forgotten
  BY DEF EditSpec, View
<1>2. Chosen' = Chosen
  BY DEF EditSpec, Chosen, PosixRelevant
<1>3. Shape'
  <2>1. Shape /\ Edit
    BY DEF IInv, EditSpec
  <2>2. edits' \in 0..MaxEdits /\ fresh' \in BOOLEAN
    BY <2>1, EditLeft
  <2> QED BY <2>2 DEF IInv, Shape, EditSpec
<1>4. Resting' /\ Running'
  BY <1>1 DEF IInv, Resting, Running, EditSpec, Blank
<1>5. NoneBesides'
  BY <1>1, <1>2 DEF IInv, NoneBesides, EditSpec
<1> QED BY <1>3, <1>4, <1>5 DEF IInv, FreshIsServed, EditSpec, Edit

\* Another shell on the host.
LEMMA ChangeHostKeeps == ASSUME IInv, ChangeHost PROVE IInv'
<1>1. Shape'
  <2>1. Shape /\ Edit
    BY DEF IInv, ChangeHost
  <2>2. edits' \in 0..MaxEdits /\ fresh' \in BOOLEAN
    BY <2>1, EditLeft
  <2> QED BY <2>2 DEF IInv, Shape, ChangeHost
<1>2. Resting' /\ Running'
  <2>1. View(spec)'.forgotten
    BY DEF View, ChangeHost
  <2> QED BY <2>1 DEF IInv, Resting, Running, ChangeHost, Blank
<1> QED BY <1>1, <1>2 DEF IInv, FreshIsServed, NoneBesides, ChangeHost, Edit

\* The lock is lost.
LEMMA LoseLockKeeps == ASSUME IInv, LoseLock PROVE IInv'
<1>1. Shape'
  <2>1. NoLock \in Docs
    BY ContentKinds DEF IInv, Shape
  <2>2. Shape /\ Edit
    BY DEF IInv, LoseLock
  <2>3. edits' \in 0..MaxEdits /\ fresh' \in BOOLEAN
    BY <2>2, EditLeft
  <2> QED BY <2>1, <2>3 DEF IInv, Shape, LoseLock
<1>2. Resting' /\ Running'
  <2>1. View(spec)'.forgotten
    BY DEF View, LoseLock
  <2> QED BY <2>1 DEF IInv, Resting, Running, LoseLock, Blank
<1> QED BY <1>1, <1>2 DEF IInv, FreshIsServed, NoneBesides, LoseLock, Edit

-----------------------------------------------------------------------------
(* A start-up file is rewritten.                                           *)

LEMMA RcWritten ==
    ASSUME Shape, NEW b \in Backends, NEW t \in Seq(Line), b = "powershell" => Apart(t),
           rc' = [rc EXCEPT ![RcOf(b)] = t], host' = host
    PROVE  /\ rc' \in [Rcs -> Seq(Line) \cup {Absent}] /\ \A r \in Profiles : Apart(Lines(rc'[r]))
           /\ rc'[RcOf(b)] = t /\ Lines(t) = t /\ \A r \in Rcs \ {RcOf(b)} : rc'[r] = rc[r]
           /\ RcOf("posix")' = RcOf("posix") /\ RcOf("powershell")' = RcOf("powershell")
           /\ Chosen \subseteq Chosen' /\ (~host.windows \/ b \in Chosen => Chosen' = Chosen)
<1>1. /\ RcOf("posix") \in PosixRcs /\ RcOf("powershell") \in Profiles /\ b \in {"posix", "powershell"}
      /\ PosixRcs \subseteq Rcs /\ Profiles \subseteq Rcs /\ PosixRcs \cap Profiles = {}
  BY FileKinds DEF Backends
<1>2. rc \in [Rcs -> Seq(Line) \cup {Absent}] /\ \A r \in Profiles : Apart(Lines(rc[r]))
  BY DEF Shape
<1>3. t # Absent /\ Lines(t) = t
  BY RcsAssumption DEF Lines
<1>4. /\ rc' \in [Rcs -> Seq(Line) \cup {Absent}]
      /\ rc'[RcOf(b)] = t /\ \A r \in Rcs \ {RcOf(b)} : rc'[r] = rc[r]
  BY <1>1, <1>2
<1>5. \A r \in Profiles : Apart(Lines(rc'[r]))
  <2> SUFFICES ASSUME NEW r \in Profiles PROVE Apart(Lines(rc'[r]))
    OBVIOUS
  <2>1. CASE r = RcOf(b)
    BY <1>1, <1>3, <1>4, <2>1
  <2>2. CASE r # RcOf(b)
    BY <1>1, <1>2, <1>4, <2>2
  <2> QED BY <2>1, <2>2
<1>6. RcOf("posix")' = RcOf("posix") /\ RcOf("powershell")' = RcOf("powershell")
  BY DEF RcOf, PosixRc, ProfilePath
<1>7. PosixRelevant => PosixRelevant'
  <2>1. ASSUME NEW r \in PosixRcs, rc[r] # Absent PROVE rc'[r] # Absent
    BY <1>1, <1>3, <1>4, <2>1
  <2> QED BY <2>1 DEF PosixRelevant
<1>c. /\ \A x : x \in Chosen <=> /\ x \in Backends
                                 /\ \/ x = "posix" /\ (~host.windows \/ PosixRelevant)
                                    \/ x # "posix" /\ host.windows /\ host.engine # "none"
      /\ \A x : x \in Chosen' <=> /\ x \in Backends
                                  /\ \/ x = "posix" /\ (~host.windows \/ PosixRelevant')
                                     \/ x # "posix" /\ host.windows /\ host.engine # "none"
  BY DEF Chosen
<1>8. Chosen \subseteq Chosen'
  BY <1>7, <1>c
<1>9. CASE ~host.windows
  <2>1. \A x : x \in Chosen' <=> x \in Chosen
    BY <1>9, <1>c
  <2> QED BY <1>9, <2>1
<1>10. CASE host.windows /\ b = "posix" /\ b \in Chosen
  <2>1. PosixRelevant
    BY <1>10, <1>c
  <2>2. \A x : x \in Chosen' <=> x \in Chosen
    BY <1>7, <1>10, <1>c, <2>1
  <2> QED BY <1>10, <2>2
<1>11. CASE b = "powershell"
  <2>1. \A r \in PosixRcs : rc'[r] = rc[r]
    BY <1>1, <1>4, <1>11
  <2>2. PosixRelevant' = PosixRelevant
    BY <2>1 DEF PosixRelevant
  <2>3. \A x : x \in Chosen' <=> x \in Chosen
    BY <1>c, <2>2
  <2> QED BY <2>3
<1> QED BY <1>1, <1>3, <1>4, <1>5, <1>6, <1>8, <1>9, <1>10, <1>11

\* What a run knows while it is at one part.
LEMMA AtWork ==
    ASSUME IInv, NEW p \in Parts, Rendering(p) \/ Injecting(p)
    PROVE  /\ During(p, run, View(spec)) /\ Seen(spec, View(spec))
           /\ (p = "env" => Ahead("shell", run, View(spec))) /\ (p = "shell" => Over("env", run, View(spec)))
           /\ Rendering(p) => run.pc # RcStep[p]
           /\ Now \in Backends /\ Now \in Chosen /\ Tail(run.todo) \in Todos
           /\ ToSet(run.todo) = {Now} \cup ToSet(Tail(run.todo))
           /\ run.doc = spec /\ run \in Runs /\ spec \in Docs /\ run.since <= edits
           /\ run.since \in Nat /\ edits \in Nat
           /\ run.settled => spec.env = lock.env /\ Entries(spec.shell) = Entries(lock.shell)
<1>1. /\ RcStep["env"] = "env rc" /\ RcStep["shell"] = "shell rc" /\ (p = "env" \/ p = "shell")
  BY DEF RcStep, Parts
<1>2. run.pc # "idle" /\ Running /\ Shape /\ NoneBesides /\ (Rendering(p) => run.pc # RcStep[p])
  BY <1>1 DEF IInv, Rendering, Injecting
<1>3. Sound(run, View(spec)) /\ run.doc = spec /\ run.since <= edits
  BY <1>2 DEF Running
<1>4. During(p, run, View(spec)) /\ (p = "env" => Ahead("shell", run, View(spec)))
      /\ (p = "shell" => Over("env", run, View(spec)))
  BY <1>1, <1>3 DEF Sound, Rendering, Injecting
<1>5. run \in Runs /\ spec \in Docs /\ edits \in Nat
  BY <1>2, ContentKinds, BoundsAssumption DEF Shape
<1>6. run.todo \in Todos /\ run.todo # <<>> /\ ToSet(run.todo) \subseteq View(spec).chosen /\ run.since \in Nat
  BY <1>4, <1>5 DEF During, Runs
<1>7. View(spec).chosen = Chosen
  BY DEF View
<1> QED BY <1>2, <1>3, <1>4, <1>5, <1>6, <1>7, TodoKinds, ViewLemma DEF Now, Running

\* A kill leaves what is there, and `forgotten` behind.
LEMMA KillKeeps == ASSUME IInv, Kill PROVE IInv'
<1>1. run' = Idle /\ forgotten' = TRUE /\ UNCHANGED <<spec, host, lock, fragment, runs, edits>> /\ Fault
  BY DEF Kill
<1>2. faults' \in 0..MaxFaults /\ Idle \in Runs /\ Shape
  <2>1. Idle \in Runs
    BY IdleIsARun DEF IInv, Shape
  <2> QED BY <1>1, <2>1, FaultLeft DEF IInv
<1>3. CASE rc' = rc /\ fresh' = fresh
  <2>1. Shape'
    BY <1>1, <1>2, <1>3 DEF Shape
  <2>2. Chosen' = Chosen /\ \A p \in Parts, b \in Backends : /\ Written(b, p, spec)' = Written(b, p, spec)
                                                            /\ Served(b, p, spec)' = Served(b, p, spec)
    BY <1>1, <1>3 DEF Chosen, PosixRelevant, Written, Served, NeedsLine, ShouldInject, Sourced,
                      RcOf, PosixRc, ProfilePath
  <2>3. Chosen \subseteq Backends
    BY DEF Chosen
  <2>4. FreshIsServed'
    BY <1>1, <1>3, <2>2, <2>3 DEF IInv, FreshIsServed
  <2>5. Resting' /\ Running' /\ NoneBesides'
    <3>1. View(spec)'.forgotten
      BY <1>1 DEF View
    <3> QED BY <1>1, <3>1 DEF Resting, Running, NoneBesides, Blank, Idle
  <2> QED BY <2>1, <2>4, <2>5 DEF IInv
<1>4. CASE \E p \in Parts : Injecting(p) /\ rc' = [rc EXCEPT ![RcOf(Now)] = <<>>] /\ fresh' = FALSE
  <2>1. Now \in Backends
    BY <1>4, AtWork
  <2>2. /\ rc' \in [Rcs -> Seq(Line) \cup {Absent}] /\ \A r \in Profiles : Apart(Lines(rc'[r]))
    <3>1. <<>> \in Seq(Line) /\ Apart(<<>>)
      BY DEF Apart
    <3> HIDE DEF Now
    <3> QED BY <1>1, <1>2, <1>4, <2>1, <3>1, RcWritten
  <2>3. Shape'
    <3>1. fresh' \in BOOLEAN
      BY <1>4
    <3> QED BY <1>1, <1>2, <2>2, <3>1 DEF Shape
  <2>5. Resting' /\ Running' /\ NoneBesides'
    <3>1. View(spec)'.forgotten
      BY <1>1 DEF View
    <3> QED BY <1>1, <3>1 DEF Resting, Running, NoneBesides, Blank, Idle
  <2> QED BY <1>4, <2>3, <2>5 DEF IInv, FreshIsServed
<1> QED BY <1>3, <1>4 DEF Kill

\* Unless a start-up file is in the way, a step that leaves the files alone leaves what
\* a shell finds.
LEMMA SameFiles ==
    ASSUME UNCHANGED <<host, fragment, rc>>
    PROVE  /\ Chosen' = Chosen
           /\ \A d : \A p \in Parts, b \in Backends : /\ Written(b, p, d)' = Written(b, p, d)
                                                       /\ Served(b, p, d)' = Served(b, p, d)
BY DEF Chosen, PosixRelevant, Written, Served, NeedsLine, ShouldInject, Sourced, RcOf, PosixRc, ProfilePath

\* A fragment that cannot be written ends its part, or the run.
LEMMA RenderFailsKeeps == ASSUME IInv, NEW p \in Parts, RenderFails(p) PROVE IInv'
<1>1. /\ forgotten' = TRUE /\ UNCHANGED <<spec, host, lock, fragment, rc, fresh, runs, edits>> /\ Fault
      /\ Rendering(p)
  BY DEF RenderFails
<1>2. /\ During(p, run, View(spec)) /\ Seen(spec, View(spec))
      /\ (p = "env" => Ahead("shell", run, View(spec))) /\ (p = "shell" => Over("env", run, View(spec)))
      /\ run.doc = spec /\ run \in Runs /\ run.since <= edits
      /\ run.settled => spec.env = lock.env /\ Entries(spec.shell) = Entries(lock.shell)
  BY <1>1, AtWork
<1>3. faults' \in 0..MaxFaults /\ Idle \in Runs /\ Shape
  <2>1. Idle \in Runs
    BY IdleIsARun DEF IInv, Shape
  <2> QED BY <1>1, <2>1, FaultLeft DEF IInv
<1>4. FreshIsServed' /\ NoneBesides'
  <2>1. Chosen \subseteq Backends
    BY DEF Chosen
  <2> QED BY <1>1, <2>1, SameFiles DEF IInv, FreshIsServed, NoneBesides
<1>5. PICK w : w = View(spec)'
  OBVIOUS
<1>6. /\ w.forgotten /\ w.chosen = Chosen /\ w.lock = lock /\ w.edits = edits /\ w.windows = host.windows
      /\ w.blank = View(spec).blank /\ w.written = View(spec).written /\ w.served = View(spec).served
  BY <1>1, <1>5, SameFiles DEF View
<1>7. CASE run.settled
  <2>1. run' = Idle
    BY <1>7 DEF RenderFails
  <2>2. Shape'
    BY <1>1, <1>3, <2>1 DEF Shape
  <2> QED BY <1>4, <1>5, <1>6, <2>1, <2>2 DEF IInv, Resting, Running, Blank, Idle
<1>8. CASE ~run.settled
  <2>1. PICK r : r = [run EXCEPT !.failed = TRUE]
    OBVIOUS
  <2>2. run' = GiveUp(p, r)
    BY <1>8, <2>1 DEF RenderFails
  <2>3. r \in Runs /\ r.failed /\ r.doc = spec /\ r.lf = run.lf /\ r.since = run.since /\ r.settled = run.settled
    BY <1>2, <2>1 DEF Runs
  <2>4. Seen(r.doc, w)
    BY <1>2, <1>6, <2>3 DEF Seen
  <2>5. r.lf[p] = w.lock[p]
    BY <1>2, <1>6, <2>3 DEF During, View
  <2>6. \A q \in Parts : (Over(q, run, View(spec)) => Over(q, r, w)) /\ (Ahead(q, run, View(spec)) => Ahead(q, r, w))
    <3> SUFFICES ASSUME NEW q \in Parts
                 PROVE  (Over(q, run, View(spec)) => Over(q, r, w)) /\ (Ahead(q, run, View(spec)) => Ahead(q, r, w))
      OBVIOUS
    <3>1. PICK v : v = View(spec)
      OBVIOUS
    <3>2. /\ v.lock = lock /\ v.chosen = Chosen /\ v.edits = edits /\ v.windows = host.windows
          /\ v.blank = w.blank /\ v.written = w.written /\ v.served = w.served
      BY <1>6, <3>1 DEF View
    <3>3. Moved(run, v) = Moved(r, w) /\ ~Clean(r, w)
      BY <1>6, <2>3, <3>2 DEF Moved, Clean
    <3>4. w.blank[q] \subseteq Backends
      BY <2>4 DEF Seen
    <3>5. (Over(q, run, v) => Over(q, r, w)) /\ (Ahead(q, run, v) => Ahead(q, r, w))
      BY <1>2, <1>6, <2>3, <3>2, <3>3, <3>4, OtherPart
    <3> QED BY <3>1, <3>5
  <2>7. /\ run' \in Runs /\ Same(run', r) /\ run'.pc # "idle" /\ Sound(run', w)
    <3>1. "env" \in Parts /\ "shell" \in Parts
      BY DEF Parts
    <3> QED BY <1>2, <1>6, <2>2, <2>3, <2>4, <2>5, <2>6, <3>1, GiveUpLemma
  <2>8. Shape'
    BY <1>1, <1>3, <2>7 DEF Shape
  <2>9. Running' /\ Resting'
    BY <1>1, <1>2, <1>5, <2>3, <2>7 DEF Running, Resting, Same
  <2> QED BY <1>4, <2>8, <2>9 DEF IInv
<1> QED BY <1>7, <1>8

\* The lock takes what the run has found true of each part.
LEMMA FinishKeeps == ASSUME IInv, Finish PROVE IInv'
<1>1. /\ run.pc = "rest" /\ run' = Idle /\ UNCHANGED <<spec, host, fragment, rc, forgotten, runs, edits>>
  BY DEF Finish
<1>2. Shape /\ spec \in Docs /\ run \in Runs /\ lock \in Docs /\ Idle \in Runs
  BY IdleIsARun, ContentKinds DEF IInv, Shape
<1>3. /\ Over("env", run, View(spec)) /\ Over("shell", run, View(spec)) /\ run.doc = spec
      /\ run.settled => spec.env = lock.env /\ Entries(spec.shell) = Entries(lock.shell)
  BY <1>1 DEF IInv, Running, Sound
<1>4. PICK v : v = View(spec)
  OBVIOUS
<1>5. /\ v.chosen = Chosen /\ v.lock = lock /\ v.forgotten = forgotten /\ v.edits = edits
      /\ v.windows = host.windows
      /\ \A p \in Parts : /\ v.written[p] = {b \in Backends : Written(b, p, spec)}
                          /\ v.served[p] = {b \in Backends : Served(b, p, spec)}
                          /\ v.blank[p] = {b \in Backends : fragment[FileOf[b][p]] = Absent}
  BY <1>4 DEF View
<1>6. \A p \in Parts : Over(p, run, v)
  BY <1>3, <1>4 DEF Parts
<1>7. View(spec)'.blank = v.blank /\ View(spec)'.forgotten = v.forgotten
  BY <1>1, <1>4 DEF View
<1>8. /\ faults' \in 0..MaxFaults /\ lock' \in Docs /\ fresh' \in BOOLEAN
      /\ \/ lock' = run.lf
         \/ run.settled /\ lock' = lock
  <2>1. run.lf \in Docs
    BY <1>2 DEF Runs
  <2>2. CASE faults' = faults /\ lock' = run.lf /\ fresh' = (run.since = edits /\ ~run.failed /\ ~run.warned)
    BY <1>2, <2>1, <2>2 DEF Shape
  <2>3. CASE Fault /\ lock' = (IF run.settled THEN lock ELSE run.lf) /\ fresh' = FALSE
    BY <1>2, <2>1, <2>3, FaultLeft
  <2> QED BY <2>2, <2>3 DEF Finish
<1>9. Shape'
  BY <1>1, <1>2, <1>8 DEF Shape
<1>10. ASSUME NEW p \in Parts PROVE Blank(p, lock', v)
  <2>1. Blank(p, run.lf, v)
    BY <1>6 DEF Over
  <2>2. CASE lock' = run.lf
    BY <2>1, <2>2
  <2>3. CASE run.settled /\ lock' = lock
    <3>1. run.lf[p] = lock[p] \/ run.lf[p] = spec[p]
      BY <1>3, <1>5, <1>6 DEF Over
    <3>2. Bare(p, lock) => Bare(p, run.lf)
      BY <1>3, <2>3, <3>1 DEF Bare, Parts
    <3> QED BY <2>1, <2>3, <3>2 DEF Blank
  <2> QED BY <1>8, <2>2, <2>3
<1>11. Resting' /\ Running'
  BY <1>1, <1>7, <1>10 DEF Resting, Running, Blank, Idle
<1>12. Chosen' = Chosen /\ NoneBesides'
  BY <1>1, <1>7, <1>4, SameFiles DEF IInv, NoneBesides
<1>13. FreshIsServed'
  <2> SUFFICES ASSUME fresh', NEW p \in Parts, NEW b \in Chosen
               PROVE  \/ Written(b, p, spec) /\ Served(b, p, spec)
                      \/ forgotten /\ Skipped(p, spec, lock')
    <3>1. Chosen \subseteq Backends
      BY DEF Chosen
    <3> QED BY <1>1, <1>12, <3>1, SameFiles DEF FreshIsServed
  <2>1. lock' = run.lf /\ Clean(run, v) /\ b \in Backends
    BY <1>5 DEF Finish, Clean, Chosen
  <2>2. CASE v.chosen \subseteq v.written[p] \cap v.served[p]
    BY <1>5, <2>2
  <2>3. CASE Skipped(p, run.doc, run.lf) /\ ~forgotten
    <3>1. Bare(p, run.lf) /\ Bare(p, spec)
      BY <1>2, <1>3, <2>3, ContentKinds DEF Bare, Skipped, Parts, Shape
    <3>2. v.blank[p] = Backends
      BY <1>5, <1>6, <2>3, <3>1 DEF Over, Blank
    <3>3. Content(b, p, spec) = {} /\ fragment[FileOf[b][p]] = Absent
      BY <1>2, <1>5, <2>1, <3>1, <3>2, ContentKinds DEF Shape
    <3> QED BY <3>3 DEF Written, Rendered, Served, NeedsLine
  <2>4. CASE Skipped(p, run.doc, run.lf) /\ forgotten
    BY <1>3, <2>1, <2>4
  <2> QED BY <1>6, <2>1, <2>2, <2>3, <2>4 DEF Over
<1> QED BY <1>9, <1>11, <1>12, <1>13 DEF IInv

\* The user may edit a start-up file while the shell part has its turn: the run is then
\* no longer clean.
LEMMA EditRcKeeps == ASSUME IInv, EditRc PROVE IInv'
<1>1. /\ UNCHANGED <<spec, host, lock, fragment, run, forgotten, runs, faults>> /\ Edit
      /\ run.pc \in {"idle", "shell"}
  BY DEF EditRc
<1>2. Shape /\ edits' \in 0..MaxEdits /\ fresh' = FALSE /\ edits' = edits + 1 /\ edits \in Nat
  <2>1. Shape /\ edits \in Nat
    BY BoundsAssumption DEF IInv, Shape
  <2> QED BY <1>1, <2>1, EditLeft
<1>3. PICK b \in Backends, t \in Seq(Line) :
        /\ host.windows \/ b = "posix"
        /\ rc' = [rc EXCEPT ![RcOf(b)] = t] /\ (b = "powershell" => Apart(t))
  <2>1. PICK b \in Backends : LET r == RcOf(b) s == Lines(rc[r]) IN
          /\ host.windows \/ b = "posix"
          /\ \/ \E i \in 1..Len(s) + 1 : rc' = [rc EXCEPT ![r] = InsertAt(s, i, User("2"))]
             \/ \E i \in 1..Len(s) : rc' = [rc EXCEPT ![r] = RemoveAt(s, i)]
    BY DEF EditRc
  <2>2. PICK s : s = Lines(rc[RcOf(b)])
    OBVIOUS
  <2>3. RcOf(b) \in Rcs /\ (b = "powershell" => RcOf(b) \in Profiles)
    BY FileKinds DEF Backends
  <2>4. s \in Seq(Line) /\ (b = "powershell" => Apart(s))
    <3>1. <<>> \in Seq(Line)
      OBVIOUS
    <3>2. rc[RcOf(b)] = Absent \/ rc[RcOf(b)] \in Seq(Line)
      BY <1>2, <2>3 DEF Shape
    <3> QED BY <1>2, <2>2, <2>3, <3>1, <3>2 DEF Shape, Lines
  <2>5. CASE \E i \in 1..Len(s) + 1 : rc' = [rc EXCEPT ![RcOf(b)] = InsertAt(s, i, User("2"))]
    <3>1. PICK i \in 1..(Len(s) + 1) : rc' = [rc EXCEPT ![RcOf(b)] = InsertAt(s, i, User("2"))]
      BY <2>5
    <3>2. /\ InsertAt(s, i, User("2")) \in Seq(Line)
          /\ Apart(s) => Apart(InsertAt(s, i, User("2")))
      BY <2>4, EditLemma
    <3> QED BY <2>1, <2>4, <3>1, <3>2
  <2>6. CASE \E i \in 1..Len(s) : rc' = [rc EXCEPT ![RcOf(b)] = RemoveAt(s, i)]
    <3>1. PICK i \in 1..Len(s) : rc' = [rc EXCEPT ![RcOf(b)] = RemoveAt(s, i)]
      BY <2>6
    <3>2. /\ RemoveAt(s, i) \in Seq(Line)
          /\ Apart(s) => Apart(RemoveAt(s, i))
      BY <2>4, EditLemma
    <3> QED BY <2>1, <2>4, <3>1, <3>2
  <2> QED BY <2>1, <2>2, <2>5, <2>6
<1>4. /\ rc' \in [Rcs -> Seq(Line) \cup {Absent}] /\ \A r \in Profiles : Apart(Lines(rc'[r]))
      /\ Chosen \subseteq Chosen' /\ (~host.windows => Chosen' = Chosen)
  BY <1>1, <1>2, <1>3, RcWritten
<1>5. Shape'
  <2>1. fresh' \in BOOLEAN
    BY <1>2
  <2> QED BY <1>1, <1>2, <1>4, <2>1 DEF Shape
<1>6. PICK v : v = View(spec)
  OBVIOUS
<1>7. PICK w : w = View(spec)'
  OBVIOUS
<1>8. /\ v.chosen = Chosen /\ v.lock = lock /\ v.forgotten = forgotten /\ v.edits = edits
      /\ v.windows = host.windows
      /\ w.chosen = Chosen' /\ w.lock = lock /\ w.forgotten = forgotten /\ w.edits = edits + 1
      /\ w.windows = host.windows /\ w.written = v.written /\ w.blank = v.blank
  BY <1>1, <1>2, <1>6, <1>7 DEF View, Written
<1>9. NoneBesides' /\ Resting' /\ FreshIsServed'
  BY <1>1, <1>2, <1>4, <1>6, <1>7, <1>8 DEF IInv, NoneBesides, Resting, FreshIsServed, Blank
<1>10. Running'
  <2>1. CASE run.pc = "idle"
    BY <1>1, <2>1 DEF Running
  <2>2. CASE run.pc = "shell"
    <3>1. Rendering("shell") /\ "env" \in Parts /\ "shell" \in Parts /\ RcStep["shell"] = "shell rc"
      BY <2>2 DEF Rendering, Parts, RcStep
    <3>2. /\ During("shell", run, v) /\ Seen(spec, v) /\ Over("env", run, v) /\ run.doc = spec
          /\ run.since \in Nat /\ run.since <= edits
          /\ run.settled => spec.env = lock.env /\ Entries(spec.shell) = Entries(lock.shell)
      BY <1>6, <3>1, AtWork
    <3>3. ~Clean(run, w) /\ (host.windows => Moved(run, w)) /\ (~host.windows => ~Moved(run, v) /\ ~Moved(run, w))
      BY <1>2, <1>8, <3>2 DEF Clean, Moved
    <3>4. \/ Moved(run, w)
          \/ w.chosen = v.chosen /\ ~Moved(run, v)
      BY <1>4, <1>8, <3>3
    <3>5. Over("env", run, w)
      <4>1. w.blank["env"] \subseteq Backends
        BY <1>8, <3>1, <3>2 DEF Seen
      <4> QED BY <1>8, <3>1, <3>2, <3>3, <3>4, <4>1, OtherPart
    <3>6. During("shell", run, w)
      <4>1. run.todo # <<>> /\ ToSet(run.todo) \subseteq w.chosen /\ run.lf.shell = w.lock.shell
        BY <1>4, <1>8, <3>2 DEF During
      <4>2. UpTo("shell", run, run.todo, v)
        BY <2>2, <3>1, <3>2 DEF During
      <4>3. UpTo("shell", run, run.todo, w)
        BY <1>8, <3>4, <4>2 DEF UpTo
      <4>4. ServedUpTo("shell", run, run.todo, w)
        BY <3>3 DEF ServedUpTo
      <4> QED BY <2>2, <3>1, <4>1, <4>3, <4>4 DEF During
    <3>7. Sound(run, w)
      BY <2>2, <3>5, <3>6 DEF Sound
    <3> QED BY <1>1, <1>2, <1>7, <3>2, <3>7 DEF Running
  <2> QED BY <1>1, <2>1, <2>2
<1> QED BY <1>5, <1>9, <1>10 DEF IInv

-----------------------------------------------------------------------------
(* The steps of the apply.                                                 *)

\* What the comparison reports nothing of is the same on both sides.
LEMMA UnchangedIsSame ==
    ASSUME NEW A, NEW B, ~Changed(Diff(A, B))
    PROVE  A = B
<1> DEFINE names == {e[1] : e \in A \cup B}
           Of(S, n) == {e \in S : e[1] = n}
<1>1. DOMAIN Diff(A, B) = names
  BY DEF Diff
<1>2. \A n \in names : Diff(A, B)[n] = "ok"
  BY <1>1 DEF Changed
<1>3. \A n \in names : Of(A, n) = Of(B, n)
  <2> SUFFICES ASSUME NEW n \in names PROVE Of(A, n) = Of(B, n)
    OBVIOUS
  <2>1. Diff(A, B)[n] = IF Of(B, n) = {} THEN "missing"
                        ELSE IF Of(A, n) = {} THEN "extra"
                        ELSE IF Of(A, n) = Of(B, n) THEN "ok" ELSE "modified"
    BY DEF Diff
  <2> QED BY <1>2, <2>1
<1>4. \A e : (e \in A => e \in Of(A, e[1]) /\ e[1] \in names) /\ (e \in B => e \in Of(B, e[1]) /\ e[1] \in names)
  OBVIOUS
<1>5. \A e : e \in A <=> e \in B
  BY <1>3, <1>4
<1> QED BY <1>5

\* An apply begins with both parts to come.
LEMMA ApplyKeeps == ASSUME IInv, Apply PROVE IInv'
<1>1. run.pc = "idle" /\ UNCHANGED <<spec, host, lock, fragment, rc, fresh, forgotten, faults, edits>>
  BY DEF Apply
<1>2. Shape /\ spec \in Docs /\ lock \in Docs /\ Idle \in Runs /\ edits \in Nat /\ runs' \in 0..MaxRuns
  <2>1. runs' \in 0..MaxRuns
    BY BoundsAssumption DEF IInv, Shape, Apply
  <2>2. edits \in Nat
    BY BoundsAssumption DEF IInv, Shape
  <2> QED BY <2>1, <2>2, IdleIsARun, ContentKinds DEF IInv, Shape
<1>3. PICK other \in BOOLEAN :
        run' = EnvTurn([Idle EXCEPT !.doc = spec, !.lf = lock, !.settled = Settled(other), !.since = edits])
  BY DEF Apply
<1>4. PICK r : r = [Idle EXCEPT !.doc = spec, !.lf = lock, !.settled = Settled(other), !.since = edits]
  OBVIOUS
<1>5. PICK set : set = Settled(other)
  OBVIOUS
<1>6. set \in BOOLEAN /\ (set => spec.env = lock.env /\ Entries(spec.shell) = Entries(lock.shell))
  <2>1. set \in BOOLEAN
    BY <1>5 DEF Settled
  <2>2. ASSUME set PROVE ~Changed(Diff(spec.env, lock.env)) /\ ~Changed(Diff(Entries(spec.shell), Entries(lock.shell)))
    BY <1>5, <2>2 DEF Settled, EnvStatus, ShellStatus
  <2> QED BY <2>1, <2>2, UnchangedIsSame
<1>7. r \in Runs /\ r.doc = spec /\ r.lf = lock /\ r.settled = set /\ r.since = edits
  BY <1>2, <1>4, <1>5, <1>6 DEF Runs, Idle, Steps
<1>8. PICK w : w = View(spec)
  OBVIOUS
<1>9. w = View(spec)' /\ Seen(spec, w) /\ w.lock = lock
  <2>1. View(spec)' = View(spec)
    BY <1>1, SameFiles DEF View
  <2> QED BY <1>8, <2>1, ViewLemma DEF View, IInv
<1>10. \A p \in Parts : Ahead(p, r, w)
  BY <1>1, <1>7, <1>8, <1>9 DEF IInv, Resting, Ahead
<1>11. run' \in Runs /\ Same(run', r) /\ run'.pc # "idle" /\ Sound(run', w)
  <2>1. Ahead("env", r, w) /\ Ahead("shell", r, w)
    BY <1>10 DEF Parts
  <2> QED BY <1>3, <1>4, <1>7, <1>9, <2>1, EnvTurnLemma
<1>12. Shape'
  BY <1>1, <1>2, <1>11 DEF Shape
<1>13. Running' /\ Resting'
  BY <1>1, <1>2, <1>6, <1>7, <1>9, <1>11 DEF Running, Resting, Same
<1>14. NoneBesides' /\ FreshIsServed'
  <2>1. Chosen \subseteq Backends
    BY DEF Chosen
  <2> QED BY <1>1, <1>8, <1>9, <2>1, SameFiles DEF IInv, NoneBesides, FreshIsServed
<1> QED BY <1>12, <1>13, <1>14 DEF IInv

\* A fragment is written: one more backend of one part.
LEMMA RenderKeeps == ASSUME IInv, NEW p \in Parts, Render(p) PROVE IInv'
<1>1. /\ UNCHANGED <<spec, host, lock, rc, fresh, forgotten, runs, faults, edits>> /\ Rendering(p)
  BY DEF Render
<1>2. PICK v : v = View(spec)
  OBVIOUS
<1>3. PICK w : w = View(spec)'
  OBVIOUS
<1>4. PICK b \in Backends : b = Now
  BY <1>1, AtWork
<1>5. /\ During(p, run, v) /\ Seen(spec, v)
      /\ (p = "env" => Ahead("shell", run, v)) /\ (p = "shell" => Over("env", run, v))
      /\ run.pc # RcStep[p] /\ b \in Chosen /\ Tail(run.todo) \in Todos
      /\ ToSet(run.todo) = {b} \cup ToSet(Tail(run.todo))
      /\ run.doc = spec /\ run \in Runs /\ spec \in Docs /\ run.since <= edits
      /\ run.settled => spec.env = lock.env /\ Entries(spec.shell) = Entries(lock.shell)
  BY <1>1, <1>2, <1>4, AtWork
<1>6. PICK f : f = FileOf[b][p]
  OBVIOUS
<1>7. /\ fragment' = [fragment EXCEPT ![f] = Rendered(b, p, spec)]
      /\ run' = IF NeedsLine(b, p, spec) THEN [run EXCEPT !.pc = RcStep[p]] ELSE After(p, run)
  BY <1>4, <1>5, <1>6 DEF Render
<1>8. Shape /\ f \in FragmentFiles
  BY <1>6, FileKinds DEF IInv
<1>9. /\ fragment'[f] = Rendered(b, p, spec) /\ \A g \in FragmentFiles \ {f} : fragment'[g] = fragment[g]
      /\ fragment' \in [FragmentFiles -> {Absent} \cup {Content(c, q, d) : c \in Backends, q \in Parts, d \in Docs}]
      /\ \A g \in FragmentFiles : fragment'[g] # {}
  <2>1. Rendered(b, p, spec) \in {Absent} \cup {Content(c, q, d) : c \in Backends, q \in Parts, d \in Docs}
    BY <1>5 DEF Rendered
  <2>2. Absent # {}
    BY <1>8, DocumentsAssumption DEF Shape
  <2>3. Rendered(b, p, spec) # {}
    BY <2>2 DEF Rendered
  <2> QED BY <1>7, <1>8, <2>1, <2>3 DEF Shape
<1>10. /\ \A c \in Backends, q \in Parts : (c # b \/ q # p) => fragment'[FileOf[c][q]] = fragment[FileOf[c][q]]
  BY <1>6, <1>9, FileKinds
<1>11. /\ w.chosen = Chosen /\ w.lock = lock /\ w.forgotten = forgotten /\ w.edits = edits /\ w.windows = host.windows
       /\ \A q \in Parts : /\ w.written[q] = {c \in Backends : fragment'[FileOf[c][q]] = Rendered(c, q, spec)}
                           /\ w.served[q] = {c \in Backends : Served(c, q, spec)}
                           /\ w.blank[q] = {c \in Backends : fragment'[FileOf[c][q]] = Absent}
  <2>1. Chosen' = Chosen /\ \A c \in Backends, q \in Parts : Served(c, q, spec)' = Served(c, q, spec)
    BY <1>1 DEF Chosen, PosixRelevant, Served, NeedsLine, ShouldInject, Sourced, RcOf, PosixRc, ProfilePath
  <2> QED BY <1>1, <1>3, <2>1 DEF View, Written
<1>12. /\ v.chosen = Chosen /\ v.lock = lock /\ v.forgotten = forgotten /\ v.edits = edits /\ v.windows = host.windows
       /\ \A q \in Parts : /\ v.written[q] = {c \in Backends : fragment[FileOf[c][q]] = Rendered(c, q, spec)}
                           /\ v.served[q] = {c \in Backends : Served(c, q, spec)}
                           /\ v.blank[q] = {c \in Backends : fragment[FileOf[c][q]] = Absent}
  BY <1>2 DEF View, Written
<1>13. /\ \A q \in Parts \ {p} : /\ w.written[q] = v.written[q] /\ w.served[q] = v.served[q]
                                 /\ w.blank[q] = v.blank[q]
       /\ w.written[p] = v.written[p] \cup {b} /\ w.served[p] = v.served[p]
       /\ v.blank[p] \ {b} \subseteq w.blank[p]
  <2>1. ASSUME NEW q \in Parts \ {p}
        PROVE  w.written[q] = v.written[q] /\ w.served[q] = v.served[q] /\ w.blank[q] = v.blank[q]
    <3>1. \A c \in Backends : fragment'[FileOf[c][q]] = fragment[FileOf[c][q]]
      BY <1>10
    <3>2. w.written[q] = v.written[q]
      <4>1. \A c : c \in w.written[q] <=> c \in Backends /\ fragment'[FileOf[c][q]] = Rendered(c, q, spec)
        BY <1>11
      <4>2. \A c : c \in v.written[q] <=> c \in Backends /\ fragment[FileOf[c][q]] = Rendered(c, q, spec)
        BY <1>12
      <4>3. \A c : c \in w.written[q] <=> c \in v.written[q]
        BY <3>1, <4>1, <4>2
      <4>4. w.written[q] \subseteq Backends /\ v.written[q] \subseteq Backends
        BY <1>11, <1>12
      <4> QED BY <4>3, <4>4
    <3>3. w.blank[q] = v.blank[q]
      <4>1. \A c : c \in w.blank[q] <=> c \in Backends /\ fragment'[FileOf[c][q]] = Absent
        BY <1>11
      <4>2. \A c : c \in v.blank[q] <=> c \in Backends /\ fragment[FileOf[c][q]] = Absent
        BY <1>12
      <4>3. \A c : c \in w.blank[q] <=> c \in v.blank[q]
        BY <3>1, <4>1, <4>2
      <4>4. w.blank[q] \subseteq Backends /\ v.blank[q] \subseteq Backends
        BY <1>11, <1>12
      <4> QED BY <4>3, <4>4
    <3>4. w.served[q] = v.served[q]
      BY <1>11, <1>12
    <3> QED BY <3>2, <3>3, <3>4
  <2>2. w.written[p] = v.written[p] \cup {b}
    BY <1>6, <1>9, <1>10, <1>11, <1>12
  <2>3. v.blank[p] \ {b} \subseteq w.blank[p]
    <3>1. \A c \in Backends \ {b} : fragment'[FileOf[c][p]] = fragment[FileOf[c][p]]
      BY <1>10
    <3> QED BY <1>11, <1>12, <3>1
  <2>4. w.served[p] = v.served[p]
    BY <1>11, <1>12
  <2> QED BY <2>1, <2>2, <2>3, <2>4
<1>14. Seen(spec, w)
  <2>1. ASSUME NEW q \in Parts, Bare(q, spec) PROVE w.written[q] \subseteq w.blank[q]
    <3>1. \A c \in Backends : Rendered(c, q, spec) = Absent
      BY <1>5, <1>8, <2>1, ContentKinds DEF Shape, Rendered
    <3> QED BY <1>11, <3>1
  <2>2. ASSUME NEW q \in Parts
        PROVE  w.blank[q] \subseteq Backends /\ (~forgotten => Backends \ Chosen \subseteq w.blank[q])
    <3>1. ~forgotten => Backends \ Chosen \subseteq v.blank[q]
      BY <1>5, <1>12 DEF Seen
    <3>2. v.blank[q] \ {b} \subseteq w.blank[q]
      BY <1>13
    <3>3. w.blank[q] \subseteq Backends
      BY <1>11
    <3> QED BY <1>5, <3>1, <3>2, <3>3
  <2> QED BY <1>11, <2>1, <2>2 DEF Seen
<1>15. /\ (p = "env" => Ahead("shell", run, w)) /\ (p = "shell" => Over("env", run, w))
  <2> SUFFICES ASSUME NEW q \in Parts \ {p}
               PROVE  (Over(q, run, v) => Over(q, run, w)) /\ (Ahead(q, run, v) => Ahead(q, run, w))
    BY <1>5 DEF Parts
  <2>1. /\ w.written[q] = v.written[q] /\ w.served[q] = v.served[q] /\ w.blank[q] = v.blank[q]
    BY <1>13
  <2>2. w.blank[q] \subseteq Backends
    BY <1>14 DEF Seen
  <2>3. Moved(run, w) = Moved(run, v) /\ Clean(run, w) = Clean(run, v)
    BY <1>11, <1>12 DEF Moved, Clean
  <2> QED BY <1>11, <1>12, <2>1, <2>2, <2>3, OtherPart
<1>16. UpTo(p, run, Tail(run.todo), w)
  <2>1. UpTo(p, run, run.todo, v)
    BY <1>5 DEF During
  <2> QED BY <1>5, <1>11, <1>12, <1>13, <2>1 DEF UpTo, Moved
<1>17. ServedUpTo(p, run, run.todo, w)
  <2>1. ServedUpTo(p, run, run.todo, v)
    BY <1>5 DEF During
  <2> QED BY <1>11, <1>12, <1>13, <2>1 DEF ServedUpTo, Clean
<1>18. run.todo # <<>> /\ ToSet(run.todo) \subseteq w.chosen /\ run.lf[p] = w.lock[p]
  BY <1>5, <1>11, <1>12 DEF During
<1>19. run' \in Runs /\ Same(run', run) /\ run'.pc # "idle" /\ Sound(run', w)
  <2>1. CASE NeedsLine(b, p, spec)
    <3>1. run' = [run EXCEPT !.pc = RcStep[p]]
      BY <1>7, <2>1
    <3>2. RcStep["env"] = "env rc" /\ RcStep["shell"] = "shell rc" /\ (p = "env" \/ p = "shell")
      BY DEF RcStep, Parts
    <3>3. /\ run' \in Runs /\ Same(run', run) /\ run'.pc = RcStep[p] /\ run'.lf = run.lf /\ run'.todo = run.todo
      BY <1>5, <3>1, <3>2 DEF Runs, Steps, Same
    <3>4. UpTo(p, run', Tail(run'.todo), w) /\ ServedUpTo(p, run', run'.todo, w)
      BY <1>16, <1>17, <3>3 DEF UpTo, ServedUpTo, Same, Moved, Clean
    <3>5. During(p, run', w)
      BY <1>18, <3>3, <3>4 DEF During
    <3>6. (p = "env" => Ahead("shell", run', w)) /\ (p = "shell" => Over("env", run', w))
      <4>1. "env" \in Parts /\ "shell" \in Parts
        BY DEF Parts
      <4> QED BY <1>15, <3>3, <4>1, SameIsOver
    <3> QED BY <3>2, <3>3, <3>5, <3>6 DEF Sound
  <2>2. CASE ~NeedsLine(b, p, spec)
    <3>1. run' = After(p, run)
      BY <1>7, <2>2
    <3>2. b \in w.served[p]
      BY <1>11, <2>2 DEF Served
    <3>3. ServedUpTo(p, run, Tail(run.todo), w)
      BY <1>5, <1>13, <1>17, <3>2 DEF ServedUpTo
    <3> QED BY <1>5, <1>14, <1>15, <1>16, <1>18, <3>1, <3>3, AfterLemma
  <2> QED BY <2>1, <2>2
<1>20. Shape'
  BY <1>1, <1>8, <1>9, <1>19 DEF Shape
<1>21. Running' /\ Resting'
  BY <1>1, <1>3, <1>5, <1>19 DEF Running, Resting, Same
<1>22. NoneBesides' /\ FreshIsServed'
  <2>1. Chosen \subseteq Backends /\ Chosen' = Chosen
    BY <1>1 DEF Chosen, PosixRelevant
  <2>2. NoneBesides'
    BY <1>1, <1>3, <1>11, <1>14, <2>1 DEF NoneBesides, Seen
  <2>3. ASSUME fresh, NEW q \in Parts, NEW c \in Chosen
        PROVE  \/ Written(c, q, spec)' /\ Served(c, q, spec)'
               \/ forgotten /\ Skipped(q, spec, lock)
    <3>1. \/ c \in v.written[q] /\ c \in v.served[q]
          \/ forgotten /\ Skipped(q, spec, lock)
      BY <1>12, <2>1, <2>3 DEF IInv, FreshIsServed, Written
    <3>2. v.written[q] \subseteq w.written[q] /\ v.served[q] \subseteq w.served[q]
      BY <1>13
    <3>3. /\ c \in w.written[q] <=> Written(c, q, spec)'
          /\ c \in w.served[q] <=> Served(c, q, spec)'
      BY <1>3, <2>1 DEF View
    <3> QED BY <3>1, <3>2, <3>3
  <2>4. FreshIsServed'
    BY <1>1, <2>1, <2>3 DEF FreshIsServed
  <2> QED BY <2>2, <2>4
<1> QED BY <1>20, <1>21, <1>22 DEF IInv

\* A rewrite of a start-up file sources what it is for, and what was sourced before.
LEMMA InjectedLemma ==
    ASSUME NEW s \in Seq(Line), NEW b \in Backends, NEW p \in Parts, b = "powershell" => Apart(s)
    PROVE  LET t == Injected(b, p, s) IN
           /\ t \in Seq(Line) /\ (b = "powershell" => Apart(t)) /\ SourcedIn(t, b, p)
           /\ \A q \in Parts : SourcedIn(s, b, q) => SourcedIn(t, b, q)
<1>1. CASE b = "posix"
  <2>1. PICK f \in ShFiles : f = FileOf[b][p]
    BY <1>1, FileKinds
  <2>2. PICK t : t = ReplaceOrAppend(s, f)
    OBVIOUS
  <2>3. t \in Seq(Line) /\ Latest(t, f) /\ Neat(t) /\ \A g \in ShFiles : Latest(s, g) => Latest(t, g)
    BY <2>2, PosixLemma
  <2>4. Injected(b, p, s) = t
    BY <1>1, <2>1, <2>2 DEF Injected
  <2> QED BY <1>1, <2>1, <2>3, <2>4, FileKinds DEF SourcedIn
<1>2. CASE b = "powershell"
  <2>1. PICK t : t = InjectProfileLine(s, p)
    OBVIOUS
  <2>2. /\ t \in Seq(Line) /\ Apart(t) /\ Tight(t, p) /\ \A q \in Parts : Tight(s, q) => Tight(t, q)
    BY <1>2, <2>1, ProfileLemma
  <2>3. Injected(b, p, s) = t /\ b # "posix"
    BY <1>2, <2>1 DEF Injected
  <2>4. \A q \in Parts : SourcedIn(s, b, q) => SourcedIn(t, b, q)
    BY <2>2, <2>3 DEF SourcedIn
  <2> QED BY <1>2, <2>2, <2>3, <2>4 DEF SourcedIn
<1> QED BY <1>1, <1>2 DEF Backends

\* A start-up file is rewritten: one more backend of one part is done with.
LEMMA InjectKeeps == ASSUME IInv, NEW p \in Parts, Inject(p) PROVE IInv'
<1>1. /\ UNCHANGED <<spec, host, lock, fragment, fresh, forgotten, runs, faults, edits>> /\ Injecting(p)
      /\ run' = After(p, run)
  BY DEF Inject
<1>2. PICK v : v = View(spec)
  OBVIOUS
<1>3. PICK w : w = View(spec)'
  OBVIOUS
<1>4. PICK b \in Backends : b = Now
  BY <1>1, AtWork
<1>5. /\ During(p, run, v) /\ Seen(spec, v)
      /\ (p = "env" => Ahead("shell", run, v)) /\ (p = "shell" => Over("env", run, v))
      /\ b \in Chosen /\ Tail(run.todo) \in Todos
      /\ ToSet(run.todo) = {b} \cup ToSet(Tail(run.todo))
      /\ run.doc = spec /\ run \in Runs /\ spec \in Docs /\ run.since <= edits
      /\ run.settled => spec.env = lock.env /\ Entries(spec.shell) = Entries(lock.shell)
  BY <1>1, <1>2, <1>4, AtWork
<1>6. PICK s : s = Lines(rc[RcOf(b)])
  OBVIOUS
<1>7. Shape /\ s \in Seq(Line) /\ (b = "powershell" => Apart(s))
  <2>1. Shape /\ RcOf(b) \in Rcs /\ (b = "powershell" => RcOf(b) \in Profiles)
    BY FileKinds DEF Backends, IInv
  <2>2. <<>> \in Seq(Line)
    OBVIOUS
  <2>3. rc[RcOf(b)] = Absent \/ rc[RcOf(b)] \in Seq(Line)
    BY <2>1 DEF Shape
  <2> QED BY <1>6, <2>1, <2>2, <2>3 DEF Shape, Lines
<1>8. PICK t : t = Injected(b, p, s)
  OBVIOUS
<1>9. rc' = [rc EXCEPT ![RcOf(b)] = t]
  BY <1>4, <1>6, <1>8 DEF Inject
<1>10. /\ t \in Seq(Line) /\ (b = "powershell" => Apart(t)) /\ SourcedIn(t, b, p)
       /\ \A q \in Parts : SourcedIn(s, b, q) => SourcedIn(t, b, q)
  BY <1>7, <1>8, InjectedLemma
<1>11. /\ rc' \in [Rcs -> Seq(Line) \cup {Absent}] /\ \A r \in Profiles : Apart(Lines(rc'[r]))
       /\ rc'[RcOf(b)] = t /\ Lines(t) = t /\ \A r \in Rcs \ {RcOf(b)} : rc'[r] = rc[r]
       /\ RcOf("posix")' = RcOf("posix") /\ RcOf("powershell")' = RcOf("powershell")
       /\ Chosen' = Chosen
  BY <1>1, <1>5, <1>7, <1>9, <1>10, RcWritten
<1>12. ASSUME NEW c \in Backends, NEW q \in Parts
       PROVE  /\ Sourced(c, q) => Sourced(c, q)'
              /\ c = b /\ q = p => Sourced(c, q)'
  <2>1. RcOf(c)' = RcOf(c) /\ RcOf(c) \in Rcs
    BY <1>11, FileKinds DEF Backends
  <2>2. CASE c = b
    <3>1. Lines(rc[RcOf(c)]) = s /\ Lines(rc'[RcOf(c)']) = t
      BY <1>6, <1>11, <2>1, <2>2
    <3> QED BY <1>10, <2>2, <3>1 DEF Sourced
  <2>3. CASE c # b
    <3>1. RcOf(c) # RcOf(b)
      BY <2>3, FileKinds DEF Backends
    <3>2. rc'[RcOf(c)'] = rc[RcOf(c)]
      BY <1>11, <2>1, <3>1
    <3> QED BY <2>3, <3>2 DEF Sourced
  <2> QED BY <2>2, <2>3
<1>13. ASSUME NEW c \in Backends, NEW q \in Parts
       PROVE  /\ Served(c, q, spec) => Served(c, q, spec)'
              /\ c = b /\ q = p => Served(c, q, spec)'
              /\ Written(c, q, spec)' = Written(c, q, spec)
  BY <1>1, <1>12 DEF Served, NeedsLine, ShouldInject, Written
<1>14. /\ v.chosen = Chosen /\ v.lock = lock /\ v.forgotten = forgotten /\ v.edits = edits /\ v.windows = host.windows
       /\ w.chosen = Chosen /\ w.lock = lock /\ w.forgotten = forgotten /\ w.edits = edits /\ w.windows = host.windows
       /\ w.blank = v.blank /\ w.written = v.written
       /\ \A q \in Parts : v.served[q] \subseteq w.served[q] /\ w.served[q] \subseteq Backends
       /\ b \in w.served[p]
  <2>1. /\ \A q \in Parts : /\ v.served[q] = {c \in Backends : Served(c, q, spec)}
                            /\ w.served[q] = {c \in Backends : Served(c, q, spec)'}
    BY <1>1, <1>2, <1>3 DEF View
  <2>2. w.written = v.written
    BY <1>1, <1>2, <1>3, <1>13 DEF View
  <2>3. b \in w.served[p]
    BY <1>13, <2>1
  <2>4. ASSUME NEW q \in Parts PROVE v.served[q] \subseteq w.served[q] /\ w.served[q] \subseteq Backends
    BY <1>13, <2>1
  <2>5. w.blank = v.blank
    BY <1>1, <1>2, <1>3 DEF View
  <2>6. /\ v.chosen = Chosen /\ v.lock = lock /\ v.forgotten = forgotten /\ v.edits = edits /\ v.windows = host.windows
        /\ w.chosen = Chosen /\ w.lock = lock /\ w.forgotten = forgotten /\ w.edits = edits /\ w.windows = host.windows
    BY <1>1, <1>2, <1>3, <1>11 DEF View
  <2> QED BY <2>2, <2>3, <2>4, <2>5, <2>6
<1>15. Seen(spec, w)
  BY <1>5, <1>14 DEF Seen
<1>16. Moved(run, w) = Moved(run, v) /\ Clean(run, w) = Clean(run, v) /\ (Clean(run, v) => ~Moved(run, v))
  BY <1>14 DEF Moved, Clean
<1>17. /\ (p = "env" => Ahead("shell", run, w)) /\ (p = "shell" => Over("env", run, w))
  <2> SUFFICES ASSUME NEW q \in Parts
               PROVE  (Over(q, run, v) => Over(q, run, w)) /\ (Ahead(q, run, v) => Ahead(q, run, w))
    BY <1>5 DEF Parts
  <2>1. w.blank[q] \subseteq Backends
    BY <1>15 DEF Seen
  <2> QED BY <1>14, <1>16, <2>1, OtherPart
<1>18. UpTo(p, run, Tail(run.todo), v)
  <2>1. run.pc = RcStep[p]
    BY <1>1 DEF Injecting
  <2> QED BY <1>5, <2>1 DEF During
<1>19. UpTo(p, run, Tail(run.todo), w)
  BY <1>14, <1>16, <1>18 DEF UpTo
<1>20. ServedUpTo(p, run, Tail(run.todo), w)
  <2>1. ServedUpTo(p, run, run.todo, v)
    BY <1>5 DEF During
  <2>2. Clean(run, w) => Chosen \ ToSet(Tail(run.todo)) \subseteq w.written[p]
    BY <1>14, <1>16, <1>19 DEF UpTo
  <2> QED BY <1>5, <1>14, <1>16, <2>1, <2>2 DEF ServedUpTo
<1>21. run' \in Runs /\ Same(run', run) /\ run'.pc # "idle" /\ Sound(run', w)
  <2>1. run.todo # <<>> /\ ToSet(run.todo) \subseteq w.chosen /\ run.lf[p] = w.lock[p]
    BY <1>5, <1>14 DEF During
  <2> QED BY <1>1, <1>5, <1>15, <1>17, <1>19, <1>20, <2>1, AfterLemma
<1>22. Shape'
  BY <1>1, <1>7, <1>11, <1>21 DEF Shape
<1>23. Running' /\ Resting'
  BY <1>1, <1>3, <1>5, <1>21 DEF Running, Resting, Same
<1>24. NoneBesides' /\ FreshIsServed'
  <2>1. Chosen \subseteq Backends
    BY DEF Chosen
  <2>2. NoneBesides'
    BY <1>1, <1>3, <1>11, <1>14, <1>15 DEF NoneBesides, Seen
  <2> QED BY <1>1, <1>11, <1>13, <2>1, <2>2 DEF FreshIsServed, IInv
<1> QED BY <1>22, <1>23, <1>24 DEF IInv

\* A start-up file that cannot be rewritten leaves a warning.
LEMMA InjectFailsKeeps == ASSUME IInv, NEW p \in Parts, InjectFails(p) PROVE IInv'
<1>1. /\ UNCHANGED <<spec, host, lock, fragment, forgotten, runs, edits>> /\ Injecting(p) /\ Fault
      /\ run' = After(p, [run EXCEPT !.warned = TRUE]) /\ fresh' = FALSE
  BY DEF InjectFails
<1>2. PICK v : v = View(spec)
  OBVIOUS
<1>3. PICK w : w = View(spec)'
  OBVIOUS
<1>4. PICK b \in Backends : b = Now
  BY <1>1, AtWork
<1>5. /\ During(p, run, v) /\ Seen(spec, v)
      /\ (p = "env" => Ahead("shell", run, v)) /\ (p = "shell" => Over("env", run, v))
      /\ b \in Chosen /\ run.doc = spec /\ run \in Runs /\ spec \in Docs /\ run.since <= edits
      /\ run.settled => spec.env = lock.env /\ Entries(spec.shell) = Entries(lock.shell)
  BY <1>1, <1>2, <1>4, AtWork
<1>6. Shape /\ faults' \in 0..MaxFaults
  BY <1>1, FaultLeft DEF IInv
<1>7. /\ rc' \in [Rcs -> Seq(Line) \cup {Absent}] /\ \A r \in Profiles : Apart(Lines(rc'[r]))
      /\ Chosen' = Chosen
  <2>1. CASE rc' = rc
    BY <1>1, <1>6, <2>1, SameFiles DEF Shape
  <2>2. CASE rc' = [rc EXCEPT ![RcOf(b)] = <<>>]
    <3>1. <<>> \in Seq(Line) /\ Apart(<<>>)
      BY DEF Apart
    <3> QED BY <1>1, <1>5, <1>6, <2>2, <3>1, RcWritten
  <2> QED BY <1>4, <2>1, <2>2 DEF InjectFails
<1>8. PICK r : r = [run EXCEPT !.warned = TRUE]
  OBVIOUS
<1>9. /\ r \in Runs /\ r.warned /\ r.doc = spec /\ r.lf = run.lf /\ r.since = run.since /\ r.settled = run.settled
      /\ r.todo = run.todo
  BY <1>5, <1>8 DEF Runs
<1>14. /\ v.chosen = Chosen /\ v.lock = lock /\ v.forgotten = forgotten /\ v.edits = edits /\ v.windows = host.windows
       /\ w.chosen = Chosen /\ w.lock = lock /\ w.forgotten = forgotten /\ w.edits = edits /\ w.windows = host.windows
       /\ w.blank = v.blank /\ w.written = v.written
  BY <1>1, <1>2, <1>3, <1>7 DEF View, Written
<1>15. Seen(spec, w)
  BY <1>5, <1>14 DEF Seen
<1>16. Moved(r, w) = Moved(run, v) /\ ~Clean(r, w)
  BY <1>9, <1>14 DEF Moved, Clean
<1>17. /\ (p = "env" => Ahead("shell", r, w)) /\ (p = "shell" => Over("env", r, w))
  <2> SUFFICES ASSUME NEW q \in Parts
               PROVE  (Over(q, run, v) => Over(q, r, w)) /\ (Ahead(q, run, v) => Ahead(q, r, w))
    BY <1>5 DEF Parts
  <2>1. w.blank[q] \subseteq Backends
    BY <1>15 DEF Seen
  <2> QED BY <1>5, <1>9, <1>14, <1>16, <2>1, OtherPart
<1>18. UpTo(p, run, Tail(run.todo), v)
  <2>1. run.pc = RcStep[p]
    BY <1>1 DEF Injecting
  <2> QED BY <1>5, <2>1 DEF During
<1>19. UpTo(p, r, Tail(r.todo), w) /\ ServedUpTo(p, r, Tail(r.todo), w)
  BY <1>9, <1>14, <1>16, <1>18 DEF UpTo, ServedUpTo
<1>21. run' \in Runs /\ Same(run', r) /\ run'.pc # "idle" /\ Sound(run', w)
  <2>1. r.todo # <<>> /\ ToSet(r.todo) \subseteq w.chosen /\ r.lf[p] = w.lock[p]
    BY <1>5, <1>9, <1>14 DEF During
  <2> QED BY <1>1, <1>8, <1>9, <1>15, <1>17, <1>19, <2>1, AfterLemma
<1>22. Shape'
  <2>1. fresh' \in BOOLEAN
    BY <1>1
  <2> QED BY <1>1, <1>6, <1>7, <1>21, <2>1 DEF Shape
<1>23. Running' /\ Resting'
  BY <1>1, <1>3, <1>5, <1>9, <1>21 DEF Running, Resting, Same
<1>24. NoneBesides' /\ FreshIsServed'
  BY <1>1, <1>3, <1>7, <1>14, <1>15 DEF NoneBesides, Seen, FreshIsServed
<1> QED BY <1>22, <1>23, <1>24 DEF IInv

-----------------------------------------------------------------------------
(* The theorems.                                                           *)

\* Every step keeps the invariant, also one that changes nothing.
LEMMA StutterKeeps == ASSUME IInv, UNCHANGED vars PROVE IInv'
<1>1. UNCHANGED <<spec, host, lock, fragment, rc, run, fresh, forgotten, runs, faults, edits>>
  BY DEF vars
<1>2. View(spec)' = View(spec)
  BY <1>1, SameFiles DEF View
<1>3. Shape'
  BY <1>1 DEF IInv, Shape
<1>4. Running' /\ Resting' /\ NoneBesides'
  BY <1>1, <1>2, SameFiles DEF IInv, Running, Resting, NoneBesides
<1>5. FreshIsServed'
  <2>1. Chosen \subseteq Backends
    BY DEF Chosen
  <2> QED BY <1>1, <2>1, SameFiles DEF IInv, FreshIsServed
<1> QED BY <1>3, <1>4, <1>5 DEF IInv

\* And so does every step.
LEMMA StepKeeps == ASSUME IInv, [Next]_vars PROVE IInv'
<1>1. CASE Next
  <2>1. CASE Apply \/ Finish \/ Kill
    BY <2>1, ApplyKeeps, FinishKeeps, KillKeeps
  <2>2. CASE \E p \in Parts : Render(p) \/ RenderFails(p) \/ Inject(p) \/ InjectFails(p)
    BY <2>2, RenderKeeps, RenderFailsKeeps, InjectKeeps, InjectFailsKeeps
  <2>3. CASE EditSpec \/ EditRc \/ ChangeHost \/ LoseLock
    BY <2>3, EditSpecKeeps, EditRcKeeps, ChangeHostKeeps, LoseLockKeeps
  <2> QED BY <1>1, <2>1, <2>2, <2>3 DEF Next
<1>2. CASE UNCHANGED vars
  BY <1>2, StutterKeeps
<1> QED BY <1>1, <1>2

\* A run has written, for each part, all backends but those it still has to do with, and
\* what it takes for the part's section of the lock is what it has written; what is
\* not written because neither spec nor lock know of the part, is not there.
THEOREM Invariance == Spec => []IInv
<1>1. Init => IInv
  BY InitIInv
<1>2. IInv /\ [Next]_vars => IInv'
  BY StepKeeps
<1> QED BY <1>1, <1>2, PTL DEF Spec

\* The invariant has the types.
LEMMA WellFormed == ASSUME IInv PROVE TypeOK
<1>1. Shape /\ Documents # {}
  BY DEF IInv, Shape
<1>2. \A f \in FragmentFiles : fragment[f] = Absent \/ (fragment[f] # {} /\ IsFiniteSet(fragment[f]))
  BY <1>1, ContentKinds DEF Shape
<1>3. run.pc \in Steps /\ run.todo \in Todos
  BY <1>1 DEF Shape, Runs
<1>4. ToSet(run.todo) \subseteq Backends
  BY <1>3, TodoKinds
<1>5. /\ lock.env \in {d.env : d \in Documents} \cup {{}}
      /\ lock.shell \in {d.shell : d \in Documents} \cup {NoShell}
  BY <1>1 DEF Shape, Docs
<1>6. \A r \in Rcs : rc[r] = Absent \/ rc[r] \in Seq(Line)
  BY <1>1 DEF Shape
<1>7. /\ spec \in Documents /\ host \in Hosts /\ fresh \in BOOLEAN /\ forgotten \in BOOLEAN
      /\ runs \in 0..MaxRuns /\ faults \in 0..MaxFaults /\ edits \in 0..MaxEdits
  BY <1>1 DEF Shape
<1> QED BY <1>2, <1>3, <1>4, <1>5, <1>6, <1>7 DEF TypeOK, Steps

\* A fragment file that exists defines something, and the lock holds what was
\* declared at some time.
THEOREM TypeCorrect == Spec => []TypeOK
<1>1. IInv => TypeOK
  BY WellFormed
<1> QED BY <1>1, Invariance, PTL

\* The invariant has what a new shell sees.
LEMMA Seeing == ASSUME IInv PROVE ShellsSeeSpec
<1> SUFFICES ASSUME fresh, NEW b \in ToSet(SelectBackends), NEW p \in Parts
             PROVE  \/ Shown(b, p) = Content(b, p, spec)
                    \/ forgotten /\ Skipped(p, spec, lock)
                    \/ b = "powershell" /\ Halved(RcOf(b), p)
  BY DEF ShellsSeeSpec
<1>1. b \in Chosen /\ b \in Backends /\ Shape /\ spec \in Docs
  BY TodoKinds, ContentKinds DEF Chosen, IInv, Shape
<1>2. CASE forgotten /\ Skipped(p, spec, lock)
  BY <1>2
<1>3. CASE Written(b, p, spec) /\ Served(b, p, spec)
  <2>1. PICK f : f = FileOf[b][p]
    OBVIOUS
  <2>2. PICK s : s = Lines(rc[RcOf(b)])
    OBVIOUS
  <2>3. s \in Seq(Line)
    <3>1. RcOf(b) \in Rcs
      BY <1>1, FileKinds DEF Backends
    <3>2. <<>> \in Seq(Line)
      OBVIOUS
    <3> QED BY <1>1, <2>2, <3>1, <3>2 DEF Shape, Lines
  <2>4. fragment[f] = (IF Content(b, p, spec) = {} THEN Absent ELSE Content(b, p, spec))
    BY <1>3, <2>1 DEF Written, Rendered
  <2>5. Shown(b, p) = IF fragment[f] # Absent /\ (~ShouldInject \/ Contains(s, Source(f, "here")))
                      THEN fragment[f] ELSE {}
    BY <2>1, <2>2 DEF Shown
  <2>6. CASE Content(b, p, spec) = {}
    BY <2>4, <2>5, <2>6
  <2>7. CASE Content(b, p, spec) # {} /\ (~ShouldInject \/ Contains(s, Source(f, "here")))
    BY <1>1, <2>4, <2>5, <2>7, ContentKinds DEF Shape
  <2>8. CASE NeedsLine(b, p, spec)
    <3>1. SourcedIn(s, b, p)
      BY <1>3, <2>2, <2>8 DEF Served, Sourced
    <3>2. CASE b = "posix"
      <4>1. Contains(s, Source(f, "here"))
        BY <2>1, <2>3, <3>1, <3>2, LatestIsThere DEF SourcedIn
      <4> QED BY <2>7, <2>8, <4>1 DEF NeedsLine
    <3>3. CASE b = "powershell"
      <4>1. PICK m : m = FirstOf(s, Begin(p), 0)
        OBVIOUS
      <4>2. PICK e : e = FirstOf(s, End(p), m)
        OBVIOUS
      <4>3. m > 0 /\ (e = 0 \/ (e = m + 2 /\ s[m + 1] = Source(f, "here")))
        BY <2>1, <3>1, <3>3, <4>1, <4>2 DEF SourcedIn, Tight
      <4>4. CASE e = 0
        <5>1. Halved(RcOf(b), p)
          BY <2>2, <4>1, <4>2, <4>3, <4>4 DEF Halved
        <5> QED BY <3>3, <5>1
      <4>5. CASE e = m + 2 /\ s[m + 1] = Source(f, "here")
        <5>1. Len(s) \in Nat /\ (m = 0 \/ m \in (0 + 1)..Len(s))
          BY <2>3, <4>1, LenProperties, FirstOfLemma
        <5>2. m \in Nat
          BY <5>1
        <5>3. e = 0 \/ e \in (m + 1)..Len(s)
          BY <2>3, <4>2, <5>2, FirstOfLemma
        <5>4. m + 1 \in 1..Len(s)
          BY <4>5, <5>1, <5>2, <5>3
        <5>5. Contains(s, Source(f, "here"))
          BY <4>5, <5>4 DEF Contains
        <5> QED BY <2>7, <2>8, <5>5 DEF NeedsLine
      <4> QED BY <4>3, <4>4, <4>5
    <3> QED BY <1>1, <3>2, <3>3 DEF Backends
  <2> QED BY <2>6, <2>7, <2>8 DEF NeedsLine
<1> QED BY <1>1, <1>2, <1>3 DEF IInv, FreshIsServed

\* After an apply that went through without a warning every shell of this host starts
\* with what the spec declares for it, whatever was there and whatever failed before.
THEOREM ShellsHaveTheSpec == Spec => []NewShellsSeeSpec
<1>1. IInv => NewShellsSeeSpec
  BY WellFormed, Seeing DEF NewShellsSeeSpec
<1> QED BY <1>1, Invariance, PTL

\* Only the end of a run writes a section that is not there yet.
LEMMA RecordingStep ==
    ASSUME IInv, [Next]_vars, run.pc = "rest", NEW p \in Parts, NEW b \in ToSet(SelectBackends)
    PROVE  \/ lock'[p] = lock[p]
           \/ fragment[FileOf[b][p]] = Rendered(b, p, lock')
           \/ host.windows /\ run.since # edits
<1>1. lock' = lock \/ lock' = run.lf
  <2>1. CASE Finish
    BY <2>1 DEF Finish
  <2>2. CASE Next /\ ~Finish
    BY <2>2 DEF Next, Apply, Render, RenderFails, Inject, InjectFails, Kill, EditSpec, EditRc, ChangeHost, LoseLock
  <2>3. CASE UNCHANGED vars
    BY <2>3 DEF vars
  <2> QED BY <2>1, <2>2, <2>3
<1>2. /\ Shape /\ spec \in Docs /\ run \in Runs /\ b \in Chosen /\ b \in Backends /\ Documents # {}
  BY TodoKinds, ContentKinds DEF IInv, Shape, Chosen
<1>3. Over(p, run, View(spec)) /\ run.doc = spec
  BY DEF IInv, Running, Sound, Parts
<1>4. CASE lock' = run.lf /\ run.lf[p] = spec[p] /\ Chosen \subseteq View(spec).written[p]
  <2>1. Written(b, p, spec)
    BY <1>2, <1>4 DEF View
  <2>2. run.lf \in Docs
    BY <1>2 DEF Runs
  <2>3. Content(b, p, lock') = Content(b, p, spec)
    BY <1>2, <1>4, <2>2, ContentKinds
  <2> QED BY <2>1, <2>3 DEF Written, Rendered
<1> QED BY <1>1, <1>3, <1>4 DEF Over, Moved, View

\* The lock records a section only when every fragment of it on this host has been
\* written, also when another part of the apply has failed.
THEOREM Recorded == Spec => RecordedWasWritten
<1>1. IInv /\ [Next]_vars =>
        [run.pc = "rest" =>
           \A part \in Parts, b \in ToSet(SelectBackends) :
             \/ lock'[part] = lock[part]
             \/ fragment[FileOf[b][part]] = Rendered(b, part, lock')
             \/ host.windows /\ run.since # edits]_vars
  BY RecordingStep
<1> QED BY <1>1, Invariance, PTL DEF Spec, RecordedWasWritten

-----------------------------------------------------------------------------
(* What a start-up file and the lock keep: the second invariant.           *)

\* A part that has its turn is one to look at, and what a run has gone through
\* without a failure it takes for the lock.
Takes(r) ==
  /\ r.pc \in {"env", "env rc"} => ~Skipped("env", r.doc, r.lf)
  /\ r.pc \in {"shell", "shell rc"} => ~Skipped("shell", r.doc, r.lf) /\ (~r.failed => r.lf.env = r.doc.env)
  /\ r.pc = "rest" /\ ~r.failed => r.lf.env = r.doc.env /\ r.lf.shell = r.doc.shell

Taking == Takes(run) /\ \A p \in Parts : Injecting(p) => NeedsLine(Now, p, spec)
FreshIsRecorded == fresh => lock = spec
Settling == Taking /\ FreshIsRecorded

\* The turns of the parts, and the end of one.
LEMMA ShellTurnTakes ==
    ASSUME NEW r \in Runs, ~r.failed => r.lf.env = r.doc.env
    PROVE  Takes(ShellTurn(r)) /\ ShellTurn(r).pc \in {"shell", "rest"}
<1>1. CASE Due("shell", r) = <<>>
  <2>1. PICK l : l = [r.lf EXCEPT !.shell = r.doc.shell]
    OBVIOUS
  <2>2. l.env = r.lf.env /\ l.shell = r.doc.shell
    BY <2>1 DEF Runs, Docs
  <2>3. PICK q : q = ShellTurn(r)
    OBVIOUS
  <2>4. q = [r EXCEPT !.pc = "rest", !.todo = <<>>, !.lf = l]
    BY <1>1, <2>1, <2>3 DEF ShellTurn, Runs
  <2>5. q.pc = "rest" /\ q.lf = l /\ q.doc = r.doc /\ q.failed = r.failed
    BY <2>4 DEF Runs
  <2> QED BY <2>2, <2>3, <2>5 DEF Takes
<1>2. CASE Due("shell", r) # <<>>
  <2>1. PICK q : q = ShellTurn(r)
    OBVIOUS
  <2>2. q = [r EXCEPT !.pc = "shell", !.todo = Due("shell", r)]
    BY <1>2, <2>1 DEF ShellTurn
  <2>3. q.pc = "shell" /\ q.lf = r.lf /\ q.doc = r.doc /\ q.failed = r.failed
    BY <2>2 DEF Runs
  <2>4. ~Skipped("shell", r.doc, r.lf)
    BY <1>2 DEF Due
  <2> QED BY <2>1, <2>3, <2>4 DEF Takes
<1> QED BY <1>1, <1>2

\* With both parts to come.
LEMMA EnvTurnTakes ==
    ASSUME NEW r \in Runs
    PROVE  Takes(EnvTurn(r)) /\ EnvTurn(r).pc \in {"env", "shell", "rest"}
<1>1. CASE Due("env", r) = <<>>
  <2>1. PICK q : q = [r EXCEPT !.lf.env = r.doc.env]
    OBVIOUS
  <2>2. q \in Runs /\ q.lf.env = q.doc.env
    BY <2>1 DEF Runs, Docs
  <2>3. EnvTurn(r) = ShellTurn(q)
    BY <1>1, <2>1 DEF EnvTurn
  <2> QED BY <2>2, <2>3, ShellTurnTakes
<1>2. CASE Due("env", r) # <<>>
  <2>1. PICK q : q = EnvTurn(r)
    OBVIOUS
  <2>2. q = [r EXCEPT !.pc = "env", !.todo = Due("env", r)]
    BY <1>2, <2>1 DEF EnvTurn
  <2>3. q.pc = "env" /\ q.lf = r.lf /\ q.doc = r.doc
    BY <2>2 DEF Runs
  <2>4. ~Skipped("env", r.doc, r.lf)
    BY <1>2 DEF Due
  <2> QED BY <2>1, <2>3, <2>4 DEF Takes
<1> QED BY <1>1, <1>2

\* With its first backend done.
LEMMA AfterTakes ==
    ASSUME NEW r \in Runs, NEW p \in Parts, r.todo # <<>>, r.pc \in {p, RcStep[p]}, Takes(r)
    PROVE  Takes(After(p, r)) /\ After(p, r).pc \in {"env", "shell", "rest"}
<1>1. /\ RcStep["env"] = "env rc" /\ RcStep["shell"] = "shell rc" /\ (p = "env" \/ p = "shell")
      /\ r.todo \in Todos
  BY DEF RcStep, Parts, Runs
<1>2. Tail(r.todo) \in Todos
  BY <1>1, TodoKinds
<1>3. CASE Tail(r.todo) # <<>>
  <2>1. PICK q : q = After(p, r)
    OBVIOUS
  <2>2. q = [r EXCEPT !.todo = Tail(r.todo), !.pc = p]
    BY <1>3, <2>1 DEF After, Runs
  <2>3. q.pc = p /\ q.lf = r.lf /\ q.doc = r.doc /\ q.failed = r.failed
    BY <2>2 DEF Runs
  <2> QED BY <1>1, <2>1, <2>3 DEF Takes
<1>4. CASE Tail(r.todo) = <<>> /\ p = "env"
  <2>1. PICK q : q = [r EXCEPT !.todo = <<>>, !.lf.env = r.doc.env]
    OBVIOUS
  <2>2. q \in Runs /\ q.lf.env = q.doc.env
    BY <2>1 DEF Runs, Docs, Todos
  <2>3. After(p, r) = ShellTurn(q)
    BY <1>4, <2>1 DEF After, Runs
  <2> QED BY <2>2, <2>3, ShellTurnTakes
<1>5. CASE Tail(r.todo) = <<>> /\ p = "shell"
  <2>1. PICK l : l = [r.lf EXCEPT !.shell = r.doc.shell]
    OBVIOUS
  <2>2. l.env = r.lf.env /\ l.shell = r.doc.shell
    BY <2>1 DEF Runs, Docs
  <2>3. PICK q : q = After(p, r)
    OBVIOUS
  <2>4. q = [r EXCEPT !.todo = <<>>, !.pc = "rest", !.lf = l]
    BY <1>5, <2>1, <2>3 DEF After, Runs
  <2>5. q.pc = "rest" /\ q.lf = l /\ q.doc = r.doc /\ q.failed = r.failed
    BY <2>4 DEF Runs
  <2> QED BY <1>1, <1>5, <2>2, <2>3, <2>5 DEF Takes
<1> QED BY <1>1, <1>3, <1>4, <1>5

\* Given up.
LEMMA GiveUpTakes ==
    ASSUME NEW r \in Runs, NEW p \in Parts, r.failed
    PROVE  Takes(GiveUp(p, r)) /\ GiveUp(p, r).pc \in {"shell", "rest"}
<1>1. CASE p = "env"
  <2>1. GiveUp(p, r) = ShellTurn(r)
    BY <1>1 DEF GiveUp
  <2> QED BY <2>1, ShellTurnTakes
<1>2. CASE p = "shell"
  <2>1. PICK q : q = GiveUp(p, r)
    OBVIOUS
  <2>2. q = [r EXCEPT !.pc = "rest", !.todo = <<>>]
    BY <1>2, <2>1 DEF GiveUp
  <2>3. q.pc = "rest" /\ q.failed
    BY <2>2 DEF Runs
  <2> QED BY <2>1, <2>3 DEF Takes
<1> QED BY <1>1, <1>2 DEF Parts

\* Unless a start-up file is next.
LEMMA NotInjecting ==
    ASSUME Takes(run'), run'.pc \notin {"env rc", "shell rc"}
    PROVE  Taking'
<1>1. RcStep["env"] = "env rc" /\ RcStep["shell"] = "shell rc"
  BY DEF RcStep
<1>2. \A p \in Parts : RcStep[p] \in {"env rc", "shell rc"}
  BY <1>1 DEF Parts
<1> QED BY <1>2 DEF Taking, Injecting

\* Every step of a run takes what it has done, and injects only where there is a need.
LEMMA TakingKeeps == ASSUME IInv, Taking, [Next]_vars PROVE Taking'
<1>1. Shape /\ run \in Runs /\ spec \in Docs /\ lock \in Docs /\ edits \in Nat /\ Idle \in Runs
  BY IdleIsARun, ContentKinds, BoundsAssumption DEF IInv, Shape
<1>2. RcStep["env"] = "env rc" /\ RcStep["shell"] = "shell rc" /\ Parts = {"env", "shell"}
  BY DEF RcStep, Parts
<1>3. CASE Apply
  <2>1. PICK other \in BOOLEAN :
          run' = EnvTurn([Idle EXCEPT !.doc = spec, !.lf = lock, !.settled = Settled(other), !.since = edits])
    BY <1>3 DEF Apply
  <2>2. PICK set : set = Settled(other)
    OBVIOUS
  <2>3. set \in BOOLEAN
    BY <2>2 DEF Settled
  <2>4. PICK r : r = [Idle EXCEPT !.doc = spec, !.lf = lock, !.settled = set, !.since = edits]
    OBVIOUS
  <2>5. r \in Runs
    BY <1>1, <2>3, <2>4 DEF Runs, Idle, Steps
  <2>6. run' = EnvTurn(r)
    BY <2>1, <2>2, <2>4
  <2> QED BY <2>5, <2>6, EnvTurnTakes, NotInjecting
<1>4. CASE \E p \in Parts : Render(p)
  <2>1. PICK p \in Parts : Render(p)
    BY <1>4
  <2>2. Rendering(p) /\ run.todo # <<>> /\ run.doc = spec /\ UNCHANGED <<spec, host>>
    BY <2>1, AtWork DEF Render, During
  <2>3. CASE NeedsLine(Now, p, run.doc)
    <3>1. run' = [run EXCEPT !.pc = RcStep[p]]
      BY <2>1, <2>3 DEF Render
    <3>2. run'.pc = RcStep[p] /\ run'.todo = run.todo /\ run'.doc = run.doc /\ run'.lf = run.lf /\ run'.failed = run.failed
      BY <1>1, <3>1 DEF Runs
    <3>3. Takes(run')
      BY <1>2, <2>2, <3>2 DEF Taking, Takes, Rendering
    <3>4. NeedsLine(Now, p, spec)'
      <4>1. Now' = Now
        BY <3>2 DEF Now
      <4>2. ShouldInject' = ShouldInject
        BY <2>2 DEF ShouldInject
      <4> QED BY <2>2, <2>3, <4>1, <4>2 DEF NeedsLine
    <3>5. \A q \in Parts : Injecting(q)' => q = p
      BY <1>2, <3>2 DEF Injecting
    <3> QED BY <3>3, <3>4, <3>5 DEF Taking
  <2>4. CASE ~NeedsLine(Now, p, run.doc)
    <3>1. run' = After(p, run)
      BY <2>1, <2>4 DEF Render
    <3> QED BY <1>1, <2>2, <3>1, AfterTakes, NotInjecting DEF Rendering, Taking
  <2> QED BY <2>3, <2>4
<1>5. CASE \E p \in Parts : RenderFails(p)
  <2>1. PICK p \in Parts : RenderFails(p)
    BY <1>5
  <2>2. CASE run.settled
    <3>1. run' = Idle
      BY <2>1, <2>2 DEF RenderFails
    <3> QED BY <3>1, NotInjecting DEF Takes, Idle
  <2>3. CASE ~run.settled
    <3>1. PICK r : r = [run EXCEPT !.failed = TRUE]
      OBVIOUS
    <3>2. r \in Runs /\ r.failed
      BY <1>1, <3>1 DEF Runs
    <3>3. run' = GiveUp(p, r)
      BY <2>1, <2>3, <3>1 DEF RenderFails
    <3> QED BY <3>2, <3>3, GiveUpTakes, NotInjecting
  <2> QED BY <2>2, <2>3
<1>6. CASE \E p \in Parts : Inject(p)
  <2>1. PICK p \in Parts : Inject(p)
    BY <1>6
  <2>2. Injecting(p) /\ run.todo # <<>> /\ run' = After(p, run)
    BY <2>1, AtWork DEF Inject, During
  <2> QED BY <1>1, <2>2, AfterTakes, NotInjecting DEF Injecting, Taking
<1>7. CASE \E p \in Parts : InjectFails(p)
  <2>1. PICK p \in Parts : InjectFails(p)
    BY <1>7
  <2>2. Injecting(p) /\ run.todo # <<>>
    BY <2>1, AtWork DEF InjectFails, During
  <2>3. PICK r : r = [run EXCEPT !.warned = TRUE]
    OBVIOUS
  <2>4. /\ r \in Runs /\ r.pc = run.pc /\ r.todo = run.todo /\ r.doc = run.doc /\ r.lf = run.lf
        /\ r.failed = run.failed
    BY <1>1, <2>3 DEF Runs
  <2>5. Takes(r) /\ run' = After(p, r)
    BY <2>1, <2>3, <2>4 DEF InjectFails, Taking, Takes
  <2> QED BY <2>2, <2>4, <2>5, AfterTakes, NotInjecting DEF Injecting
<1>8. CASE Finish \/ Kill
  <2>1. run' = Idle
    BY <1>8 DEF Finish, Kill
  <2> QED BY <2>1, NotInjecting DEF Takes, Idle
<1>9. CASE EditSpec \/ ChangeHost \/ LoseLock
  <2>1. run' = run /\ run.pc = "idle"
    BY <1>9 DEF EditSpec, ChangeHost, LoseLock
  <2> QED BY <2>1, NotInjecting DEF Takes
<1>10. CASE EditRc \/ UNCHANGED vars
  <2>1. UNCHANGED <<run, spec, host>>
    BY <1>10 DEF EditRc, vars
  <2> QED BY <2>1 DEF Taking, Injecting, Now, NeedsLine, ShouldInject
<1> QED BY <1>3, <1>4, <1>5, <1>6, <1>7, <1>8, <1>9, <1>10 DEF Next

\* An apply that ends without a failure or a warning, and without an edit meanwhile,
\* leaves the lock with what the spec says.
LEMMA RecordedKeeps == ASSUME IInv, Settling, [Next]_vars PROVE FreshIsRecorded'
<1>1. CASE Finish
  <2> SUFFICES ASSUME fresh' PROVE lock' = spec
    BY <1>1 DEF FreshIsRecorded, Finish
  <2>1. lock' = run.lf /\ ~run.failed /\ run.pc = "rest"
    BY <1>1 DEF Finish
  <2>2. run.doc = spec /\ run.lf \in Docs /\ spec \in Docs
    <3>1. Shape /\ run.doc = spec
      BY <2>1 DEF IInv, Running
    <3> QED BY <3>1, ContentKinds DEF Shape, Runs
  <2>3. run.lf.env = spec.env /\ run.lf.shell = spec.shell
    BY <2>1, <2>2 DEF Settling, Taking, Takes
  <2> QED BY <2>1, <2>2, <2>3 DEF Docs
<1>2. CASE Apply \/ (\E p \in Parts : Render(p) \/ RenderFails(p) \/ Inject(p)) \/ UNCHANGED vars
  <2>1. UNCHANGED <<fresh, lock, spec>>
    BY <1>2 DEF Apply, Render, RenderFails, Inject, vars
  <2> QED BY <2>1 DEF Settling, FreshIsRecorded
<1>3. CASE (\E p \in Parts : InjectFails(p)) \/ EditSpec \/ EditRc \/ ChangeHost \/ LoseLock
  <2>1. fresh' = FALSE
    BY <1>3 DEF InjectFails, EditSpec, EditRc, ChangeHost, LoseLock, Edit
  <2> QED BY <2>1 DEF FreshIsRecorded
<1>4. CASE Kill
  <2>1. UNCHANGED <<lock, spec>> /\ (fresh' = fresh \/ fresh' = FALSE)
    BY <1>4 DEF Kill
  <2> QED BY <2>1 DEF Settling, FreshIsRecorded
<1> QED BY <1>1, <1>2, <1>3, <1>4 DEF Next

\* A run looks at nothing that is to be skipped, injects only where a line is needed,
\* and when nothing has changed since, the lock says what the spec says.
THEOREM StaysSettled == Spec => [](IInv /\ Settling)
<1>1. Init => IInv /\ Settling
  <2>1. ASSUME Init PROVE Settling
    <3>1. run = Idle /\ fresh = FALSE
      BY <2>1 DEF Init
    <3>2. \A p \in Parts : RcStep[p] # "idle"
      <4>1. RcStep["env"] = "env rc" /\ RcStep["shell"] = "shell rc"
        BY DEF RcStep
      <4> QED BY <4>1 DEF Parts
    <3> QED BY <3>1, <3>2 DEF Settling, Taking, Takes, Injecting, FreshIsRecorded, Idle
  <2> QED BY <2>1, InitIInv
<1>2. IInv /\ Settling /\ [Next]_vars => IInv' /\ Settling'
  BY StepKeeps, TakingKeeps, RecordedKeeps DEF Settling
<1> QED BY <1>1, <1>2, PTL DEF Spec

-----------------------------------------------------------------------------
(* Only the block of a start-up file changes.                              *)

\* What a start-up file holds.
LEMMA LinesOf == ASSUME Shape, NEW r \in Rcs PROVE Lines(rc[r]) \in Seq(Line)
<1>1. <<>> \in Seq(Line)
  OBVIOUS
<1> QED BY <1>1 DEF Shape, Lines

\* A file that sources something is not empty.
LEMMA EmptySourcesNothing == ASSUME NEW b \in Backends, NEW p \in Parts PROVE ~SourcedIn(<<>>, b, p)
<1>1. PICK s \in Seq(Line) : s = <<>> /\ Len(s) = 0
  BY EmptySeq
<1>2. ASSUME NEW line PROVE FirstOf(s, line, 0) = 0
  <2>1. PICK f : f = FirstOf(s, line, 0)
    OBVIOUS
  <2>2. f = 0 \/ f \in (0 + 1)..Len(s)
    BY <2>1, FirstOfLemma
  <2> QED BY <1>1, <2>1, <2>2
<1>3. ~Tight(s, p)
  BY <1>2 DEF Tight
<1>4. ~Latest(s, FileOf[b][p])
  BY <1>2 DEF Latest
<1> QED BY <1>1, <1>3, <1>4 DEF SourcedIn

\* While nothing has changed since the last apply, what a run renders and injects is
\* there.
LEMMA ThereAlready ==
    ASSUME IInv, Settling, fresh, NEW p \in Parts, Rendering(p) \/ Injecting(p)
    PROVE  Now \in Backends /\ Written(Now, p, spec) /\ Served(Now, p, spec) /\ run.doc = spec
<1>1. Now \in Backends /\ Now \in Chosen /\ run.doc = spec /\ run.lf[p] = lock[p]
  BY AtWork DEF During, View
<1>2. RcStep["env"] = "env rc" /\ RcStep["shell"] = "shell rc" /\ (p = "env" \/ p = "shell")
  BY DEF RcStep, Parts
<1>3. ~Skipped(p, run.doc, run.lf)
  BY <1>2 DEF Settling, Taking, Takes, Rendering, Injecting
<1>4. ~Skipped(p, spec, lock)
  BY <1>1, <1>2, <1>3 DEF Skipped
<1> QED BY <1>1, <1>4 DEF IInv, FreshIsServed

\* What is rewritten then is the same.
LEMMA SameAgain ==
    ASSUME NEW s \in Seq(Line), NEW b \in Backends, NEW p \in Parts, SourcedIn(s, b, p)
    PROVE  Injected(b, p, s) = s
<1>1. CASE b = "posix"
  <2>1. FileOf[b][p] \in ShFiles
    BY <1>1, FileKinds
  <2>2. ReplaceOrAppend(s, FileOf[b][p]) = s
    BY <1>1, <2>1, NeatIsLeft DEF SourcedIn
  <2> QED BY <1>1, <2>2 DEF Injected
<1>2. CASE b = "powershell"
  <2>1. b # "posix" /\ Tight(s, p)
    BY <1>2 DEF SourcedIn
  <2>2. InjectProfileLine(s, p) = s
    BY <2>1, TightIsLeft
  <2> QED BY <2>1, <2>2 DEF Injected
<1> QED BY <1>1, <1>2 DEF Backends

\* A step of an apply, while nothing has changed since the last one.
LEMMA SettlesStep == ASSUME IInv, Settling, [Next]_vars, fresh, ByGenv PROVE UNCHANGED <<fragment, rc, lock>>
<1>1. Shape /\ edits \in Nat /\ faults \in Nat
  BY BoundsAssumption DEF IInv, Shape
<1>2. ~Fault /\ ~Edit
  BY <1>1 DEF Fault, Edit, ByGenv
<1>3. CASE \E p \in Parts : Render(p)
  <2>1. PICK p \in Parts : Render(p)
    BY <1>3
  <2>2. PICK b \in Backends : b = Now
    BY <2>1, ThereAlready DEF Render
  <2>3. Written(b, p, spec) /\ run.doc = spec
    BY <2>1, <2>2, ThereAlready DEF Render
  <2>4. fragment' = [fragment EXCEPT ![FileOf[b][p]] = Rendered(b, p, spec)]
    BY <2>1, <2>2, <2>3 DEF Render
  <2>5. fragment' = fragment
    BY <1>1, <2>3, <2>4 DEF Shape, Written
  <2> QED BY <2>1, <2>5 DEF Render
<1>4. CASE \E p \in Parts : Inject(p)
  <2>1. PICK p \in Parts : Inject(p)
    BY <1>4
  <2>2. PICK b \in Backends : b = Now
    BY <2>1, ThereAlready DEF Inject
  <2>3. NeedsLine(b, p, spec) /\ Served(b, p, spec)
    BY <2>1, <2>2, ThereAlready DEF Inject, Settling, Taking
  <2>4. PICK r \in Rcs : r = RcOf(b)
    BY FileKinds DEF Backends
  <2>5. PICK s \in Seq(Line) : s = Lines(rc[r])
    BY <1>1, LinesOf
  <2>6. SourcedIn(s, b, p)
    BY <2>3, <2>4, <2>5 DEF Served, Sourced
  <2>7. rc' = [rc EXCEPT ![r] = s]
    BY <2>1, <2>2, <2>4, <2>5, <2>6, SameAgain DEF Inject
  <2>8. rc[r] = s
    <3>1. s # <<>>
      BY <2>6, EmptySourcesNothing
    <3> QED BY <2>5, <3>1 DEF Lines
  <2>9. rc' = rc
    BY <1>1, <2>7, <2>8 DEF Shape
  <2> QED BY <2>1, <2>9 DEF Inject
<1>5. CASE Finish
  <2>1. lock' = run.lf /\ run.pc = "rest" /\ UNCHANGED <<fragment, rc>>
    BY <1>2, <1>5 DEF Finish
  <2>2. run.lf \in Docs /\ lock \in Docs /\ lock = spec /\ run.doc = spec
    BY <1>1, <2>1 DEF IInv, Running, Shape, Runs, Settling, FreshIsRecorded
  <2>3. \A p \in Parts : run.lf[p] = lock[p]
    <3>1. Over("env", run, View(spec)) /\ Over("shell", run, View(spec)) /\ View(spec).lock = lock
      BY <2>1 DEF IInv, Running, Sound, View
    <3> QED BY <2>2, <3>1 DEF Over, Parts
  <2>4. run.lf.env = lock.env /\ run.lf.shell = lock.shell
    BY <2>3 DEF Parts
  <2>5. run.lf = lock
    BY <2>2, <2>4 DEF Docs
  <2> QED BY <2>1, <2>5
<1>6. CASE Apply \/ UNCHANGED vars
  BY <1>6 DEF Apply, vars
<1>7. ~(\E p \in Parts : RenderFails(p) \/ InjectFails(p)) /\ ~Kill
  BY <1>2 DEF RenderFails, InjectFails, Kill
<1>8. ~EditSpec /\ ~EditRc /\ ~ChangeHost /\ ~LoseLock
  BY <1>2 DEF EditSpec, EditRc, ChangeHost, LoseLock
<1> QED BY <1>3, <1>4, <1>5, <1>6, <1>7, <1>8 DEF Next

\* Only an injection rewrites a start-up file, and only that of its backend.
LEMMA Rewrites ==
    ASSUME IInv, [Next]_vars, ByGenv, NEW r \in Rcs
    PROVE  \/ rc'[r] = rc[r]
           \/ \E b \in Backends, p \in Parts :
                /\ Lines(rc'[r]) = Injected(b, p, Lines(rc[r]))
                /\ Lines(rc[r]) \in Seq(Line) /\ Lines(rc'[r]) \in Seq(Line)
                /\ r \in PosixRcs <=> b = "posix"
<1>1. Shape /\ edits \in Nat /\ faults \in Nat
  BY BoundsAssumption DEF IInv, Shape
<1>2. ~Fault /\ ~Edit
  BY <1>1 DEF Fault, Edit, ByGenv
<1>3. CASE \E p \in Parts : Inject(p)
  <2>1. PICK p \in Parts : Inject(p)
    BY <1>3
  <2>2. PICK b \in Backends : b = Now
    BY <2>1, AtWork DEF Inject
  <2>3. RcOf(b) \in Rcs /\ (RcOf(b) \in PosixRcs <=> b = "posix")
    BY FileKinds DEF Backends
  <2>4. CASE r = RcOf(b)
    <3>1. PICK s \in Seq(Line) : s = Lines(rc[r])
      BY <1>1, LinesOf
    <3>2. PICK t : t = Injected(b, p, s)
      OBVIOUS
    <3>3. b = "powershell" => Apart(s)
      BY <1>1, <2>4, <3>1, FileKinds DEF Shape
    <3>4. t \in Seq(Line)
      BY <3>2, <3>3, InjectedLemma
    <3>5. rc'[r] = t
      BY <1>1, <2>1, <2>2, <2>4, <3>1, <3>2 DEF Inject, Shape
    <3>6. Lines(t) = t
      BY <3>4, RcsAssumption DEF Lines
    <3> QED BY <2>3, <2>4, <3>1, <3>2, <3>4, <3>5, <3>6
  <2>5. CASE r # RcOf(b)
    BY <1>1, <2>1, <2>2, <2>5 DEF Inject, Shape
  <2> QED BY <2>4, <2>5
<1>4. CASE Apply \/ (\E p \in Parts : Render(p)) \/ Finish \/ UNCHANGED vars
  BY <1>4 DEF Apply, Render, Finish, vars
<1>5. ~(\E p \in Parts : RenderFails(p) \/ InjectFails(p)) /\ ~Kill
  BY <1>2 DEF RenderFails, InjectFails, Kill
<1>6. ~EditSpec /\ ~EditRc /\ ~ChangeHost /\ ~LoseLock
  BY <1>2 DEF EditSpec, EditRc, ChangeHost, LoseLock
<1> QED BY <1>3, <1>4, <1>5, <1>6 DEF Next

\* So the user's lines stay, and no line is doubled.
LEMMA KeepsUsersStep ==
    ASSUME IInv, [Next]_vars, NEW r \in Rewritten
    PROVE  InOrder(Lines(rc[r]), Lines(rc'[r]), Own(Lines(rc[r])))
BY Rewrites, InjectedKeepsUsers DEF Rewritten

\* Likewise.
LEMMA SourcesOnceStep ==
    ASSUME IInv, [Next]_vars, NEW r \in Rewritten, NEW f \in FragmentFiles,
           InBlock(r, Lines(rc[r]), f)
    PROVE  ~(Count(Lines(rc'[r]), f) > Count(Lines(rc[r]), f))
<1>1. PICK s \in Seq(Line) : s = Lines(rc[r])
  BY LinesOf DEF IInv, Rewritten
<1>2. Count(s, f) \in Nat
  BY CountType
<1>3. r \in Rcs /\ ByGenv /\ rc'[r] # rc[r]
  BY DEF Rewritten
<1>4. CASE \E b \in Backends, p \in Parts : /\ Lines(rc'[r]) = Injected(b, p, Lines(rc[r]))
                                            /\ Lines(rc'[r]) \in Seq(Line)
                                            /\ r \in PosixRcs <=> b = "posix"
  <2>1. PICK b \in Backends, p \in Parts : /\ Lines(rc'[r]) = Injected(b, p, s) /\ Lines(rc'[r]) \in Seq(Line)
                                      /\ (r \in PosixRcs <=> b = "posix")
    BY <1>1, <1>4
  <2>2. PICK t : t = Injected(b, p, s)
    OBVIOUS
  <2>3. Count(t, f) <= Count(s, f)
    BY <1>1, <2>1, <2>2, InjectedCounts
  <2>4. Count(t, f) \in Nat
    <3>1. t \in Seq(Line)
      BY <2>1, <2>2
    <3> QED BY <3>1, CountType
  <2> QED BY <1>1, <1>2, <2>1, <2>2, <2>3, <2>4
<1> QED BY <1>3, <1>4, Rewrites

\* In a start-up file apply changes its own lines only, doubles none, and comes to rest:
\* while nothing changes, fragments, start-up files and lock stay as they are.
THEOREM OnlyTheBlockChanges == Spec => BlockIsAllThatChanges
<1>1. IInv /\ Settling /\ [Next]_vars => [fresh /\ ByGenv => UNCHANGED <<fragment, rc, lock>>]_vars
  BY SettlesStep
<1>2. IInv /\ Settling /\ [Next]_vars =>
        [\A r \in Rewritten :
           LET s == Lines(rc[r]) t == Lines(rc'[r]) IN
           \E to \in [Own(s) -> DOMAIN t] : /\ \A i \in Own(s) : t[to[i]] = s[i]
                                            /\ \A i, j \in Own(s) : i < j => to[i] < to[j]]_vars
  BY KeepsUsersStep DEF InOrder
<1>3. IInv /\ Settling /\ [Next]_vars =>
        [\A r \in Rewritten, f \in FragmentFiles :
           LET s == Lines(rc[r]) t == Lines(rc'[r])
           IN  Count(t, f) > Count(s, f) => ~InBlock(r, s, f)]_vars
  BY SourcesOnceStep
<1>4. Spec => AppliesSettle
  BY <1>1, StaysSettled, PTL DEF Spec, AppliesSettle
<1>5. Spec => UsersLinesKept
  BY <1>2, StaysSettled, PTL DEF Spec, UsersLinesKept
<1>6. Spec => SourcedOnce
  BY <1>3, StaysSettled, PTL DEF Spec, SourcedOnce
<1> QED BY <1>4, <1>5, <1>6, PTL DEF BlockIsAllThatChanges

=============================================================================
