----------------------------- MODULE ListTheorems -----------------------------
(***************************************************************************)
(* What the operators of Lists, and those of SequencesExt and              *)
(* FiniteSetsExt that go with them, return.                                *)
(***************************************************************************)
EXTENDS Lists, FiniteSetTheorems, WellFoundedInduction, TLAPS

(***************************************************************************)
(* Induction over the natural numbers, without an operator as a parameter: *)
(* the smallest number outside S could only be a successor.                *)
(***************************************************************************)
LEMMA SmallestOf ==
    ASSUME NEW S, S \subseteq Nat, S # {}
    PROVE  \E x \in S : \A y \in S : x <= y
<1> DEFINE R == {ss \in Nat \X Nat : ss[1] < ss[2]}
<1>1. IsWellFoundedOn(R, Nat)
  BY NatLessThanWellFounded DEF OpToRel
<1>2. PICK x \in S : \A y \in S : ~(<<y, x>> \in R)
  <2> HIDE DEF R
  <2> QED BY <1>1, WFMin
<1>3. \A y \in S : ~(y < x)
  BY <1>2
<1> QED BY <1>3

LEMMA SetInduction ==
    ASSUME NEW S, 0 \in S, \A n \in Nat : n \in S => n + 1 \in S
    PROVE  Nat \subseteq S
<1> SUFFICES ASSUME Nat \ S # {} PROVE FALSE
  OBVIOUS
<1>1. PICK x \in Nat \ S : \A y \in Nat \ S : x <= y
  BY SmallestOf
<1>2. x # 0 /\ x - 1 \in Nat /\ (x - 1) + 1 = x
  BY <1>1
<1>3. x - 1 \in S
  BY <1>1, <1>2
<1> QED BY <1>1, <1>2, <1>3

LEMMA MinLemma ==
    ASSUME NEW S, S \subseteq Nat, S # {}
    PROVE  Min(S) \in S /\ \A y \in S : Min(S) <= y
BY SmallestOf DEF Min

LEMMA MaxLemma ==
    ASSUME NEW S, NEW n \in Nat, S \subseteq 1..n, S # {}
    PROVE  Max(S) \in S /\ \A y \in S : Max(S) >= y
<1> DEFINE D == {d \in 0..n : n - d \in S}
<1>1. D \subseteq Nat /\ D # {}
  <2>1. PICK y \in S : TRUE
    OBVIOUS
  <2>2. y \in 1..n
    OBVIOUS
  <2>3. n - y \in 0..n /\ n - (n - y) = y
    BY <2>2
  <2>4. n - y \in D
    BY <2>1, <2>3
  <2>5. 0..n \subseteq Nat
    OBVIOUS
  <2>6. D \subseteq Nat
    BY <2>5
  <2> HIDE DEF D
  <2> QED BY <2>4, <2>6
<1>2. PICK d \in D : \A e \in D : d <= e
  <2> HIDE DEF D
  <2> QED BY <1>1, SmallestOf
<1>3. n - d \in S /\ d \in 0..n
  OBVIOUS
<1>4. ASSUME NEW y \in S PROVE n - d >= y
  <2>1. y \in 1..n /\ n - y \in 0..n /\ n - (n - y) = y
    OBVIOUS
  <2>2. n - y \in D
    BY <2>1
  <2>3. d <= n - y
    BY <1>2, <2>2
  <2> QED BY <1>3, <2>1, <2>3
<1>5. \E x \in S : \A y \in S : x >= y
  BY <1>3, <1>4
<1> QED BY <1>5 DEF Max

LEMMA SetToSeqLemma ==
    ASSUME NEW S, IsFiniteSet(S)
    PROVE  /\ SetToSeq(S) \in Seq(S)
           /\ ToSet(SetToSeq(S)) = S
           /\ IsInjective(SetToSeq(S))
<1> DEFINE n == Cardinality(S)
           s == SetToSeq(S)
<1>1. n \in Nat /\ ExistsBijection(1..n, S)
  BY FS_CardinalityType
<1>2. PICK f : f \in Bijection(1..n, S)
  BY <1>1 DEF ExistsBijection
<1>3. f \in [1..n -> S] /\ IsInjective(f)
  BY <1>2 DEF Bijection, Injection, IsInjective
<1>4. s \in [1..n -> S] /\ IsInjective(s)
  BY <1>3 DEF SetToSeq
<1> HIDE DEF s, n
<1>5. s \in Injection(1..n, S)
  BY <1>4 DEF Injection, IsInjective
<1>6. Cardinality(1..n) = n
  BY <1>1, FS_Interval
<1>7. s \in Surjection(1..n, S)
  BY <1>5, <1>6, FS_Injection DEF n
<1>8. ToSet(s) = S
  BY <1>4, <1>7 DEF Surjection, ToSet
<1> QED BY <1>1, <1>4, <1>8 DEF s

(***************************************************************************)
(* The elements of a sequence.                                             *)
(***************************************************************************)
LEMMA ToSetConcat ==
    ASSUME NEW T, NEW s \in Seq(T), NEW t \in Seq(T)
    PROVE  s \o t \in Seq(T) /\ ToSet(s \o t) = ToSet(s) \cup ToSet(t)
<1>1. s \o t \in Seq(T) /\ Len(s \o t) = Len(s) + Len(t)
  OBVIOUS
<1>2. \A i \in 1..Len(s) : (s \o t)[i] = s[i]
  OBVIOUS
<1>3. ASSUME NEW j \in 1..Len(t)
      PROVE  Len(s) + j \in 1..Len(s \o t) /\ (s \o t)[Len(s) + j] = t[j]
  BY <1>1
<1>4. ToSet(s \o t) \subseteq ToSet(s) \cup ToSet(t)
  <2> SUFFICES ASSUME NEW i \in 1..Len(s \o t) PROVE (s \o t)[i] \in ToSet(s) \cup ToSet(t)
    BY <1>1 DEF ToSet
  <2>1. CASE i <= Len(s)
    BY <1>2, <2>1 DEF ToSet
  <2>2. CASE i > Len(s)
    <3>1. i - Len(s) \in 1..Len(t) /\ Len(s) + (i - Len(s)) = i
      BY <1>1, <2>2
    <3> QED BY <1>3, <3>1 DEF ToSet
  <2> QED BY <1>1, <2>1, <2>2
<1>5. ToSet(s) \subseteq ToSet(s \o t)
  BY <1>1, <1>2 DEF ToSet
<1>6. ToSet(t) \subseteq ToSet(s \o t)
  <2> SUFFICES ASSUME NEW j \in 1..Len(t) PROVE t[j] \in ToSet(s \o t)
    BY DEF ToSet
  <2>1. Len(s) + j \in DOMAIN (s \o t) /\ (s \o t)[Len(s) + j] = t[j]
    BY <1>1, <1>3
  <2> QED BY <2>1 DEF ToSet
<1> QED BY <1>1, <1>4, <1>5, <1>6

LEMMA ToSetAppend ==
    ASSUME NEW T, NEW s \in Seq(T), NEW x \in T
    PROVE  Append(s, x) \in Seq(T) /\ ToSet(Append(s, x)) = ToSet(s) \cup {x}
<1>1. /\ Append(s, x) \in Seq(T) /\ Len(Append(s, x)) = Len(s) + 1
      /\ Append(s, x)[Len(s) + 1] = x
      /\ \A i \in 1..Len(s) : Append(s, x)[i] = s[i]
  OBVIOUS
<1>2. DOMAIN Append(s, x) = 1..(Len(s) + 1) /\ DOMAIN s = 1..Len(s) /\ Len(s) \in Nat
  BY <1>1
<1>3. 1..(Len(s) + 1) = 1..Len(s) \cup {Len(s) + 1}
  BY <1>2
<1> QED BY <1>1, <1>2, <1>3 DEF ToSet

\* What is left when the first element has been dealt with.
LEMMA AppendOnce ==
    ASSUME NEW T, NEW s \in Seq(T), IsInjective(s), NEW x \in T, x \notin ToSet(s)
    PROVE  IsInjective(Append(s, x))
<1> DEFINE n == Len(s)
           longer == Append(s, x)
<1>1. /\ n \in Nat /\ DOMAIN s = 1..n /\ DOMAIN longer = 1..(n + 1) /\ longer[n + 1] = x
      /\ \A i \in 1..n : longer[i] = s[i]
  OBVIOUS
<1>2. \A i \in 1..n : s[i] # x
  BY <1>1 DEF ToSet
<1>3. \A i, j \in 1..n : s[i] = s[j] => i = j
  BY <1>1 DEF IsInjective
<1> HIDE DEF longer, n
<1>4. \A i \in 1..(n + 1) : i \in 1..n \/ i = n + 1
  BY <1>1
<1>5. \A i, j \in 1..(n + 1) : longer[i] = longer[j] => i = j
  BY <1>1, <1>2, <1>3, <1>4
<1> QED BY <1>1, <1>5 DEF IsInjective, longer

LEMMA ToSetTail ==
    ASSUME NEW T, NEW s \in Seq(T), s # <<>>
    PROVE  /\ Head(s) \in T /\ Tail(s) \in Seq(T)
           /\ ToSet(s) = {Head(s)} \cup ToSet(Tail(s))
           /\ IsInjective(s) => IsInjective(Tail(s)) /\ Head(s) \notin ToSet(Tail(s))
<1>1. /\ Len(s) \in Nat /\ Len(s) >= 1 /\ DOMAIN s = 1..Len(s)
      /\ Head(s) = s[1] /\ Tail(s) \in Seq(T) /\ Len(Tail(s)) = Len(s) - 1
  OBVIOUS
<1>2. \A i \in 1..(Len(s) - 1) : Tail(s)[i] = s[i + 1]
  OBVIOUS
<1>3. DOMAIN Tail(s) = 1..(Len(s) - 1)
  BY <1>1
<1>4. ToSet(s) \subseteq {Head(s)} \cup ToSet(Tail(s))
  <2> SUFFICES ASSUME NEW i \in 1..Len(s), i # 1 PROVE s[i] \in ToSet(Tail(s))
    BY <1>1 DEF ToSet
  <2>1. i - 1 \in 1..(Len(s) - 1) /\ (i - 1) + 1 = i
    BY <1>1
  <2> QED BY <1>2, <1>3, <2>1 DEF ToSet
<1>5. \A i \in 1..(Len(s) - 1) : i + 1 \in 1..Len(s) /\ i + 1 # 1
  BY <1>1
<1>6. {Head(s)} \cup ToSet(Tail(s)) \subseteq ToSet(s)
  BY <1>1, <1>2, <1>3, <1>5 DEF ToSet
<1>7. ASSUME IsInjective(s) PROVE IsInjective(Tail(s)) /\ Head(s) \notin ToSet(Tail(s))
  <2>1. IsInjective(Tail(s))
    <3> SUFFICES ASSUME NEW i \in 1..(Len(s) - 1), NEW j \in 1..(Len(s) - 1), s[i + 1] = s[j + 1]
                 PROVE  i = j
      BY <1>2, <1>3 DEF IsInjective
    <3>1. i + 1 = j + 1
      BY <1>1, <1>5, <1>7 DEF IsInjective
    <3> QED BY <3>1
  <2>2. Head(s) \notin ToSet(Tail(s))
    BY <1>1, <1>2, <1>3, <1>5, <1>7 DEF IsInjective, ToSet
  <2> QED BY <2>1, <2>2
<1>8. Head(s) \in T
  BY <1>1
<1> QED BY <1>1, <1>4, <1>6, <1>7, <1>8

LEMMA ToSetFinite ==
    ASSUME NEW T, NEW s \in Seq(T)
    PROVE  IsFiniteSet(ToSet(s)) /\ ToSet(s) \subseteq T
<1>1. s \in [1..Len(s) -> T] /\ Len(s) \in Nat
  OBVIOUS
<1>2. IsFiniteSet(1..Len(s))
  BY <1>1, FS_Interval
<1>3. s \in Surjection(1..Len(s), ToSet(s))
  BY <1>1 DEF Surjection, ToSet
<1>4. IsFiniteSet(ToSet(s))
  BY <1>2, <1>3, FS_Surjection
<1> QED BY <1>1, <1>4 DEF ToSet

(***************************************************************************)
(* Keep.                                                                   *)
(***************************************************************************)
\* The loop, element by element.
LEMMA KeepSteps ==
    ASSUME NEW T, NEW s \in Seq(T), NEW S
    PROVE  \E kept : /\ Keep(s, S) = kept[Len(s)] /\ kept[0] = <<>>
                     /\ \A i \in 1..Len(s) :
                            kept[i] = IF s[i] \in S THEN Append(kept[i - 1], s[i]) ELSE kept[i - 1]
<1> DEFINE n == Len(s)
           Next1(g, i) == IF s[i] \in S THEN Append(g[i - 1], s[i]) ELSE g[i - 1]
           Upto(m) == {g \in [0..m -> Seq(T)] : g[0] = <<>> /\ \A i \in 1..m : g[i] = Next1(g, i)}
           Good == {m \in Nat : m <= n => Upto(m) # {}}
<1>1. n \in Nat /\ \A i \in 1..n : s[i] \in T
  OBVIOUS
<1>2. 0 \in Good
  <2>1. [i \in 0..0 |-> <<>>] \in Upto(0)
    OBVIOUS
  <2> QED BY <2>1
<1>3. ASSUME NEW m \in Nat, m \in Good PROVE m + 1 \in Good
  <2>0. ASSUME m + 1 <= n PROVE Upto(m) # {}
    <3> HIDE DEF Upto
    <3> QED BY <1>1, <1>3, <2>0
  <2> SUFFICES ASSUME m + 1 <= n PROVE Upto(m + 1) # {}
    <3> HIDE DEF Upto
    <3> QED OBVIOUS
  <2>1. PICK g \in Upto(m) : TRUE
    <3> HIDE DEF Upto
    <3> QED BY <2>0
  <2> DEFINE h == [i \in 0..(m + 1) |-> IF i = m + 1 THEN Next1(g, i) ELSE g[i]]
  <2>2. g \in [0..m -> Seq(T)] /\ g[0] = <<>> /\ \A i \in 1..m : g[i] = Next1(g, i)
    BY <2>1
  <2>3. s[m + 1] \in T /\ (m + 1) - 1 = m /\ g[m] \in Seq(T)
    BY <1>1, <2>2
  <2>4. Next1(g, m + 1) \in Seq(T)
    BY <2>3
  <2>5. h \in [0..(m + 1) -> Seq(T)]
    <3> HIDE DEF Next1
    <3> QED BY <2>2, <2>4
  <2>6. h[0] = <<>>
    BY <2>2
  <2>7. ASSUME NEW i \in 1..(m + 1) PROVE h[i] = Next1(h, i)
    <3>1. i - 1 \in 0..m /\ i \in 0..(m + 1) /\ h[i - 1] = g[i - 1]
      OBVIOUS
    <3>2. CASE i = m + 1
      BY <3>1, <3>2
    <3>3. CASE i # m + 1
      <4>1. i \in 1..m /\ h[i] = g[i]
        BY <3>1, <3>3
      <4>2. g[i] = Next1(g, i)
        BY <2>2, <4>1
      <4> QED BY <3>1, <4>1, <4>2
    <3> QED BY <3>2, <3>3
  <2>8. h \in Upto(m + 1)
    <3> HIDE DEF h, Next1
    <3> QED BY <2>5, <2>6, <2>7
  <2> QED BY <2>8
<1>4. n \in Good
  <2> HIDE DEF Good
  <2> QED BY <1>1, <1>2, <1>3, SetInduction
<1>5. PICK g \in Upto(n) : TRUE
  BY <1>1, <1>4
<1> DEFINE F(k) == [i \in 0..n |-> IF i = 0 THEN <<>> ELSE Next1(k, i)]
           kept == CHOOSE k : k = F(k)
<1>6. g = F(g)
  <2>1. g \in [0..n -> Seq(T)] /\ g[0] = <<>> /\ \A i \in 1..n : g[i] = Next1(g, i)
    BY <1>5
  <2>2. \A i \in 0..n : g[i] = IF i = 0 THEN <<>> ELSE Next1(g, i)
    <3> HIDE DEF Next1
    <3> QED BY <1>1, <2>1
  <2> HIDE DEF Next1
  <2> QED BY <2>1, <2>2
<1>7. kept = F(kept)
  <2> HIDE DEF F
  <2> QED BY <1>6
<1>8. Keep(s, S) = kept[n]
  BY DEF Keep
<1>9. kept[0] = <<>> /\ \A i \in 1..n : kept[i] = Next1(kept, i)
  <2> HIDE DEF kept, Next1
  <2>1. \A i \in 0..n : kept[i] = F(kept)[i]
    BY <1>7
  <2>2. \A i \in 1..n : i \in 0..n /\ i # 0
    BY <1>1
  <2> QED BY <1>1, <2>1, <2>2
<1> HIDE DEF kept
<1> QED BY <1>8, <1>9

LEMMA KeepLemma ==
    ASSUME NEW T, NEW s \in Seq(T), NEW S
    PROVE  Keep(s, S) \in Seq(T) /\ ToSet(Keep(s, S)) = ToSet(s) \cap S
<1> DEFINE n == Len(s)
<1>1. n \in Nat /\ \A i \in 1..n : s[i] \in T
  OBVIOUS
<1>8. PICK kept : /\ Keep(s, S) = kept[n] /\ kept[0] = <<>>
                  /\ \A i \in 1..n : kept[i] = IF s[i] \in S THEN Append(kept[i - 1], s[i]) ELSE kept[i - 1]
  BY KeepSteps
<1> DEFINE Right == {m \in Nat : m <= n => /\ kept[m] \in Seq(T)
                                          /\ ToSet(kept[m]) = {s[i] : i \in 1..m} \cap S}
<1>10. 0 \in Right
  <2>1. <<>> \in Seq(T) /\ ToSet(<<>>) = {}
    BY DEF ToSet
  <2>2. 1..0 = {}
    OBVIOUS
  <2> QED BY <1>8, <2>1, <2>2
<1>11. ASSUME NEW m \in Nat, m \in Right PROVE m + 1 \in Right
  <2> SUFFICES ASSUME m + 1 <= n
               PROVE  /\ kept[m + 1] \in Seq(T)
                      /\ ToSet(kept[m + 1]) = {s[i] : i \in 1..(m + 1)} \cap S
    OBVIOUS
  <2>1. kept[m] \in Seq(T) /\ ToSet(kept[m]) = {s[i] : i \in 1..m} \cap S
    BY <1>1, <1>11
  <2>2. m + 1 \in 1..n /\ (m + 1) - 1 = m /\ s[m + 1] \in T
    BY <1>1
  <2>3. kept[m + 1] = IF s[m + 1] \in S THEN Append(kept[m], s[m + 1]) ELSE kept[m]
    BY <1>8, <2>2
  <2>4. 1..(m + 1) = 1..m \cup {m + 1}
    OBVIOUS
  <2>5. CASE s[m + 1] \in S
    BY <2>1, <2>2, <2>3, <2>4, <2>5, ToSetAppend
  <2>6. CASE s[m + 1] \notin S
    BY <2>1, <2>2, <2>3, <2>4, <2>6
  <2> QED BY <2>5, <2>6
<1>12. n \in Right
  <2> HIDE DEF Right
  <2> QED BY <1>1, <1>10, <1>11, SetInduction
<1>13. ToSet(s) = {s[i] : i \in 1..n}
  BY DEF ToSet
<1> QED BY <1>1, <1>8, <1>12, <1>13

\* What is kept of a list without duplicates has none.
LEMMA KeepOnce ==
    ASSUME NEW T, NEW s \in Seq(T), NEW S, IsInjective(s)
    PROVE  IsInjective(Keep(s, S))
<1> DEFINE n == Len(s)
<1>1. n \in Nat /\ DOMAIN s = 1..n /\ \A i \in 1..n : s[i] \in T
  OBVIOUS
<1>2. PICK kept : /\ Keep(s, S) = kept[n] /\ kept[0] = <<>>
                  /\ \A i \in 1..n : kept[i] = IF s[i] \in S THEN Append(kept[i - 1], s[i]) ELSE kept[i - 1]
  BY KeepSteps
<1>3. \A i, j \in 1..n : s[i] = s[j] => i = j
  BY <1>1 DEF IsInjective
<1> DEFINE Right == {m \in Nat : m <= n => /\ kept[m] \in Seq(T) /\ IsInjective(kept[m])
                                          /\ ToSet(kept[m]) \subseteq {s[i] : i \in 1..m}}
<1>4. 0 \in Right
  <2>1. <<>> \in Seq(T) /\ ToSet(<<>>) = {} /\ IsInjective(<<>>)
    BY DEF ToSet, IsInjective
  <2> QED BY <1>2, <2>1
<1>5. ASSUME NEW m \in Nat, m \in Right PROVE m + 1 \in Right
  <2> SUFFICES ASSUME m + 1 <= n
               PROVE  /\ kept[m + 1] \in Seq(T) /\ IsInjective(kept[m + 1])
                      /\ ToSet(kept[m + 1]) \subseteq {s[i] : i \in 1..(m + 1)}
    OBVIOUS
  <2>1. /\ kept[m] \in Seq(T) /\ IsInjective(kept[m])
        /\ ToSet(kept[m]) \subseteq {s[i] : i \in 1..m}
    BY <1>1, <1>5
  <2>2. m + 1 \in 1..n /\ (m + 1) - 1 = m /\ s[m + 1] \in T
    BY <1>1
  <2>3. kept[m + 1] = IF s[m + 1] \in S THEN Append(kept[m], s[m + 1]) ELSE kept[m]
    BY <1>2, <2>2
  <2>4. 1..(m + 1) = 1..m \cup {m + 1}
    OBVIOUS
  <2>5. s[m + 1] \notin ToSet(kept[m])
    <3> SUFFICES ASSUME NEW i \in 1..m, s[i] = s[m + 1] PROVE FALSE
      BY <2>1
    <3>1. i \in 1..n /\ i # m + 1
      BY <1>1
    <3> QED BY <1>3, <2>2, <3>1
  <2>6. CASE s[m + 1] \in S
    <3>1. ToSet(Append(kept[m], s[m + 1])) = ToSet(kept[m]) \cup {s[m + 1]}
      BY <2>1, <2>2, ToSetAppend
    <3>2. IsInjective(Append(kept[m], s[m + 1]))
      BY <2>1, <2>2, <2>5, AppendOnce
    <3>3. Append(kept[m], s[m + 1]) \in Seq(T)
      BY <2>1, <2>2
    <3> QED BY <2>1, <2>3, <2>4, <2>6, <3>1, <3>2, <3>3
  <2>7. CASE s[m + 1] \notin S
    BY <2>1, <2>2, <2>3, <2>4, <2>7
  <2> QED BY <2>6, <2>7
<1>6. n \in Right
  <2> HIDE DEF Right
  <2> QED BY <1>1, <1>4, <1>5, SetInduction
<1> QED BY <1>1, <1>2, <1>6

(***************************************************************************)
(* Distinct.                                                               *)
(***************************************************************************)
LEMMA DistinctLemma ==
    ASSUME NEW T, NEW s \in Seq(T)
    PROVE  Distinct(s) \in Seq(T) /\ ToSet(Distinct(s)) = ToSet(s)
<1> DEFINE n == Len(s)
           first == {i \in 1..n : \A j \in 1..(i - 1) : s[j] # s[i]}
           places == [i \in 1..n |-> i]
           at == Keep(places, first)
           result == [k \in 1..Len(at) |-> s[at[k]]]
<1>1. n \in Nat /\ \A i \in 1..n : s[i] \in T
  OBVIOUS
<1>2. places \in Seq(1..n) /\ ToSet(places) = 1..n
  <2>1. places \in [1..n -> 1..n] /\ DOMAIN places = 1..n
    OBVIOUS
  <2> HIDE DEF n
  <2> QED BY <1>1, <2>1 DEF ToSet
<1>3. at \in Seq(1..n) /\ ToSet(at) = first
  <2>1. first \subseteq 1..n
    OBVIOUS
  <2> HIDE DEF places, first, n
  <2>2. at \in Seq(1..n) /\ ToSet(at) = ToSet(places) \cap first
    BY <1>2, KeepLemma
  <2> QED BY <1>2, <2>1, <2>2
<1>4. result \in Seq(T) /\ ToSet(result) = {s[i] : i \in first}
  <2> HIDE DEF at, first, n
  <2>1. Len(at) \in Nat /\ DOMAIN at = 1..Len(at) /\ \A k \in 1..Len(at) : at[k] \in 1..n
    <3> DEFINE R == 1..n
    <3>1. at \in Seq(R)
      BY <1>3
    <3> HIDE DEF R
    <3>2. Len(at) \in Nat /\ DOMAIN at = 1..Len(at) /\ \A k \in 1..Len(at) : at[k] \in R
      BY <3>1
    <3> QED BY <3>2 DEF R
  <2>2. \A k \in 1..Len(at) : s[at[k]] \in T
    BY <1>1, <2>1
  <2>3. result \in Seq(T)
    BY <2>1, <2>2
  <2>4. DOMAIN result = 1..Len(at) /\ first = {at[k] : k \in 1..Len(at)}
    BY <1>3, <2>1 DEF ToSet
  <2>5. ToSet(result) = {s[at[k]] : k \in 1..Len(at)}
    BY <2>4 DEF ToSet
  <2> QED BY <2>3, <2>4, <2>5
<1> DEFINE Good == {m \in Nat : \A i \in 1..m : i <= n => \E j \in first : s[j] = s[i]}
<1>5. 0 \in Good
  OBVIOUS
<1>6. ASSUME NEW m \in Nat, m \in Good PROVE m + 1 \in Good
  <2> SUFFICES ASSUME NEW i \in 1..(m + 1), i <= n PROVE \E j \in first : s[j] = s[i]
    OBVIOUS
  <2>1. CASE i \in first
    BY <2>1
  <2>2. CASE i \notin first
    <3>1. PICK j \in 1..(i - 1) : s[j] = s[i]
      BY <2>2
    <3>2. j \in 1..m /\ j <= n
      BY <1>1
    <3>3. \E l \in first : s[l] = s[j]
      <4> HIDE DEF first, n
      <4> QED BY <1>6, <3>2
    <3> HIDE DEF first
    <3> QED BY <3>1, <3>3
  <2> QED BY <2>1, <2>2
<1>7. n \in Good
  <2> HIDE DEF Good
  <2> QED BY <1>1, <1>5, <1>6, SetInduction
<1>8. \A i \in 1..n : \E j \in first : s[j] = s[i]
  <2> HIDE DEF first, n
  <2> QED BY <1>1, <1>7
<1>9. ToSet(s) = {s[i] : i \in first}
  <2>1. ToSet(s) = {s[i] : i \in 1..n} /\ first \subseteq 1..n
    BY DEF ToSet
  <2> HIDE DEF first, n
  <2> QED BY <1>8, <2>1
<1>10. Distinct(s) = result
  BY DEF Distinct
<1> HIDE DEF result
<1> QED BY <1>4, <1>9, <1>10

LEMMA DistinctOnce ==
    ASSUME NEW T, NEW s \in Seq(T)
    PROVE  IsInjective(Distinct(s))
<1> DEFINE n == Len(s)
           first == {i \in 1..n : \A j \in 1..(i - 1) : s[j] # s[i]}
           places == [i \in 1..n |-> i]
           at == Keep(places, first)
           result == [k \in 1..Len(at) |-> s[at[k]]]
<1>1. n \in Nat
  OBVIOUS
<1>2. places \in Seq(1..n) /\ IsInjective(places)
  <2>1. places \in [1..n -> 1..n] /\ DOMAIN places = 1..n /\ \A i \in 1..n : places[i] = i
    OBVIOUS
  <2> HIDE DEF n, places
  <2> QED BY <1>1, <2>1 DEF IsInjective
<1>3. at \in Seq(1..n) /\ IsInjective(at) /\ ToSet(at) \subseteq first
  <2> HIDE DEF places, first, n
  <2> QED BY <1>2, KeepLemma, KeepOnce
<1>4. \A i, j \in first : s[i] = s[j] => i = j
  <2> SUFFICES ASSUME NEW i \in first, NEW j \in first, s[i] = s[j], i < j PROVE FALSE
    BY <1>1
  <2> QED BY <1>1
<1>5. DOMAIN at = 1..Len(at) /\ \A k \in 1..Len(at) : at[k] \in first
  <2> HIDE DEF first, n, places
  <2>1. DOMAIN at = 1..Len(at)
    BY <1>3
  <2> QED BY <1>3, <2>1 DEF ToSet
<1>6. \A k, l \in 1..Len(at) : at[k] = at[l] => k = l
  <2> HIDE DEF at
  <2> QED BY <1>3, <1>5 DEF IsInjective
<1>7. DOMAIN result = 1..Len(at) /\ \A k, l \in 1..Len(at) : result[k] = result[l] => k = l
  <2> HIDE DEF at, first, n
  <2> QED BY <1>4, <1>5, <1>6
<1>8. Distinct(s) = result
  BY DEF Distinct
<1> HIDE DEF result, at
<1> QED BY <1>7, <1>8 DEF IsInjective

\* Two lists without repetitions that share nothing make one without any.
LEMMA ConcatOnce ==
    ASSUME NEW T, NEW s \in Seq(T), NEW t \in Seq(T), IsInjective(s), IsInjective(t), ToSet(s) \cap ToSet(t) = {}
    PROVE  IsInjective(s \o t)
<1> DEFINE c == s \o t
<1>1. /\ DOMAIN s = 1..Len(s) /\ DOMAIN t = 1..Len(t) /\ Len(s) \in Nat /\ Len(t) \in Nat
      /\ DOMAIN c = 1..(Len(s) + Len(t))
      /\ \A i \in 1..(Len(s) + Len(t)) : c[i] = IF i <= Len(s) THEN s[i] ELSE t[i - Len(s)]
  OBVIOUS
<1> HIDE DEF c
<1>2. /\ \A i, j \in 1..Len(s) : s[i] = s[j] => i = j
      /\ \A i, j \in 1..Len(t) : t[i] = t[j] => i = j
  BY <1>1 DEF IsInjective
<1>3. \A i \in 1..Len(s), j \in 1..Len(t) : s[i] # t[j]
  BY <1>1 DEF ToSet
<1>4. ASSUME NEW i \in 1..(Len(s) + Len(t)), NEW j \in 1..(Len(s) + Len(t)), c[i] = c[j] PROVE i = j
  <2>1. CASE i <= Len(s) /\ j <= Len(s)
    BY <1>1, <1>2, <1>4, <2>1
  <2>2. CASE i > Len(s) /\ j > Len(s)
    <3>1. i - Len(s) \in 1..Len(t) /\ j - Len(s) \in 1..Len(t) /\ c[i] = t[i - Len(s)] /\ c[j] = t[j - Len(s)]
      BY <1>1, <2>2
    <3>2. i - Len(s) = j - Len(s)
      BY <1>2, <1>4, <3>1
    <3> QED BY <1>1, <3>2
  <2>3. CASE i <= Len(s) /\ j > Len(s)
    <3>1. i \in 1..Len(s) /\ j - Len(s) \in 1..Len(t) /\ c[i] = s[i] /\ c[j] = t[j - Len(s)]
      BY <1>1, <2>3
    <3> QED BY <1>3, <1>4, <3>1
  <2>4. CASE i > Len(s) /\ j <= Len(s)
    <3>1. j \in 1..Len(s) /\ i - Len(s) \in 1..Len(t) /\ c[j] = s[j] /\ c[i] = t[i - Len(s)]
      BY <1>1, <2>4
    <3> QED BY <1>3, <1>4, <3>1
  <2> QED BY <1>1, <2>1, <2>2, <2>3, <2>4
<1> QED BY <1>1, <1>4 DEF IsInjective, c

\* A list without repetitions is as long as its set is large.
LEMMA OnceLength ==
    ASSUME NEW T, NEW s \in Seq(T), IsInjective(s)
    PROVE  Len(s) = Cardinality(ToSet(s))
<1>1. s \in [1..Len(s) -> T] /\ Len(s) \in Nat /\ DOMAIN s = 1..Len(s)
  OBVIOUS
<1>2. s \in [1..Len(s) -> ToSet(s)]
  BY <1>1 DEF ToSet
<1>3. s \in Bijection(1..Len(s), ToSet(s))
  BY <1>1, <1>2 DEF Bijection, Injection, Surjection, ToSet, IsInjective
<1>4. ExistsBijection(1..Len(s), ToSet(s))
  BY <1>3 DEF ExistsBijection
<1> QED BY <1>1, <1>4, FS_CountingElements
=============================================================================
