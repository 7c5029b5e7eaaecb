--------------------------- MODULE CommandsProofs ---------------------------
(***************************************************************************)
(* What the commands do to the spec, the lock and the machine, for any     *)
(* number of processes, packages, managers, targets, commands and faults.  *)
(* The parts, in order:                                                    *)
(*                                                                         *)
(* What the operators of Reconcile return: which adapter a package         *)
(* resolves to, what a plan owes to each declared package and to each      *)
(* entry of the lock, and which entries the lock has after an apply.       *)
(*                                                                         *)
(* Ind: no command ever writes the lock from a stale copy                  *)
(* (SnapshotIsCurrent).                                                    *)
(*                                                                         *)
(* Sound: what a command holds of the lock, the plan and the machine is    *)
(* made of entries and packages, and a list of entries has no two of one   *)
(* package; with it, what an apply wrote matches the spec (ApplyIsTrue),   *)
(* the lock forgets only on purpose and only tracked packages are          *)
(* uninstalled.                                                            *)
(*                                                                         *)
(* Uninstalled: a package that has been uninstalled and is not put back is *)
(* let go of by the command that did it (TakesOnlyWhatItMay).              *)
(*                                                                         *)
(* NotThere: an apply that finds a declared package installed and          *)
(* unrecorded records it (ApplyResumes).                                   *)
(*                                                                         *)
(* Recorded: every package genv has put on the machine is in the lock or   *)
(* in the hands of a command about to record it (NoOrphan).                *)
(***************************************************************************)
EXTENDS Commands, ListTheorems

-----------------------------------------------------------------------------
(* The operators of Reconcile, for every spec, lock and inventory.         *)

LEMMA FirstRegisteredLemma ==
    ASSUME NEW S
    PROVE  FirstRegistered(S) # None => FirstRegistered(S) \in S /\ FirstRegistered(S) \in Registered
<1> DEFINE at == {i \in DOMAIN Registry : Registry[i] \in S}
<1>1. at \subseteq Nat
  BY ReconcileAssumption
<1>2. CASE at # {}
  <2>1. Min(at) \in at
    BY <1>1, <1>2, MinLemma
  <2> QED BY <2>1 DEF FirstRegistered, Registered
<1>3. CASE at = {}
  BY <1>3 DEF FirstRegistered
<1> QED BY <1>2, <1>3

\* A package resolves to a manager that is there, or to none.
LEMMA ResolveLemma ==
    ASSUME NEW pkg, NEW available
    PROVE  Resolve(pkg, available) \in available \cup {None}
BY FirstRegisteredLemma DEF Resolve

LEMMA LockedIdsLemma ==
    ASSUME NEW s \in Seq(Entry)
    PROVE  LockedIds(s) = {e.id : e \in ToSet(s)} /\ LockedIds(s) \subseteq Ids
<1>1. ToSet(s) \subseteq Entry
  BY ToSetFinite
<1>2. LockedIds(s) = {e.id : e \in ToSet(s)}
  BY DEF LockedIds, ToSet
<1>3. \A e \in Entry : e.id \in Ids
  BY DEF Entry
<1> QED BY <1>1, <1>2, <1>3

\* The entry of an id that is locked is one of the lock's, under that id.
LEMMA LastEntryLemma ==
    ASSUME NEW entries \in Seq(Entry), NEW id \in LockedIds(entries)
    PROVE  /\ LastEntry(entries, id) \in ToSet(entries)
           /\ LastEntry(entries, id) \in Entry
           /\ LastEntry(entries, id).id = id
<1> DEFINE at == {i \in DOMAIN entries : entries[i].id = id}
<1>1. at # {}
  BY DEF LockedIds
<1>2. at \subseteq 1..Len(entries) /\ Len(entries) \in Nat
  OBVIOUS
<1>3. Max(at) \in at
  <2> HIDE DEF at
  <2> QED BY <1>1, <1>2, MaxLemma
<1>4. LastEntry(entries, id) = entries[Max(at)]
  BY DEF LastEntry
<1>5. entries[Max(at)] \in Entry /\ entries[Max(at)].id = id /\ entries[Max(at)] \in ToSet(entries)
  <2> DEFINE i == Max(at)
  <2>1. i \in DOMAIN entries /\ entries[i].id = id
    BY <1>3
  <2> HIDE DEF i
  <2>2. entries[i] \in Entry
    BY <2>1
  <2>3. entries[i] \in ToSet(entries)
    BY <2>1 DEF ToSet
  <2> QED BY <2>1, <2>2, <2>3 DEF i
<1> QED BY <1>4, <1>5

(***************************************************************************)
(* What a plan owes: every declared package is to be installed or has an   *)
(* entry; every locked package is to be removed, to be installed or keeps  *)
(* its entry; only what is not declared any more, under an adapter that is *)
(* registered, is removed.                                                 *)
(***************************************************************************)
PlanIsSound(desired, entries, available, plan) ==
    /\ DOMAIN plan.install \subseteq DOMAIN desired
    /\ \A id \in DOMAIN plan.install : plan.install[id] = Resolve(desired[id], available)
    /\ {plan.remove, plan.unchanged, plan.adopted} \subseteq Seq(Entry)
    /\ \A e \in ToSet(plan.remove) :
          e \in ToSet(entries) /\ e.manager \in Registered /\ e.id \notin DOMAIN desired
    /\ \A e \in ToSet(plan.unchanged) : e.id \in DOMAIN desired \/ e.manager \notin Registered
    /\ LockedIds(plan.adopted) \subseteq DOMAIN desired
    /\ DOMAIN desired \subseteq
          DOMAIN plan.install \cup LockedIds(plan.unchanged) \cup LockedIds(plan.adopted)
    /\ LockedIds(entries) \subseteq
          DOMAIN plan.install \cup LockedIds(plan.unchanged) \cup LockedIds(plan.remove)

LEMMA PlanLemma ==
    ASSUME NEW desired, DOMAIN desired \subseteq Ids, IsFiniteSet(Ids),
           NEW entries \in Seq(Entry), NEW available,
           NEW live, DOMAIN live \subseteq Managers
    PROVE  PlanIsSound(desired, entries, available, ReconcileWith(desired, entries, available, live))
<1> DEFINE plan == ReconcileWith(desired, entries, available, live)
           adopted == Adoptable(desired, entries, available, live)
           queued == ToInstall(desired, entries, available, live)
           undeclared == {e \in Entry : e.id \notin DOMAIN desired}
           settled == {e \in Entry \ undeclared : ~Requeued(desired, e, live)}
           ours == {e \in Entry : e.manager \in Registered}
           new(id) == [id |-> id, manager |-> Resolve(desired[id], available), version |-> None]
           news == {new(id) : id \in adopted}
<1>1. /\ plan.install = [id \in queued |-> Resolve(desired[id], available)]
      /\ plan.remove = Keep(entries, undeclared \cap ours)
      /\ plan.unchanged = Keep(entries, settled \cup (undeclared \ ours))
      /\ plan.adopted = SetToSeq(news)
  BY DEF ReconcileWith
<1>2. queued \subseteq DOMAIN desired /\ adopted \subseteq DOMAIN desired
  BY DEF ToInstall, Adoptable
<1>3. ToSet(entries) \subseteq Entry
  BY ToSetFinite
<1>4. /\ plan.remove \in Seq(Entry)
      /\ ToSet(plan.remove) = ToSet(entries) \cap undeclared \cap ours
  <2> HIDE DEF plan, undeclared, ours
  <2> QED BY <1>1, KeepLemma
<1>5. /\ plan.unchanged \in Seq(Entry)
      /\ ToSet(plan.unchanged) = ToSet(entries) \cap (settled \cup (undeclared \ ours))
  <2> HIDE DEF plan, undeclared, ours, settled
  <2> QED BY <1>1, KeepLemma
<1>6. news \subseteq Entry
  <2> SUFFICES ASSUME NEW id \in adopted PROVE new(id) \in Entry
    OBVIOUS
  <2>1. Resolve(desired[id], available) \in Managers /\ id \in Ids
    BY <1>2 DEF Adoptable, IsLive
  <2> QED BY <2>1 DEF Entry
<1>7. IsFiniteSet(news)
  <2>1. IsFiniteSet(adopted)
    BY <1>2, FS_Subset
  <2> DEFINE f == [id \in adopted |-> new(id)]
  <2>2. f \in Surjection(adopted, news)
    BY DEF Surjection
  <2> QED BY <2>1, <2>2, FS_Surjection
<1>8. plan.adopted \in Seq(Entry) /\ ToSet(plan.adopted) = news
  <2>1. SetToSeq(news) \in Seq(news) /\ ToSet(SetToSeq(news)) = news
    <3> HIDE DEF news
    <3> QED BY <1>7, SetToSeqLemma
  <2>2. Seq(news) \subseteq Seq(Entry)
    <3> HIDE DEF news
    <3> QED BY <1>6
  <2> HIDE DEF plan, news
  <2> QED BY <1>1, <2>1, <2>2
<1> HIDE DEF plan
<1>9. LockedIds(plan.adopted) = adopted
  <2>1. LockedIds(plan.adopted) = {e.id : e \in news}
    <3> HIDE DEF news
    <3> QED BY <1>8, LockedIdsLemma
  <2>2. \A id \in adopted : new(id).id = id
    OBVIOUS
  <2>3. {e.id : e \in news} = {new(id).id : id \in adopted}
    <3> HIDE DEF new
    <3> QED OBVIOUS
  <2> HIDE DEF adopted, news, new
  <2> QED BY <2>1, <2>2, <2>3
<1>10. \A e \in ToSet(plan.unchanged) : e.id \in LockedIds(plan.unchanged)
  BY <1>5, LockedIdsLemma
<1>11. \A e \in ToSet(plan.remove) : e.id \in LockedIds(plan.remove)
  BY <1>4, LockedIdsLemma
<1>12. ASSUME NEW id \in LockedIds(entries), id \in DOMAIN desired, id \notin queued
       PROVE  id \in LockedIds(plan.unchanged)
  <2> DEFINE e == LastEntry(entries, id)
  <2>1. e \in ToSet(entries) /\ e \in Entry /\ e.id = id
    BY LastEntryLemma
  <2>2. ~Requeued(desired, e, live)
    BY <1>12 DEF ToInstall
  <2>3. e \in settled
    BY <1>12, <2>1, <2>2
  <2> HIDE DEF e
  <2> QED BY <1>5, <1>10, <2>1, <2>3
<1>13. ASSUME NEW id \in DOMAIN desired, id \notin LockedIds(entries), id \notin queued
       PROVE  id \in adopted
  BY <1>13 DEF ToInstall
<1>14. ASSUME NEW id \in LockedIds(entries), id \notin DOMAIN desired
       PROVE  id \in LockedIds(plan.unchanged) \cup LockedIds(plan.remove)
  <2> DEFINE e == LastEntry(entries, id)
  <2>1. e \in ToSet(entries) /\ e \in Entry /\ e.id = id
    BY LastEntryLemma
  <2> HIDE DEF e
  <2> QED BY <1>4, <1>5, <1>10, <1>11, <1>14, <2>1
<1>15. DOMAIN desired \subseteq queued \cup LockedIds(plan.unchanged) \cup LockedIds(plan.adopted)
  <2> HIDE DEF queued, adopted
  <2> QED BY <1>9, <1>12, <1>13
<1>16. LockedIds(entries) \subseteq queued \cup LockedIds(plan.unchanged) \cup LockedIds(plan.remove)
  <2> HIDE DEF queued, adopted
  <2> QED BY <1>12, <1>14
<1>17. DOMAIN plan.install = queued
       /\ \A id \in queued : plan.install[id] = Resolve(desired[id], available)
  BY <1>1
<1>18. \A e \in ToSet(plan.unchanged) : e.id \in DOMAIN desired \/ e.manager \notin Registered
  BY <1>5
<1>19. \A e \in ToSet(plan.remove) :
          e \in ToSet(entries) /\ e.manager \in Registered /\ e.id \notin DOMAIN desired
  BY <1>4
<1> HIDE DEF queued, adopted
<1>20. PlanIsSound(desired, entries, available, plan)
  BY <1>2, <1>4, <1>5, <1>8, <1>9, <1>15, <1>16, <1>17, <1>18, <1>19 DEF PlanIsSound
<1> QED BY <1>20 DEF plan

(***************************************************************************)
(* The lock after an apply.                                                *)
(***************************************************************************)
LEMMA LockAfterApplyLemma ==
    ASSUME NEW desired, DOMAIN desired \subseteq Ids, NEW entries \in Seq(Entry), NEW available,
           NEW plan, PlanIsSound(desired, entries, available, plan),
           NEW installed \in Seq(Entry), LockedIds(installed) \subseteq DOMAIN plan.install,
           NEW uninstalled
    PROVE  LET after == LockAfterApply(entries, plan, installed, uninstalled)
               left == LockedIds(plan.remove) \ uninstalled
           IN  /\ after \in Seq(Entry)
               /\ LockedIds(entries) \subseteq LockedIds(after) \cup uninstalled
               /\ LockedIds(plan.unchanged) \cup LockedIds(plan.adopted) \cup LockedIds(installed)
                     \subseteq LockedIds(after)
               /\ \A e \in ToSet(after) :
                     e.manager \in Registered => e.id \in DOMAIN desired \cup left
<1> DEFINE after == LockAfterApply(entries, plan, installed, uninstalled)
           left == LockedIds(plan.remove) \ uninstalled
           missed == (DOMAIN plan.install \cap LockedIds(entries)) \ LockedIds(installed)
           still == {e \in Entry : e.id \notin uninstalled}
           kept == Keep(plan.remove, still)
           old == {LastEntry(entries, id) : id \in missed}
           again == SetToSeq(old)
           back == [i \in DOMAIN kept |-> LastEntry(entries, kept[i].id)]
<1>1. after = plan.unchanged \o plan.adopted \o installed \o again \o back
  BY DEF LockAfterApply
<1>2. /\ plan.unchanged \in Seq(Entry) /\ plan.adopted \in Seq(Entry) /\ plan.remove \in Seq(Entry)
      /\ DOMAIN plan.install \subseteq DOMAIN desired
      /\ \A e \in ToSet(plan.remove) : e \in ToSet(entries)
  BY DEF PlanIsSound
<1>3. kept \in Seq(Entry) /\ ToSet(kept) = ToSet(plan.remove) \cap still
  <2> HIDE DEF still
  <2> QED BY <1>2, KeepLemma
<1>4. \A id \in missed : LastEntry(entries, id) \in Entry /\ LastEntry(entries, id).id = id
  BY LastEntryLemma
<1>5. old \subseteq Entry /\ {e.id : e \in old} = missed
  <2> HIDE DEF missed
  <2> QED BY <1>4
<1>6. IsFiniteSet(old)
  <2>1. IsFiniteSet(ToSet(entries))
    BY ToSetFinite
  <2>2. old \subseteq ToSet(entries)
    BY LastEntryLemma
  <2> QED BY <2>1, <2>2, FS_Subset
<1>7. again \in Seq(Entry) /\ ToSet(again) = old
  <2> HIDE DEF old
  <2>1. again \in Seq(old) /\ ToSet(again) = old
    BY <1>6, SetToSeqLemma
  <2>2. Seq(old) \subseteq Seq(Entry)
    BY <1>5
  <2> QED BY <2>1, <2>2
<1>8. \A i \in DOMAIN kept : kept[i] \in ToSet(plan.remove) /\ kept[i].id \in left
  <2>1. \A i \in DOMAIN kept : kept[i] \in ToSet(plan.remove) \cap still
    <3> HIDE DEF kept
    <3> QED BY <1>3 DEF ToSet
  <2>2. \A e \in ToSet(plan.remove) : e.id \in LockedIds(plan.remove)
    BY <1>2, LockedIdsLemma
  <2> HIDE DEF kept
  <2> QED BY <2>1, <2>2
<1>9. LockedIds(plan.remove) \subseteq LockedIds(entries)
  BY <1>2, LockedIdsLemma
<1>10. \A i \in DOMAIN kept : LastEntry(entries, kept[i].id) \in Entry
                              /\ LastEntry(entries, kept[i].id).id = kept[i].id
  <2> HIDE DEF kept
  <2> QED BY <1>8, <1>9, LastEntryLemma
<1>11. back \in Seq(Entry) /\ DOMAIN back = DOMAIN kept
  <2> HIDE DEF kept
  <2>1. DOMAIN kept = 1..Len(kept) /\ Len(kept) \in Nat
    BY <1>3
  <2> QED BY <1>10, <2>1
<1>12. LockedIds(back) = left
  <2>1. LockedIds(back) = {kept[i].id : i \in DOMAIN kept}
    <3> HIDE DEF kept
    <3> QED BY <1>10 DEF LockedIds
  <2>2. {kept[i].id : i \in DOMAIN kept} = LockedIds(kept)
    BY DEF LockedIds
  <2>3. LockedIds(kept) = {e.id : e \in ToSet(plan.remove) \cap still}
    <3> HIDE DEF kept, still
    <3> QED BY <1>3, LockedIdsLemma
  <2>4. {e.id : e \in ToSet(plan.remove) \cap still} = left
    <3>1. ToSet(plan.remove) \subseteq Entry
      BY <1>2, ToSetFinite
    <3>2. LockedIds(plan.remove) = {e.id : e \in ToSet(plan.remove)}
      BY <1>2, LockedIdsLemma
    <3> QED BY <3>1, <3>2
  <2> HIDE DEF kept, back, left, still
  <2> QED BY <2>1, <2>2, <2>3, <2>4
<1>13. /\ after \in Seq(Entry)
       /\ ToSet(after) = ToSet(plan.unchanged) \cup ToSet(plan.adopted) \cup ToSet(installed)
                         \cup old \cup ToSet(back)
  <2> HIDE DEF after, again, back, old
  <2> DEFINE two == plan.unchanged \o plan.adopted
             three == two \o installed
             four == three \o again
  <2>1. two \in Seq(Entry) /\ ToSet(two) = ToSet(plan.unchanged) \cup ToSet(plan.adopted)
    BY <1>2, ToSetConcat
  <2>2. three \in Seq(Entry) /\ ToSet(three) = ToSet(two) \cup ToSet(installed)
    <3> HIDE DEF two
    <3> QED BY <2>1, ToSetConcat
  <2>3. four \in Seq(Entry) /\ ToSet(four) = ToSet(three) \cup ToSet(again)
    <3> HIDE DEF three
    <3> QED BY <1>7, <2>2, ToSetConcat
  <2>4. four \o back \in Seq(Entry) /\ ToSet(four \o back) = ToSet(four) \cup ToSet(back)
    <3> HIDE DEF four
    <3> QED BY <1>11, <2>3, ToSetConcat
  <2> QED BY <1>1, <1>7, <2>1, <2>2, <2>3, <2>4
<1>14. LockedIds(after) = LockedIds(plan.unchanged) \cup LockedIds(plan.adopted)
                          \cup LockedIds(installed) \cup missed \cup left
  <2>1. LockedIds(after) = {e.id : e \in ToSet(after)}
    <3> HIDE DEF after
    <3> QED BY <1>13, LockedIdsLemma
  <2>2. /\ LockedIds(plan.unchanged) = {e.id : e \in ToSet(plan.unchanged)}
        /\ LockedIds(plan.adopted) = {e.id : e \in ToSet(plan.adopted)}
        /\ LockedIds(installed) = {e.id : e \in ToSet(installed)}
    BY <1>2, LockedIdsLemma
  <2>3. left = {e.id : e \in ToSet(back)}
    <3> HIDE DEF back
    <3> QED BY <1>11, <1>12, LockedIdsLemma
  <2> HIDE DEF after, missed, left, old, back
  <2> QED BY <1>5, <1>13, <2>1, <2>2, <2>3
<1>15. LockedIds(entries) \subseteq LockedIds(after) \cup uninstalled
  <2> SUFFICES ASSUME NEW id \in LockedIds(entries), id \notin uninstalled
               PROVE  id \in LockedIds(after)
    OBVIOUS
  <2>1. id \in DOMAIN plan.install \cup LockedIds(plan.unchanged) \cup LockedIds(plan.remove)
    BY DEF PlanIsSound
  <2> HIDE DEF after
  <2> QED BY <1>14, <2>1
<1>16. \A e \in ToSet(after) : e.manager \in Registered => e.id \in DOMAIN desired \cup left
  <2> HIDE DEF after, old, back, left, missed
  <2> SUFFICES ASSUME NEW e \in ToSet(after), e.manager \in Registered
               PROVE  e.id \in DOMAIN desired \cup left
    OBVIOUS
  <2>1. CASE e \in ToSet(plan.unchanged)
    BY <2>1 DEF PlanIsSound
  <2>2. CASE e \in ToSet(plan.adopted)
    <3>1. e.id \in LockedIds(plan.adopted)
      BY <1>2, <2>2, LockedIdsLemma
    <3> QED BY <3>1 DEF PlanIsSound
  <2>3. CASE e \in ToSet(installed)
    <3>1. e.id \in LockedIds(installed)
      BY <2>3, LockedIdsLemma
    <3> QED BY <1>2, <3>1
  <2>4. CASE e \in old
    <3>1. e.id \in missed
      BY <1>5, <2>4
    <3> QED BY <1>2, <3>1 DEF missed
  <2>5. CASE e \in ToSet(back)
    <3>1. e.id \in LockedIds(back)
      BY <1>11, <2>5, LockedIdsLemma
    <3> QED BY <1>12, <3>1
  <2> QED BY <1>13, <2>1, <2>2, <2>3, <2>4, <2>5
<1>17. LockedIds(plan.unchanged) \cup LockedIds(plan.adopted) \cup LockedIds(installed)
          \subseteq LockedIds(after)
  <2> HIDE DEF after, left, missed
  <2> QED BY <1>14
<1>18. after \in Seq(Entry)
  BY <1>13
<1> HIDE DEF after, left
<1> QED BY <1>15, <1>16, <1>17, <1>18 DEF after, left

\* The versions that the inventory reports are filled in, and nothing else is.
LEMMA FillLemma ==
    ASSUME NEW entries \in Seq(Entry), NEW inventory \in Machine, NEW answering
    PROVE  LET filled == FillMissingInstalledVersions(entries, inventory, answering)
           IN  /\ filled \in Seq(Entry)
               /\ DOMAIN filled = DOMAIN entries
               /\ \A i \in DOMAIN entries : /\ filled[i].id = entries[i].id
                                            /\ filled[i].manager = entries[i].manager
               /\ LockedIds(filled) = LockedIds(entries)
<1> DEFINE filled == FillMissingInstalledVersions(entries, inventory, answering)
           new(e) == IF e.version = None /\ e.manager \in Listers \cap answering
                     THEN [e EXCEPT !.version = inventory[e.manager][e.id]] ELSE e
<1>1. filled = [i \in DOMAIN entries |-> new(entries[i])]
  BY DEF FillMissingInstalledVersions
<1>2. DOMAIN entries = 1..Len(entries) /\ Len(entries) \in Nat
      /\ \A i \in DOMAIN entries : entries[i] \in Entry
  OBVIOUS
<1>3. ASSUME NEW e \in Entry PROVE new(e) \in Entry /\ new(e).id = e.id /\ new(e).manager = e.manager
  <2>1. inventory[e.manager][e.id] \in Versions \cup {None}
    BY DEF Entry, Machine
  <2> QED BY <2>1 DEF Entry
<1> HIDE DEF new, filled
<1>4. DOMAIN filled = DOMAIN entries /\ \A i \in DOMAIN entries : filled[i] = new(entries[i])
  BY <1>1
<1>5. filled \in Seq(Entry)
  BY <1>1, <1>2, <1>3
<1>6. \A i \in DOMAIN entries : filled[i].id = entries[i].id /\ filled[i].manager = entries[i].manager
  BY <1>2, <1>3, <1>4
<1>7. LockedIds(filled) = LockedIds(entries)
  BY <1>4, <1>6 DEF LockedIds
<1> QED BY <1>4, <1>5, <1>6, <1>7 DEF filled

LEMMA WithoutLemma ==
    ASSUME NEW entries \in Seq(Entry), NEW id
    PROVE  /\ Without(entries, id) \in Seq(Entry)
           /\ LockedIds(Without(entries, id)) = LockedIds(entries) \ {id}
<1> DEFINE others == {e \in Entry : e.id # id}
           rest == Keep(entries, others)
<1>1. rest \in Seq(Entry) /\ ToSet(rest) = ToSet(entries) \cap others
  <2> HIDE DEF others
  <2> QED BY KeepLemma
<1>2. ToSet(entries) \subseteq Entry
  BY ToSetFinite
<1>3. LockedIds(rest) = {e.id : e \in ToSet(rest)} /\ LockedIds(entries) = {e.id : e \in ToSet(entries)}
  <2> HIDE DEF rest
  <2> QED BY <1>1, LockedIdsLemma
<1> HIDE DEF rest
<1>4. LockedIds(rest) = LockedIds(entries) \ {id}
  BY <1>1, <1>2, <1>3
<1> QED BY <1>1, <1>4 DEF rest, Without

-----------------------------------------------------------------------------
(* The commands.                                                           *)

Fields == {"pc", "cmd", "target", "id", "pkg", "tracked", "staged", "lf", "entries",
           "plan", "todo", "uninstalled", "failed", "exit"}

\* Every process has a record of the command it runs.
Shape == DOMAIN proc = Procs /\ \A p \in Procs : DOMAIN proc[p] = Fields

SpecWriters == {"add", "adopt", "remove", "disown", "scan"}

\* Inside and the currency of the copy, as predicates on a command's record.
Within(c) ==
    \/ c.pc \in {"read", "plan", "remove", "uninstall", "write"}
    \/ c.pc = "install" /\ c.cmd \in Applies
    \/ c.pc = "spec" /\ c.cmd \in {"remove", "disown", "scan"}
Current(c, lf) == c.pc = "read" \/ (c.pc = "write" /\ c.cmd = "upgrade") \/ c.lf = lf

\* The inductive invariant: besides the property, which commands come to write
\* the spec - add and adopt do it before they take the mutex, the others after.
Ind ==
    /\ Shape
    /\ \A p \in Procs : proc[p].pc = "spec" => proc[p].cmd \in SpecWriters
    /\ \A p \in Procs : Within(proc[p]) => mutex = p /\ Current(proc[p], lock)

\* What a step of p has to satisfy: it leaves a well-formed record, inside only
\* with the mutex and a current copy, and disturbs nobody who is inside.
LEMMA Frame ==
    ASSUME NEW p \in Procs, NEW c, Ind,
           proc' = [proc EXCEPT ![p] = c], DOMAIN c = Fields,
           c.pc = "spec" => c.cmd \in SpecWriters,
           Within(c) => mutex' = p /\ Current(c, lock'),
           \A q \in Procs \ {p} : Within(proc[q]) => mutex' = q /\ lock' = lock
    PROVE  Ind'
<1>1. Shape'
  BY DEF Ind, Shape
<1>2. \A q \in Procs \ {p} : proc'[q] = proc[q]
  BY DEF Ind, Shape
<1>3. proc'[p] = c
  BY DEF Ind, Shape
<1>4. \A q \in Procs : proc'[q].pc = "spec" => proc'[q].cmd \in SpecWriters
  BY <1>2, <1>3 DEF Ind
<1>5. \A q \in Procs : Within(proc'[q]) => mutex' = q /\ Current(proc'[q], lock')
  <2> SUFFICES ASSUME NEW q \in Procs, Within(proc'[q]) PROVE mutex' = q /\ Current(proc'[q], lock')
    OBVIOUS
  <2>1. CASE q = p
    BY <2>1, <1>3
  <2>2. CASE q # p
    BY <2>2, <1>2 DEF Ind
  <2> QED BY <2>1, <2>2
<1> QED BY <1>1, <1>4, <1>5 DEF Ind, Shape, Within, Current

LEMMA Initially == Init => Ind
BY DEF Init, Ind, Shape, Idle, Fields, Within

\* A step that touches neither the mutex nor the lock and ends outside.
LEMMA OutsideKeeps ==
    ASSUME NEW p \in Procs, NEW c, Ind, Become(p, c), DOMAIN c = Fields,
           c.pc = "spec" => c.cmd \in SpecWriters, ~Within(c),
           mutex' = mutex, lock' = lock
    PROVE  Ind'
BY Frame DEF Ind, Become

\* A step of the holder after which it is still inside with a current copy,
\* or is done.
LEMMA InsideKeeps ==
    ASSUME NEW p \in Procs, NEW c, Ind, Become(p, c), DOMAIN c = Fields,
           c.pc = "spec" => c.cmd \in SpecWriters, mutex = p,
           Within(c) => Current(c, lock'), mutex' = mutex
    PROVE  Ind'
BY Frame DEF Ind, Become

\* A command that ends, whatever it has done to the lock if it was inside.
LEMMA ExitKeeps ==
    ASSUME NEW p \in Procs, NEW code, Ind, Exit(p, code), mutex' = mutex,
           lock' = lock \/ mutex = p
    PROVE  Ind'
<1> DEFINE c == [proc[p] EXCEPT !.pc = "done", !.exit = code]
<1>1. DOMAIN c = Fields /\ c.pc = "done"
  BY DEF Ind, Shape, Fields
<1>2. ~Within(c)
  BY <1>1 DEF Within
<1>3. \A q \in Procs \ {p} : Within(proc[q]) => mutex' = q /\ lock' = lock
  BY DEF Ind
<1> QED BY <1>1, <1>2, <1>3, Frame DEF Exit, Become

LEMMA BeginKeeps == ASSUME Ind, NEW p \in Procs, Begin(p) PROVE Ind'
<1> DEFINE at(cmd) == IF cmd \in Applies \cup {"upgrade"} THEN "lock" ELSE "stage"
           c(cmd, t, id, pkg) ==
             [Idle EXCEPT !.pc = at(cmd), !.cmd = cmd, !.target = t, !.id = id, !.pkg = pkg]
<1>1. PICK cmd \in Kinds, t \in Targets : \E id, pkg : Become(p, c(cmd, t, id, pkg))
  BY DEF Begin
<1>2. PICK id, pkg : Become(p, c(cmd, t, id, pkg))
  BY <1>1
<1>3. DOMAIN c(cmd, t, id, pkg) = Fields
  BY DEF Idle, Fields
<1>4. c(cmd, t, id, pkg).pc \in {"lock", "stage"}
  BY DEF Idle
<1>5. ~Within(c(cmd, t, id, pkg)) /\ c(cmd, t, id, pkg).pc # "spec"
  BY <1>4 DEF Within
<1>6. mutex' = mutex /\ lock' = lock
  BY DEF Begin, Files
<1> QED BY <1>2, <1>3, <1>5, <1>6, OutsideKeeps

LEMMA ReturnKeeps == ASSUME Ind, NEW p \in Procs, Return(p) PROVE Ind'
BY Frame DEF Return, Become, Idle, Fields, Within, Files, Ind

LEMMA LockMutationKeeps == ASSUME Ind, NEW p \in Procs, LockMutation(p) PROVE Ind'
BY Frame, CommandsAssumption DEF LockMutation, Goto, Become, Fields, Within, Current, Files, Ind, Shape

\* A step before the mutex is taken.
LEMMA BeforeLockKeeps ==
    ASSUME NEW p \in Procs, NEW c, Ind, Become(p, c), DOMAIN c = Fields,
           c.pc \in {"install", "query", "check", "prepare", "lock"},
           c.pc = "install" => c.cmd \notin Applies,
           mutex' = mutex, lock' = lock
    PROVE  Ind'
<1>1. ~Within(c) /\ c.pc # "spec"
  BY DEF Within
<1> QED BY <1>1, OutsideKeeps

LEMMA WellFormed == ASSUME Ind, NEW p \in Procs PROVE DOMAIN proc[p] = Fields
BY DEF Ind, Shape

LEMMA AddStageKeeps == ASSUME Ind, NEW p \in Procs, AddStage(p) PROVE Ind'
<1>1. mutex' = mutex /\ lock' = lock /\ proc[p].cmd = "add"
  BY DEF AddStage, At, Files, Rest
<1>2. CASE Exit(p, "logic")
  BY <1>1, <1>2, ExitKeeps
<1>3. ASSUME NEW sp, NEW es, Become(p, [proc[p] EXCEPT !.pc = "install", !.staged = sp, !.entries = es])
      PROVE  Ind'
  <2> DEFINE c == [proc[p] EXCEPT !.pc = "install", !.staged = sp, !.entries = es]
  <2>1. DOMAIN c = Fields /\ c.pc = "install" /\ c.cmd = "add"
    BY <1>1, WellFormed DEF Fields
  <2> QED BY <1>1, <1>3, <2>1, BeforeLockKeeps DEF Applies
<1> QED BY <1>2, <1>3 DEF AddStage

LEMMA AddInstallKeeps == ASSUME Ind, NEW p \in Procs, AddInstall(p) PROVE Ind'
<1>1. mutex' = mutex /\ lock' = lock /\ proc[p].cmd = "add"
  BY DEF AddInstall, At, Files, Rest
<1>2. CASE Exit(p, "logic")
  BY <1>1, <1>2, ExitKeeps
<1>3. CASE Goto(p, "spec")
  <2> DEFINE c == [proc[p] EXCEPT !.pc = "spec"]
  <2>1. DOMAIN c = Fields /\ c.pc = "spec" /\ c.cmd = "add"
    BY <1>1, WellFormed DEF Fields
  <2>2. ~Within(c) /\ c.cmd \in SpecWriters
    BY <2>1 DEF Within, SpecWriters
  <2> QED BY <1>1, <1>3, <2>1, <2>2, OutsideKeeps DEF Goto
<1> QED BY <1>2, <1>3 DEF AddInstall

LEMMA AdoptStageKeeps == ASSUME Ind, NEW p \in Procs, AdoptStage(p) PROVE Ind'
<1>1. mutex' = mutex /\ lock' = lock
  BY DEF AdoptStage, Files, Rest
<1>2. CASE Exit(p, "logic")
  BY <1>1, <1>2, ExitKeeps
<1>3. ASSUME NEW d, NEW es, Become(p, [proc[p] EXCEPT !.pc = "query", !.tracked = d, !.entries = es])
      PROVE  Ind'
  <2> DEFINE c == [proc[p] EXCEPT !.pc = "query", !.tracked = d, !.entries = es]
  <2>1. DOMAIN c = Fields /\ c.pc = "query"
    BY WellFormed DEF Fields
  <2> QED BY <1>1, <1>3, <2>1, BeforeLockKeeps
<1> QED BY <1>2, <1>3 DEF AdoptStage

LEMMA AdoptQueryKeeps == ASSUME Ind, NEW p \in Procs, AdoptQuery(p) PROVE Ind'
<1>1. mutex' = mutex /\ lock' = lock
  BY DEF AdoptQuery, Files, Rest
<1>2. CASE Exit(p, "logic")
  BY <1>1, <1>2, ExitKeeps
<1>3. ASSUME NEW v, Become(p, [proc[p] EXCEPT !.pc = "check", !.entries[1].version = v])
      PROVE  Ind'
  <2> DEFINE c == [proc[p] EXCEPT !.pc = "check", !.entries[1].version = v]
  <2>1. DOMAIN c = Fields /\ c.pc = "check"
    BY WellFormed DEF Fields
  <2> QED BY <1>1, <1>3, <2>1, BeforeLockKeeps
<1> QED BY <1>2, <1>3 DEF AdoptQuery

LEMMA AdoptCheckKeeps == ASSUME Ind, NEW p \in Procs, AdoptCheck(p) PROVE Ind'
<1>1. mutex' = mutex /\ lock' = lock
  BY DEF AdoptCheck, Files, Rest
<1>2. CASE Exit(p, "logic")
  BY <1>1, <1>2, ExitKeeps
<1>3. ASSUME NEW at \in {"lock", "prepare"}, Goto(p, at) PROVE Ind'
  <2> DEFINE c == [proc[p] EXCEPT !.pc = at]
  <2>1. DOMAIN c = Fields /\ c.pc = at
    BY WellFormed DEF Fields
  <2> QED BY <1>1, <1>3, <2>1, BeforeLockKeeps DEF Goto
<1> QED BY <1>2, <1>3 DEF AdoptCheck

LEMMA AdoptPrepareKeeps == ASSUME Ind, NEW p \in Procs, AdoptPrepare(p) PROVE Ind'
<1>1. mutex' = mutex /\ lock' = lock
  BY DEF AdoptPrepare, Files, Rest
<1>2. CASE Exit(p, "logic")
  BY <1>1, <1>2, ExitKeeps
<1>3. ASSUME NEW sp, Become(p, [proc[p] EXCEPT !.pc = "spec", !.staged = sp]), proc[p].cmd = "adopt"
      PROVE  Ind'
  <2> DEFINE c == [proc[p] EXCEPT !.pc = "spec", !.staged = sp]
  <2>1. DOMAIN c = Fields /\ c.pc = "spec" /\ c.cmd = "adopt"
    BY <1>3, WellFormed DEF Fields
  <2>2. ~Within(c) /\ c.cmd \in SpecWriters
    BY <2>1 DEF Within, SpecWriters
  <2> QED BY <1>1, <1>3, <2>1, <2>2, OutsideKeeps
<1> QED BY <1>2, <1>3 DEF AdoptPrepare, At

LEMMA RemoveStageKeeps == ASSUME Ind, NEW p \in Procs, RemoveStage(p) PROVE Ind'
<1>1. mutex' = mutex /\ lock' = lock
  BY DEF RemoveStage, Files, Rest
<1>2. CASE Exit(p, "logic")
  BY <1>1, <1>2, ExitKeeps
<1>3. ASSUME NEW sp, Become(p, [proc[p] EXCEPT !.pc = "lock", !.staged = sp]) PROVE Ind'
  <2> DEFINE c == [proc[p] EXCEPT !.pc = "lock", !.staged = sp]
  <2>1. DOMAIN c = Fields /\ c.pc = "lock"
    BY WellFormed DEF Fields
  <2> QED BY <1>1, <1>3, <2>1, BeforeLockKeeps
<1> QED BY <1>2, <1>3 DEF RemoveStage

LEMMA DisownStageKeeps == ASSUME Ind, NEW p \in Procs, DisownStage(p) PROVE Ind'
<1>1. mutex' = mutex /\ lock' = lock
  BY DEF DisownStage, Files, Rest
<1> DEFINE c == [proc[p] EXCEPT !.pc = "lock", !.tracked = proc[p].id \in DOMAIN Here(p),
                     !.staged = Undeclare(proc[p].target, proc[p].id)]
<1>2. DOMAIN c = Fields /\ c.pc = "lock"
  BY WellFormed DEF Fields
<1> QED BY <1>1, <1>2, BeforeLockKeeps DEF DisownStage

LEMMA ScanStageKeeps == ASSUME Ind, NEW p \in Procs, ScanStage(p) PROVE Ind'
<1>1. mutex' = mutex /\ lock' = lock
  BY DEF ScanStage, Files, Rest
<1>2. CASE Exit(p, "ok")
  BY <1>1, <1>2, ExitKeeps
<1>3. ASSUME NEW sp, NEW es, Become(p, [proc[p] EXCEPT !.pc = "lock", !.staged = sp, !.entries = es])
      PROVE  Ind'
  <2> DEFINE c == [proc[p] EXCEPT !.pc = "lock", !.staged = sp, !.entries = es]
  <2>1. DOMAIN c = Fields /\ c.pc = "lock"
    BY WellFormed DEF Fields
  <2> QED BY <1>1, <1>3, <2>1, BeforeLockKeeps
<1> QED BY <1>2, <1>3 DEF ScanStage

\* What a command is once it has read the lock.
LEMMA AfterReadLemma ==
    ASSUME NEW p \in Procs, NEW c, DOMAIN c = Fields, NEW locked
    PROVE  /\ DOMAIN AfterRead(p, c, locked) = Fields
           /\ AfterRead(p, c, locked).lf = c.lf
           /\ AfterRead(p, c, locked).pc = "spec" => AfterRead(p, c, locked).cmd \in SpecWriters
<1>1. CASE c.cmd \in {"add", "adopt"}
  BY <1>1 DEF AfterRead, Fields
<1>2. CASE c.cmd = "remove"
  BY <1>2 DEF AfterRead, Fields, SpecWriters
<1>3. CASE c.cmd = "disown"
  BY <1>3 DEF AfterRead, Fields, SpecWriters
<1>4. CASE c.cmd = "scan"
  BY <1>4 DEF AfterRead, Fields, SpecWriters
<1>5. CASE c.cmd \notin {"add", "adopt", "remove", "disown", "scan"}
  BY <1>5 DEF AfterRead, Fields
<1> QED BY <1>1, <1>2, <1>3, <1>4, <1>5

LEMMA ReadLockKeeps == ASSUME Ind, NEW p \in Procs, ReadLock(p) PROVE Ind'
<1>1. mutex' = mutex /\ lock' = lock
  BY DEF ReadLock, Files, Rest
<1>2. mutex = p
  BY DEF ReadLock, Ind, Within
<1> DEFINE c == [proc[p] EXCEPT !.lf = lock]
<1>3. CASE Become(p, AfterRead(p, c, LockedIds(lock.packages)))
  <2>1. DOMAIN c = Fields /\ c.lf = lock
    BY DEF Ind, Shape, Fields
  <2> QED BY <1>1, <1>2, <1>3, <2>1, AfterReadLemma, InsideKeeps DEF Current
<1>4. CASE Exit(p, "io")
  BY <1>1, <1>4, ExitKeeps
<1> QED BY <1>3, <1>4 DEF ReadLock

LEMMA WriteSpecKeeps == ASSUME Ind, NEW p \in Procs, WriteSpec(p) PROVE Ind'
<1>1. mutex' = mutex /\ lock' = lock
  BY DEF WriteSpec, Rest
<1>2. CASE Exit(p, "ok") \/ Exit(p, "io")
  BY <1>1, <1>2, ExitKeeps
<1>3. CASE Goto(p, "lock")
  BY <1>1, <1>3, OutsideKeeps DEF Goto, Ind, Shape, Fields, Within
<1>4. CASE Goto(p, "write") /\ proc[p].cmd \notin {"add", "adopt"}
  <2>1. proc[p].cmd \in {"remove", "disown", "scan"}
    BY <1>4 DEF WriteSpec, Ind, SpecWriters
  <2>2. mutex = p /\ proc[p].lf = lock
    BY <2>1 DEF WriteSpec, Ind, Within, Current
  <2> QED BY <1>1, <1>4, <2>2, InsideKeeps DEF Goto, Ind, Shape, Fields, Current
<1> QED BY <1>2, <1>3, <1>4 DEF WriteSpec

LEMMA RemoveUninstallKeeps == ASSUME Ind, NEW p \in Procs, RemoveUninstall(p) PROVE Ind'
<1>1. mutex' = mutex /\ lock' = lock /\ proc[p].pc = "uninstall" /\ proc[p].cmd = "remove"
  BY DEF RemoveUninstall, Files, Rest, At
<1>2. CASE Exit(p, "logic")
  BY <1>1, <1>2, ExitKeeps
<1>3. CASE Goto(p, "spec")
  <2>1. mutex = p /\ proc[p].lf = lock
    BY <1>1 DEF Ind, Within, Current
  <2> QED BY <1>1, <1>3, <2>1, InsideKeeps DEF Goto, Ind, Shape, Fields, Current, SpecWriters
<1> QED BY <1>2, <1>3 DEF RemoveUninstall

\* The helpers that choose an apply's next step change the step and the list of
\* things to do, and nothing else.
LEMMA InstallingLemma ==
    ASSUME NEW c, DOMAIN c = Fields, c.pc # "spec"
    PROVE  /\ DOMAIN Installing(c) = Fields /\ Installing(c).lf = c.lf
           /\ Installing(c).pc # "spec"
BY DEF Installing, Fields

LEMMA SettlingLemma ==
    ASSUME NEW c, DOMAIN c = Fields, c.pc # "spec"
    PROVE  /\ DOMAIN Settling(c) = Fields /\ Settling(c).lf = c.lf
           /\ Settling(c).pc # "spec"
BY DEF Settling, Fields

LEMMA ApplyPlanKeeps == ASSUME Ind, NEW p \in Procs, ApplyPlan(p) PROVE Ind'
<1> DEFINE foreign == Foreign(proc[p].lf, proc[p].target)
           base == IF foreign THEN EmptyLock ELSE proc[p].lf
           c(plan, sp) == [proc[p] EXCEPT !.pc = "remove", !.lf = base, !.plan = plan,
                               !.staged = sp, !.todo = plan.remove]
<1>1. mutex' = mutex /\ mutex = p /\ proc[p].lf = lock
  BY DEF ApplyPlan, Rest, At, Ind, Within, Current
<1>2. CASE \E code : Exit(p, code)
  BY <1>1, <1>2, ExitKeeps
<1>3. ASSUME NEW plan, Become(p, Installing(c(plan, spec))),
             lock' = IF foreign THEN EmptyLock ELSE lock
      PROVE  Ind'
  <2>1. DOMAIN c(plan, spec) = Fields /\ c(plan, spec).pc = "remove" /\ c(plan, spec).lf = base
    BY DEF Ind, Shape, Fields
  <2>2. base = lock'
    BY <1>1, <1>3
  <2> HIDE DEF c, base
  <2> QED BY <1>1, <1>3, <2>1, <2>2, InstallingLemma, InsideKeeps DEF Current
<1> QED BY <1>2, <1>3 DEF ApplyPlan

LEMMA ApplyRemoveKeeps == ASSUME Ind, NEW p \in Procs, ApplyRemove(p) PROVE Ind'
<1>1. /\ mutex' = mutex /\ lock' = lock /\ mutex = p /\ proc[p].lf = lock
      /\ proc[p].pc = "remove"
  BY DEF ApplyRemove, Files, Rest, At, Ind, Within, Current
<1> DEFINE done(u) == [proc[p] EXCEPT !.todo = Tail(@), !.uninstalled = u]
           failed == [proc[p] EXCEPT !.todo = Tail(@), !.failed = TRUE]
<1>2. ASSUME NEW u, Become(p, Installing(done(u))) PROVE Ind'
  <2>1. DOMAIN done(u) = Fields /\ done(u).pc = "remove" /\ done(u).lf = lock
    BY <1>1 DEF Ind, Shape, Fields
  <2> HIDE DEF done
  <2> QED BY <1>1, <1>2, <2>1, InstallingLemma, InsideKeeps DEF Current
<1>3. CASE Become(p, Installing(failed))
  <2>1. DOMAIN failed = Fields /\ failed.pc = "remove" /\ failed.lf = lock
    BY <1>1 DEF Ind, Shape, Fields
  <2> HIDE DEF failed
  <2> QED BY <1>1, <1>3, <2>1, InstallingLemma, InsideKeeps DEF Current
<1> QED BY <1>2, <1>3 DEF ApplyRemove

LEMMA ApplyInstallKeeps == ASSUME Ind, NEW p \in Procs, ApplyInstall(p) PROVE Ind'
<1>1. /\ mutex' = mutex /\ lock' = lock /\ mutex = p /\ proc[p].lf = lock
      /\ proc[p].pc = "install"
  BY DEF ApplyInstall, Files, Rest, At, Ind, Within, Current
<1> DEFINE done(e) == [[proc[p] EXCEPT !.todo = Tail(@)] EXCEPT !.entries = Append(@, e)]
           failed == [[proc[p] EXCEPT !.todo = Tail(@)] EXCEPT !.failed = TRUE]
<1>2. ASSUME NEW e, Become(p, Settling(done(e))) PROVE Ind'
  <2>1. DOMAIN done(e) = Fields /\ done(e).pc = "install" /\ done(e).lf = lock
    BY <1>1 DEF Ind, Shape, Fields
  <2> HIDE DEF done
  <2> QED BY <1>1, <1>2, <2>1, SettlingLemma, InsideKeeps DEF Current
<1>3. CASE Become(p, Settling(failed))
  <2>1. DOMAIN failed = Fields /\ failed.pc = "install" /\ failed.lf = lock
    BY <1>1 DEF Ind, Shape, Fields
  <2> HIDE DEF failed
  <2> QED BY <1>1, <1>3, <2>1, SettlingLemma, InsideKeeps DEF Current
<1> QED BY <1>2, <1>3 DEF ApplyInstall

LEMMA UpgradeKeeps == ASSUME Ind, NEW p \in Procs, Upgrade(p) PROVE Ind'
<1>1. /\ mutex' = mutex /\ lock' = lock /\ mutex = p
      /\ proc[p].pc = "plan" /\ proc[p].cmd = "upgrade"
  BY DEF Upgrade, Files, Rest, At, Ind, Within
<1>2. CASE Exit(p, "logic")
  BY <1>1, <1>2, ExitKeeps
<1>3. CASE Goto(p, "write")
  BY <1>1, <1>3, InsideKeeps DEF Goto, Ind, Shape, Fields, Current
<1>4. ASSUME NEW i, NEW v, Become(p, [proc[p] EXCEPT !.pc = "write", !.lf.packages[i].version = v])
      PROVE  Ind'
  BY <1>1, <1>4, InsideKeeps DEF Ind, Shape, Fields, Current
<1> QED BY <1>2, <1>3, <1>4 DEF Upgrade

LEMMA WriteLockKeeps == ASSUME Ind, NEW p \in Procs, WriteLock(p) PROVE Ind'
<1>1. mutex' = mutex /\ mutex = p
  BY DEF WriteLock, Rest, Ind, Within
<1>2. \E code : Exit(p, code)
  BY DEF WriteLock
<1> QED BY <1>1, <1>2, ExitKeeps

LEMMA CrashKeeps == ASSUME Ind, NEW p \in Procs, Crash(p) PROVE Ind'
BY Frame DEF Crash, Become, Idle, Fields, Within, Files, Ind

\* Every step, and every step of somebody else, preserves the invariant.
LEMMA Preserves == ASSUME Ind, [Next]_vars PROVE Ind'
<1>1. ASSUME NEW p \in Procs, Step(p) PROVE Ind'
  BY <1>1, BeginKeeps, LockMutationKeeps, ReadLockKeeps, WriteSpecKeeps, WriteLockKeeps,
     ReturnKeeps, AddStageKeeps, AddInstallKeeps, AdoptStageKeeps, AdoptQueryKeeps,
     AdoptCheckKeeps, AdoptPrepareKeeps, RemoveStageKeeps, RemoveUninstallKeeps,
     DisownStageKeeps, ScanStageKeeps, ApplyPlanKeeps, ApplyRemoveKeeps, ApplyInstallKeeps,
     UpgradeKeeps, CrashKeeps DEF Step
<1>2. CASE EditSpec
  BY <1>2 DEF EditSpec, Rest, Ind, Shape
<1>3. CASE ByHand
  BY <1>3 DEF ByHand, Files, Rest, Ind, Shape
<1>4. CASE UNCHANGED vars
  BY <1>4 DEF vars, Ind, Shape
<1> QED BY <1>1, <1>2, <1>3, <1>4 DEF Next

LEMMA CurrentFollows == Ind => SnapshotIsCurrent
BY DEF Ind, SnapshotIsCurrent, Inside, Within, Current, At

\* The inductive invariant holds in every reachable state.
THEOREM Invariance == Spec => []Ind
<1>1. Init => Ind
  BY Initially
<1>2. Ind /\ [Next]_vars => Ind'
  BY Preserves
<1> QED BY <1>1, <1>2, PTL DEF Spec

\* From its read to its write every command holds the mutex, and the lock on
\* disk is the one it has in memory: no command's change to the lock is ever
\* overwritten by another's, whoever fails, dies or edits the spec meanwhile.
THEOREM NoLostUpdate == Spec => []SnapshotIsCurrent
BY Invariance, CurrentFollows, PTL

(***************************************************************************)
(* What holds besides: the types, and how far each command has come with   *)
(* what it is doing.                                                       *)
(***************************************************************************)
IsTable(f) == DOMAIN f \subseteq Ids /\ \A id \in DOMAIN f : f[id] \in Package
IsSpecFile(s) == DOMAIN s = Targets /\ \A t \in Targets : IsTable(s[t])
LockFile == [target : Targets \cup {None}, packages : Seq(Entry)]

WorldOK ==
    /\ IsSpecFile(spec) /\ lock \in LockFile /\ machine \in Machine
    /\ mutex \in Procs \cup {None} /\ mine \subseteq Managers \X Ids \X Targets
    /\ commands \in 0..MaxCommands /\ faults \in 0..MaxFaults

\* The steps at which a command has staged the spec it will write, and at which
\* it has an entry to work on.
HasStaged(c) ==
    \/ c.pc \in {"spec", "uninstall"} \/ (c.pc = "install" /\ c.cmd \notin Applies)
    \/ c.pc \in {"lock", "read"} /\ c.cmd \in {"remove", "disown", "scan"}
HasEntry(c) == c.pc = "query" \/ (c.pc = "install" /\ c.cmd \notin Applies)

WellTyped(c) ==
    /\ c.lf \in LockFile /\ c.entries \in Seq(Entry) /\ c.exit \in {"none", "ok", "logic", "io"}
    /\ c.cmd \in Kinds \cup {"none"}
    /\ c.pc # "idle" =>
          /\ c.target \in Targets
          /\ c.cmd \in {"add", "adopt", "remove", "disown"} => c.id \in Ids
          /\ c.cmd \in {"add", "adopt"} => c.pkg \in Packages
    /\ HasStaged(c) => IsSpecFile(c.staged)
    /\ HasEntry(c) => c.entries # <<>>
    /\ (c.cmd = "add" /\ c.pc = "install") => c.entries[1].id = c.id
    /\ c.pc = "uninstall" => c.cmd = "remove" /\ c.id \in LockedIds(c.lf.packages)

\* What a plan asks an apply to install: what resolves to a manager.
Wanted(plan) == {id \in DOMAIN plan.install : plan.install[id] # None}

\* An apply that carries its plan out: as long as nothing has failed, what was to
\* be removed is uninstalled or still to do, and then what was to be installed is
\* recorded or still to do.
CarriesOut(c) ==
    LET desired == c.staged[c.target]
    IN  /\ IsTable(desired) /\ PlanIsSound(desired, c.lf.packages, Available, c.plan)
        /\ LockedIds(c.entries) \subseteq DOMAIN c.plan.install
        /\ c.failed \in BOOLEAN
        /\ c.pc = "remove" =>
              /\ c.todo \in Seq(Entry) /\ c.todo # <<>> /\ ToSet(c.todo) \subseteq ToSet(c.plan.remove)
              /\ c.entries = <<>>
              /\ c.failed \/ LockedIds(c.plan.remove) \subseteq c.uninstalled \cup LockedIds(c.todo)
        /\ c.pc \in {"install", "write"} => c.failed \/ LockedIds(c.plan.remove) \subseteq c.uninstalled
        /\ c.pc = "install" =>
              /\ c.todo \in Seq(Ids) /\ c.todo # <<>> /\ IsInjective(c.todo)
              /\ ToSet(c.todo) \subseteq Wanted(c.plan)
              /\ c.failed \/ Wanted(c.plan) \subseteq LockedIds(c.entries) \cup ToSet(c.todo)
        /\ c.pc = "write" => c.failed \/ Wanted(c.plan) \subseteq LockedIds(c.entries)

Applying(c) ==
    c.cmd \in Applies =>
        /\ c.pc \in {"lock", "read", "plan"} =>
              c.plan = None /\ c.entries = <<>> /\ c.uninstalled = {} /\ c.failed = FALSE
        /\ c.pc \in {"remove", "install", "write"} => CarriesOut(c)

Good(c) == WellTyped(c) /\ Applying(c)

\* The lock says what the spec the command has read says.
Matches(c, lf) ==
    LET desired == c.staged[c.target]
        provided == {id \in DOMAIN desired : Resolve(desired[id], Available) # None}
    IN  /\ \A i \in DOMAIN lf.packages :
              lf.packages[i].manager \in Registered => lf.packages[i].id \in DOMAIN desired
        /\ provided \subseteq LockedIds(lf.packages)
        /\ lf.target = c.target

\* An apply that reports success still has the mutex, and the lock matches; an
\* upgrade that is about to write has the ids of the lock.
Reported(c, p, lf, holder) ==
    /\ c.pc = "done" /\ c.cmd \in Applies /\ c.exit = "ok" /\ c.plan # None =>
          holder = p /\ Matches(c, lf)
    /\ c.pc = "write" /\ c.cmd = "upgrade" => LockedIds(c.lf.packages) = LockedIds(lf.packages)

Sound == WorldOK /\ \A p \in Procs : Good(proc[p]) /\ Reported(proc[p], p, lock, mutex)

\* Without crashes and unwritable specs: when a remove comes to write the spec,
\* the copy it had to uninstall is gone, or an add of the same package that waits
\* for the mutex, or comes to, has put it back.
PutBack(id) ==
    \E q \in Procs : proc[q].cmd = "add" /\ proc[q].id = id /\ proc[q].pc \in {"spec", "lock"}
Uninstalled ==
    \A p \in Procs : At(p, {"remove"}, "spec") /\ proc[p].id \in LockedIds(lock.packages) =>
        \/ machine[LastEntry(lock.packages, proc[p].id).manager][proc[p].id] = None
        \/ PutBack(proc[p].id)

\* Without an inventory that fails, and without an add in another process: what
\* an apply has still to install and the lock does not know is not there.
Absent(c, installed) ==
    \A id \in Wanted(c.plan) \ LockedIds(c.lf.packages) :
        (c.pc = "install" => id \in ToSet(c.todo)) => installed[c.plan.install[id]][id] = None
NotThere ==
    \A p \in Procs :
        proc[p].cmd \in Applies /\ proc[p].pc \in {"remove", "install"} => Absent(proc[p], machine)

\* With one manager, without crashes, unwritable files and forced applies: what
\* genv installed is in the hands of the add or the apply that will record it, or
\* it is in the lock and no remove or apply that is about to drop it from there
\* has uninstalled it.
Holds(c, id) ==
    /\ id \in LockedIds(c.entries)
    /\ \/ c.cmd = "add" /\ c.id = id /\ c.pc \in {"spec", "lock", "read", "write"}
       \/ c.cmd \in Applies /\ c.pc \in {"install", "write"}
Cleared(c, id) ==
    \/ c.cmd \in Applies /\ c.pc \in {"remove", "install", "write"} /\ id \in c.uninstalled
    \/ c.cmd = "remove" /\ c.pc \in {"spec", "write"} /\ c.id = id
Covered(id) ==
    \/ \E p \in Procs : Holds(proc[p], id)
    \/ id \in LockedIds(lock.packages) /\ \A p \in Procs : ~Cleared(proc[p], id)
Recorded == \A k \in mine : machine[k[1]][k[2]] # None => Covered(k[2])

(***************************************************************************)
(* Sound is kept: first what the helpers of the steps return.              *)
(***************************************************************************)
LEMMA Counted == ASSUME WorldOK, Fine \/ \E fault : May(fault) PROVE faults' \in 0..MaxFaults
BY CommandsAssumption DEF WorldOK, Fine, May

LEMMA WorldStays ==
    ASSUME WorldOK, UNCHANGED <<Files, World, Rest>>, Fine \/ \E fault : May(fault)
    PROVE  WorldOK'
BY Counted DEF WorldOK, Files, World, Rest

LEMMA JustLemma ==
    ASSUME NEW id \in Ids, NEW pkg \in Package
    PROVE  IsTable(Just(id, pkg))
BY DEF IsTable, Just

LEMMA DeclareLemma ==
    ASSUME IsSpecFile(spec), NEW t \in Targets, NEW f, IsTable(f)
    PROVE  IsSpecFile(Declare(t, f))
<1> DEFINE g == [id \in DOMAIN f \cup DOMAIN spec[t] |-> IF id \in DOMAIN f THEN f[id] ELSE spec[t][id]]
<1>1. IsTable(g)
  BY DEF IsSpecFile, IsTable
<1>2. Declare(t, f) = [spec EXCEPT ![t] = g]
  BY DEF Declare
<1> HIDE DEF g
<1> QED BY <1>1, <1>2 DEF IsSpecFile

LEMMA UndeclareLemma ==
    ASSUME IsSpecFile(spec), NEW t \in Targets, NEW id
    PROVE  IsSpecFile(Undeclare(t, id))
<1> DEFINE g == [i \in DOMAIN spec[t] \ {id} |-> spec[t][i]]
<1>1. IsTable(g)
  BY DEF IsSpecFile, IsTable
<1>2. Undeclare(t, id) = [spec EXCEPT ![t] = g]
  BY DEF Undeclare
<1> HIDE DEF g
<1> QED BY <1>1, <1>2 DEF IsSpecFile

LEMMA PutLemma ==
    ASSUME WorldOK, NEW t \in Targets, NEW m \in Managers, NEW id \in Ids, NEW v \in Versions,
           Put(t, m, id, v)
    PROVE  machine' \in Machine /\ mine' \subseteq Managers \X Ids \X Targets
BY DEF Put, WorldOK, Machine

LEMMA TakeLemma ==
    ASSUME WorldOK, NEW m \in Managers, NEW id \in Ids, Take(m, id)
    PROVE  machine' \in Machine /\ mine' \subseteq Managers \X Ids \X Targets
BY DEF Take, WorldOK, Machine

\* What a step of p has to satisfy to keep Sound.
LEMMA SoundFrame ==
    ASSUME Ind, Sound, NEW p \in Procs, NEW c, Become(p, c), WorldOK', Good(c),
           Reported(c, p, lock', mutex'),
           mutex \in {p, None} \/ (lock' = lock /\ mutex' = mutex)
    PROVE  Sound'
<1>1. proc' = [proc EXCEPT ![p] = c] /\ DOMAIN proc = Procs
  BY DEF Become, Ind, Shape
<1>2. ASSUME NEW q \in Procs
      PROVE  Good(proc'[q]) /\ Reported(proc'[q], q, lock', mutex')
  <2>1. CASE q = p
    BY <1>1, <2>1
  <2>2. CASE q # p
    <3>1. proc'[q] = proc[q] /\ Good(proc[q]) /\ Reported(proc[q], q, lock, mutex)
      BY <1>1, <2>2 DEF Sound
    <3>2. CASE lock' = lock /\ mutex' = mutex
      BY <3>1, <3>2
    <3>3. CASE mutex \in {p, None}
      <4>1. mutex # q
        BY <2>2, <3>3, CommandsAssumption
      <4>2. ~Within(proc[q])
        BY <4>1 DEF Ind
      <4>3. proc[q].pc # "write"
        BY <4>2 DEF Within
      <4> QED BY <3>1, <4>1, <4>3 DEF Reported
    <3> QED BY <3>2, <3>3
  <2> QED BY <2>1, <2>2
<1> QED BY <1>2 DEF Sound, Good, Reported, WellTyped, Applying, CarriesOut, Matches

\* A step to anywhere but the end, or the write of an upgrade, has nothing to report.
LEMMA QuietStep ==
    ASSUME Ind, Sound, NEW p \in Procs, NEW c, Become(p, c), WorldOK', Good(c),
           c.pc # "done", c.pc = "write" => c.cmd # "upgrade",
           mutex \in {p, None} \/ (lock' = lock /\ mutex' = mutex)
    PROVE  Sound'
BY SoundFrame DEF Reported

LEMMA ExitSound ==
    ASSUME Ind, Sound, NEW p \in Procs, NEW code \in {"ok", "logic", "io"}, Exit(p, code), WorldOK',
           code = "ok" => proc[p].cmd \notin Applies \/ proc[p].plan = None,
           mutex = p \/ (lock' = lock /\ mutex' = mutex), proc[p].pc # "idle"
    PROVE  Sound'
<1> DEFINE c == [proc[p] EXCEPT !.pc = "done", !.exit = code]
<1>1. /\ c.pc = "done" /\ c.exit = code /\ c.lf = proc[p].lf /\ c.entries = proc[p].entries
      /\ c.cmd = proc[p].cmd /\ c.target = proc[p].target /\ c.id = proc[p].id
      /\ c.pkg = proc[p].pkg /\ c.plan = proc[p].plan
  BY DEF Ind, Shape, Fields
<1> HIDE DEF c
<1>2. Good(c)
  <2>1. Good(proc[p])
    BY DEF Sound
  <2> QED BY <1>1, <2>1 DEF Good, WellTyped, Applying, HasStaged, HasEntry
<1>3. Reported(c, p, lock', mutex')
  BY <1>1 DEF Reported
<1>4. Become(p, c)
  BY DEF Exit, c
<1> QED BY <1>2, <1>3, <1>4, SoundFrame

LEMMA InitiallySound == Init => Sound
<1> SUFFICES ASSUME Init PROVE Sound
  OBVIOUS
<1>1. (CHOOSE v \in Versions : TRUE) \in Versions
  BY CommandsAssumption
<1>2. machine \in Machine
  BY <1>1 DEF Init, Machine
<1>3. <<>> \in Seq(Entry) /\ EmptyLock \in LockFile
  BY DEF EmptyLock, LockFile
<1>4. lock \in LockFile
  <2>1. ASSUME NEW t \in Targets, NEW id \in Ids, NEW m \in Managers
        PROVE  [target |-> t, packages |-> <<[id |-> id, manager |-> m, version |-> None]>>] \in LockFile
    <3>1. [id |-> id, manager |-> m, version |-> None] \in Entry
      BY DEF Entry
    <3> QED BY <3>1 DEF LockFile
  <2> QED BY <1>3, <2>1 DEF Init
<1>5. IsSpecFile(spec)
  BY DEF Init, IsSpecFile, IsTable
<1>6. WorldOK
  BY <1>2, <1>4, <1>5, CommandsAssumption DEF WorldOK, Init
<1>7. Good(Idle) /\ Idle.pc = "idle"
  BY <1>3 DEF Idle, Good, WellTyped, Applying, HasStaged, HasEntry, Applies
<1>8. \A p \in Procs : proc[p] = Idle
  BY DEF Init
<1> QED BY <1>6, <1>7, <1>8 DEF Sound, Reported

LEMMA BeginSound == ASSUME Ind, Sound, NEW p \in Procs, Begin(p) PROVE Sound'
<1> DEFINE at(cmd) == IF cmd \in Applies \cup {"upgrade"} THEN "lock" ELSE "stage"
           c(cmd, t, id, pkg) ==
             [Idle EXCEPT !.pc = at(cmd), !.cmd = cmd, !.target = t, !.id = id, !.pkg = pkg]
<1>1. PICK cmd \in Kinds, t \in Targets :
         \E id \in IF cmd \in {"add", "adopt", "remove", "disown"} THEN Ids ELSE {None},
            pkg \in IF cmd \in {"add", "adopt"} THEN Packages ELSE {None} : Become(p, c(cmd, t, id, pkg))
  BY DEF Begin
<1>2. PICK id \in IF cmd \in {"add", "adopt", "remove", "disown"} THEN Ids ELSE {None},
           pkg \in IF cmd \in {"add", "adopt"} THEN Packages ELSE {None} : Become(p, c(cmd, t, id, pkg))
  BY <1>1
<1> DEFINE d == c(cmd, t, id, pkg)
<1>3. /\ d.pc = at(cmd) /\ d.cmd = cmd /\ d.target = t /\ d.id = id /\ d.pkg = pkg
      /\ d.lf = EmptyLock /\ d.entries = <<>> /\ d.exit = "none"
      /\ d.plan = None /\ d.uninstalled = {} /\ d.failed = FALSE
  BY DEF Idle
<1> HIDE DEF d
<1>4. <<>> \in Seq(Entry) /\ EmptyLock \in LockFile
  BY DEF EmptyLock, LockFile
<1>5. Good(d)
  BY <1>3, <1>4 DEF Good, WellTyped, Applying, HasStaged, HasEntry, Applies
<1>6. WorldOK'
  BY CommandsAssumption DEF Begin, Sound, WorldOK, Fine, Files, World
<1>7. lock' = lock /\ mutex' = mutex
  BY DEF Begin, Files
<1>8. Become(p, d)
  BY <1>2 DEF d
<1> QED BY <1>3, <1>5, <1>6, <1>7, <1>8, QuietStep

LEMMA IdleSound ==
    ASSUME Ind, Sound, NEW p \in Procs, Become(p, Idle), WorldOK', lock' = lock,
           mutex' = IF mutex = p THEN None ELSE mutex
    PROVE  Sound'
<1>1. <<>> \in Seq(Entry) /\ EmptyLock \in LockFile
  BY DEF EmptyLock, LockFile
<1>2. Good(Idle) /\ Idle.pc = "idle"
  BY <1>1 DEF Idle, Good, WellTyped, Applying, HasStaged, HasEntry, Applies
<1> QED BY <1>2, QuietStep

LEMMA ReturnSound == ASSUME Ind, Sound, NEW p \in Procs, Return(p) PROVE Sound'
<1>1. WorldOK'
  BY DEF Return, Sound, WorldOK, Fine, Files, World
<1> QED BY <1>1, IdleSound DEF Return, Files

LEMMA CrashSound == ASSUME Ind, Sound, NEW p \in Procs, Crash(p) PROVE Sound'
<1>1. WorldOK'
  BY Counted DEF Crash, Sound, WorldOK, Files, World
<1> QED BY <1>1, IdleSound DEF Crash, Files

LEMMA LockMutationSound == ASSUME Ind, Sound, NEW p \in Procs, LockMutation(p) PROVE Sound'
<1> DEFINE c == [proc[p] EXCEPT !.pc = "read"]
<1>1. WorldOK'
  BY DEF LockMutation, Sound, WorldOK, Fine, Files, World
<1>2. /\ c.pc = "read" /\ c.exit = proc[p].exit /\ c.lf = proc[p].lf /\ c.entries = proc[p].entries
      /\ c.cmd = proc[p].cmd /\ c.target = proc[p].target /\ c.id = proc[p].id
      /\ c.pkg = proc[p].pkg /\ c.plan = proc[p].plan /\ c.staged = proc[p].staged
      /\ c.uninstalled = proc[p].uninstalled /\ c.failed = proc[p].failed
  BY DEF Ind, Shape, Fields
<1>3. Become(p, c) /\ proc[p].pc = "lock" /\ mutex = None
  BY DEF LockMutation, Goto
<1> HIDE DEF c
<1>4. Good(c)
  <2>1. Good(proc[p])
    BY DEF Sound
  <2> QED BY <1>2, <1>3, <2>1 DEF Good, WellTyped, Applying, HasStaged, HasEntry
<1> QED BY <1>1, <1>2, <1>3, <1>4, QuietStep

\* A step of a command that has not the mutex yet, or has it and does not touch
\* the lock: what a record has to keep.
LEMMA StepSound ==
    ASSUME Ind, Sound, NEW p \in Procs, NEW c, Become(p, c), Good(c),
           c.pc # "done", c.pc = "write" => c.cmd # "upgrade",
           UNCHANGED <<Files, World, Rest>>, Fine \/ \E fault : May(fault)
    PROVE  Sound'
<1>1. WorldOK'
  BY WorldStays DEF Sound
<1>2. lock' = lock /\ mutex' = mutex
  BY DEF Files, Rest
<1> QED BY <1>1, <1>2, QuietStep

LEMMA StopSound ==
    ASSUME Ind, Sound, NEW p \in Procs, NEW code \in {"ok", "logic", "io"}, Exit(p, code),
           code = "ok" => proc[p].cmd \notin Applies \/ proc[p].plan = None, proc[p].pc # "idle",
           UNCHANGED <<Files, World, Rest>>, Fine \/ \E fault : May(fault)
    PROVE  Sound'
<1>1. WorldOK'
  BY WorldStays DEF Sound
<1>2. lock' = lock /\ mutex' = mutex
  BY DEF Files, Rest
<1> QED BY <1>1, <1>2, ExitSound

LEMMA ReadLockSound == ASSUME Ind, Sound, NEW p \in Procs, ReadLock(p) PROVE Sound'
<1>1. UNCHANGED <<Files, World, Rest>> /\ proc[p].pc = "read"
  BY DEF ReadLock
<1>2. CASE May("lockfile") /\ Exit(p, "io")
  BY <1>1, <1>2, StopSound
<1>3. CASE Fine /\ Become(p, AfterRead(p, [proc[p] EXCEPT !.lf = lock], LockedIds(lock.packages)))
  <2> DEFINE b == [proc[p] EXCEPT !.lf = lock]
             locked == LockedIds(lock.packages)
             c == AfterRead(p, b, locked)
  <2>1. Good(proc[p]) /\ lock \in LockFile
    BY DEF Sound, WorldOK
  <2>2. /\ DOMAIN b = Fields /\ b.pc = "read" /\ b.exit = proc[p].exit /\ b.lf = lock
        /\ b.entries = proc[p].entries /\ b.cmd = proc[p].cmd /\ b.target = proc[p].target
        /\ b.id = proc[p].id /\ b.pkg = proc[p].pkg /\ b.plan = proc[p].plan
        /\ b.staged = proc[p].staged /\ b.uninstalled = proc[p].uninstalled
        /\ b.failed = proc[p].failed
    BY <1>1 DEF Ind, Shape, Fields
  <2> HIDE DEF b
  <2>3. Good(b)
    BY <1>1, <2>1, <2>2 DEF Good, WellTyped, Applying, HasStaged, HasEntry
  <2>4. /\ c.exit \in {b.exit, "ok", "logic"} /\ c.lf = lock /\ c.entries = b.entries /\ c.cmd = b.cmd
        /\ c.target = b.target /\ c.id = b.id /\ c.pkg = b.pkg /\ c.plan = b.plan
        /\ c.staged = b.staged /\ c.uninstalled = b.uninstalled /\ c.failed = b.failed
    <3>1. CASE b.cmd \in {"add", "adopt"}
      BY <2>2, <3>1 DEF AfterRead, Fields
    <3>2. CASE b.cmd = "remove"
      BY <2>2, <3>2 DEF AfterRead, Fields
    <3>3. CASE b.cmd = "disown"
      BY <2>2, <3>3 DEF AfterRead, Fields
    <3>4. CASE b.cmd = "scan"
      BY <2>2, <3>4 DEF AfterRead, Fields
    <3>5. CASE b.cmd \notin {"add", "adopt", "remove", "disown", "scan"}
      BY <2>2, <3>5 DEF AfterRead, Fields
    <3> QED BY <3>1, <3>2, <3>3, <3>4, <3>5
  <2>5. \/ c.pc = "write" /\ c.cmd \in {"add", "adopt", "disown"}
        \/ c.pc = "spec" /\ c.cmd \in {"remove", "disown", "scan"}
        \/ c.pc = "uninstall" /\ c.cmd = "remove" /\ c.id \in locked
        \/ c.pc = "done" /\ c.cmd \in {"disown", "scan"}
        \/ c.pc = "plan" /\ c.cmd \notin {"add", "adopt", "remove", "disown", "scan"}
    <3>1. CASE b.cmd \in {"add", "adopt"}
      BY <2>2, <3>1 DEF AfterRead, Fields
    <3>2. CASE b.cmd = "remove"
      BY <2>2, <3>2 DEF AfterRead, Fields
    <3>3. CASE b.cmd = "disown"
      BY <2>2, <3>3 DEF AfterRead, Fields
    <3>4. CASE b.cmd = "scan"
      BY <2>2, <3>4 DEF AfterRead, Fields
    <3>5. CASE b.cmd \notin {"add", "adopt", "remove", "disown", "scan"}
      BY <2>2, <3>5 DEF AfterRead, Fields
    <3> QED BY <3>1, <3>2, <3>3, <3>4, <3>5
  <2> HIDE DEF c
  <2>6. Good(c)
    BY <2>1, <2>2, <2>3, <2>4, <2>5 DEF Good, WellTyped, Applying, HasStaged, HasEntry, Applies, locked
  <2>7. Reported(c, p, lock', mutex')
    BY <2>5 DEF Reported, Applies
  <2>8. WorldOK' /\ lock' = lock /\ mutex' = mutex
    BY <1>1, <1>3, WorldStays DEF Sound, Files, Rest
  <2>9. Become(p, c)
    BY <1>3 DEF b, c
  <2> QED BY <2>6, <2>7, <2>8, <2>9, SoundFrame
<1> QED BY <1>2, <1>3 DEF ReadLock

LEMMA WriteSpecSound == ASSUME Ind, Sound, NEW p \in Procs, WriteSpec(p) PROVE Sound'
<1>1. UNCHANGED <<lock, World, Rest>> /\ proc[p].pc = "spec"
  BY DEF WriteSpec
<1>2. Good(proc[p]) /\ IsSpecFile(proc[p].staged) /\ WorldOK
  BY <1>1 DEF Sound, Good, WellTyped, HasStaged
<1>3. CASE May("specfile") /\ Exit(p, "io") /\ UNCHANGED spec
  BY <1>1, <1>3, StopSound DEF Files
<1>4. CASE /\ Fine /\ spec' = proc[p].staged
           /\ IF proc[p].cmd \in {"add", "adopt"} THEN Goto(p, "lock")
              ELSE IF proc[p].cmd = "remove" /\ ~proc[p].tracked THEN Exit(p, "ok")
              ELSE Goto(p, "write")
  <2>1. WorldOK' /\ lock' = lock /\ mutex' = mutex
    BY <1>1, <1>2, <1>4 DEF WorldOK, World, Rest, Fine
  <2>2. CASE Exit(p, "ok") /\ proc[p].cmd = "remove"
    BY <1>1, <2>1, <2>2, ExitSound DEF Applies
  <2>3. ASSUME NEW to \in {"lock", "write"}, Goto(p, to),
               IF proc[p].cmd \in {"add", "adopt"} THEN to = "lock" ELSE to = "write"
        PROVE  Sound'
    <3> DEFINE c == [proc[p] EXCEPT !.pc = to]
    <3>1. /\ c.pc = to /\ c.exit = proc[p].exit /\ c.lf = proc[p].lf /\ c.entries = proc[p].entries
          /\ c.cmd = proc[p].cmd /\ c.target = proc[p].target /\ c.id = proc[p].id
          /\ c.pkg = proc[p].pkg
      BY DEF Ind, Shape, Fields
    <3>2. Become(p, c)
      BY <2>3 DEF Goto
    <3> HIDE DEF c
    <3>3. proc[p].cmd \in SpecWriters
      BY <1>1 DEF Ind
    <3>4. Good(c)
      BY <1>1, <1>2, <2>3, <3>1, <3>3 DEF Good, WellTyped, Applying, HasStaged, HasEntry, SpecWriters, Applies
    <3>5. c.cmd # "upgrade"
      BY <3>1, <3>3 DEF SpecWriters
    <3> QED BY <2>1, <2>3, <3>1, <3>2, <3>4, <3>5, QuietStep
  <2> QED BY <1>4, <2>2, <2>3
<1> QED BY <1>1, <1>3, <1>4 DEF WriteSpec

(***************************************************************************)
(* add, adopt, remove, disown and scan.                                    *)
(***************************************************************************)
LEMMA AddStageSound == ASSUME Ind, Sound, NEW p \in Procs, AddStage(p) PROVE Sound'
<1> DEFINE m == Resolve(proc[p].pkg, Available)
           e == [id |-> proc[p].id, manager |-> m, version |-> None]
           st == Declare(proc[p].target, Just(proc[p].id, proc[p].pkg))
           c == [proc[p] EXCEPT !.pc = "install", !.staged = st, !.entries = <<e>>]
<1>1. UNCHANGED <<Files, World, Rest>> /\ proc[p].pc = "stage" /\ proc[p].cmd = "add"
  BY DEF AddStage, At
<1>2. CASE Exit(p, "logic") /\ (Fine \/ May("hook"))
  BY <1>1, <1>2, StopSound
<1>3. CASE Fine /\ m # None /\ Become(p, c)
  <2>1. Good(proc[p]) /\ IsSpecFile(spec)
    BY DEF Sound, WorldOK
  <2>2. proc[p].target \in Targets /\ proc[p].id \in Ids /\ proc[p].pkg \in Package
    BY <1>1, <2>1, CommandsAssumption DEF Good, WellTyped
  <2>3. m \in Managers
    BY <1>3, ResolveLemma, CommandsAssumption
  <2>4. IsSpecFile(st) /\ <<e>> \in Seq(Entry) /\ <<e>> # <<>> /\ <<e>>[1].id = proc[p].id
    <3>1. e \in Entry
      BY <2>2, <2>3 DEF Entry
    <3> QED BY <2>1, <2>2, <3>1, JustLemma, DeclareLemma
  <2> HIDE DEF st, e
  <2>5. /\ c.pc = "install" /\ c.exit = proc[p].exit /\ c.lf = proc[p].lf /\ c.entries = <<e>>
        /\ c.cmd = "add" /\ c.target = proc[p].target /\ c.id = proc[p].id
        /\ c.pkg = proc[p].pkg /\ c.staged = st
    BY <1>1 DEF Ind, Shape, Fields
  <2> HIDE DEF c
  <2>6. Good(c)
    BY <1>1, <2>1, <2>4, <2>5 DEF Good, WellTyped, Applying, HasStaged, HasEntry, Applies
  <2> QED BY <1>1, <1>3, <2>5, <2>6, StepSound
<1> QED BY <1>2, <1>3 DEF AddStage

LEMMA AddInstallSound == ASSUME Ind, Sound, NEW p \in Procs, AddInstall(p) PROVE Sound'
<1>1. UNCHANGED <<Files, Rest>> /\ proc[p].pc = "install" /\ proc[p].cmd = "add"
  BY DEF AddInstall, At
<1>2. Good(proc[p]) /\ WorldOK
  BY DEF Sound
<1>3. CASE May("install") /\ Exit(p, "logic") /\ UNCHANGED World
  BY <1>1, <1>3, StopSound
<1>4. ASSUME Fine, Goto(p, "spec"),
             NEW v \in Versions, Put(proc[p].target, proc[p].entries[1].manager, proc[p].id, v)
      PROVE  Sound'
  <2>1. /\ proc[p].target \in Targets /\ proc[p].id \in Ids /\ IsSpecFile(proc[p].staged)
        /\ proc[p].entries # <<>> /\ proc[p].entries \in Seq(Entry)
    BY <1>1, <1>2 DEF Good, WellTyped, HasEntry, HasStaged, Applies
  <2>2. proc[p].entries[1] \in Entry
    BY <2>1
  <2>3. proc[p].entries[1].manager \in Managers
    BY <2>2 DEF Entry
  <2>4. machine' \in Machine /\ mine' \subseteq Managers \X Ids \X Targets
    BY <1>2, <1>4, <2>1, <2>3, PutLemma
  <2>5. WorldOK' /\ lock' = lock /\ mutex' = mutex
    BY <1>1, <1>2, <1>4, <2>4 DEF WorldOK, Files, Rest, Fine
  <2> DEFINE c == [proc[p] EXCEPT !.pc = "spec"]
  <2>6. /\ c.pc = "spec" /\ c.exit = proc[p].exit /\ c.lf = proc[p].lf /\ c.entries = proc[p].entries
        /\ c.cmd = "add" /\ c.target = proc[p].target /\ c.id = proc[p].id
        /\ c.pkg = proc[p].pkg /\ c.staged = proc[p].staged
    BY <1>1 DEF Ind, Shape, Fields
  <2>7. Become(p, c)
    BY <1>4 DEF Goto
  <2> HIDE DEF c
  <2>8. Good(c)
    BY <1>1, <1>2, <2>1, <2>6 DEF Good, WellTyped, Applying, HasStaged, HasEntry, Applies
  <2> QED BY <2>5, <2>6, <2>7, <2>8, QuietStep
<1> QED BY <1>3, <1>4 DEF AddInstall

LEMMA AdoptStageSound == ASSUME Ind, Sound, NEW p \in Procs, AdoptStage(p) PROVE Sound'
<1>1. UNCHANGED <<Files, World, Rest>> /\ Fine /\ proc[p].pc = "stage" /\ proc[p].cmd = "adopt"
  BY DEF AdoptStage, At
<1>2. CASE Exit(p, "logic")
  BY <1>1, <1>2, StopSound
<1>3. ASSUME NEW known, Resolve(known, Available) # None, NEW d,
             Become(p, [proc[p] EXCEPT !.pc = "query", !.tracked = d, !.entries =
                           <<[id |-> proc[p].id, manager |-> Resolve(known, Available), version |-> None]>>])
      PROVE  Sound'
  <2> DEFINE e == [id |-> proc[p].id, manager |-> Resolve(known, Available), version |-> None]
             c == [proc[p] EXCEPT !.pc = "query", !.tracked = d, !.entries = <<e>>]
  <2>1. Good(proc[p])
    BY DEF Sound
  <2>2. Resolve(known, Available) \in Managers
    BY <1>3, ResolveLemma, CommandsAssumption
  <2>3. e \in Entry
    BY <1>1, <2>1, <2>2 DEF Entry, Good, WellTyped
  <2> HIDE DEF e
  <2>4. /\ c.pc = "query" /\ c.exit = proc[p].exit /\ c.lf = proc[p].lf /\ c.entries = <<e>>
        /\ c.cmd = "adopt" /\ c.target = proc[p].target /\ c.id = proc[p].id
        /\ c.pkg = proc[p].pkg
    BY <1>1 DEF Ind, Shape, Fields
  <2>5. Become(p, c)
    BY <1>3 DEF e
  <2> HIDE DEF c
  <2>6. Good(c)
    BY <1>1, <2>1, <2>3, <2>4 DEF Good, WellTyped, Applying, HasStaged, HasEntry, Applies
  <2> QED BY <1>1, <2>4, <2>5, <2>6, StepSound
<1> QED BY <1>2, <1>3 DEF AdoptStage

LEMMA AdoptQuerySound == ASSUME Ind, Sound, NEW p \in Procs, AdoptQuery(p) PROVE Sound'
<1>1. /\ UNCHANGED <<Files, World, Rest>> /\ (Fine \/ \E fault : May(fault))
      /\ proc[p].pc = "query" /\ proc[p].cmd = "adopt"
  BY DEF AdoptQuery, At
<1>2. CASE Exit(p, "logic")
  BY <1>1, <1>2, StopSound
<1>3. ASSUME NEW v \in Versions \cup {None},
             Become(p, [proc[p] EXCEPT !.pc = "check", !.entries[1].version = v])
      PROVE  Sound'
  <2> DEFINE es == [proc[p].entries EXCEPT ![1].version = v]
             c == [proc[p] EXCEPT !.pc = "check", !.entries = es]
  <2>1. Good(proc[p])
    BY DEF Sound
  <2>2. proc[p].entries \in Seq(Entry) /\ proc[p].entries # <<>>
    BY <1>1, <2>1 DEF Good, WellTyped, HasEntry
  <2>3. es \in Seq(Entry)
    <3>1. proc[p].entries[1] \in Entry /\ 1 \in DOMAIN proc[p].entries
      BY <2>2
    <3>2. [proc[p].entries[1] EXCEPT !.version = v] \in Entry
      BY <3>1 DEF Entry
    <3> DEFINE e == [proc[p].entries[1] EXCEPT !.version = v]
    <3>3. es = [proc[p].entries EXCEPT ![1] = e]
      OBVIOUS
    <3> HIDE DEF e
    <3>4. e \in Entry
      BY <3>2 DEF e
    <3> QED BY <2>2, <3>1, <3>3, <3>4
  <2>4. Become(p, c)
    BY <1>3
  <2> HIDE DEF es
  <2>5. /\ c.pc = "check" /\ c.exit = proc[p].exit /\ c.lf = proc[p].lf /\ c.entries = es
        /\ c.cmd = "adopt" /\ c.target = proc[p].target /\ c.id = proc[p].id
        /\ c.pkg = proc[p].pkg
    BY <1>1 DEF Ind, Shape, Fields
  <2> HIDE DEF c
  <2>6. Good(c)
    BY <1>1, <2>1, <2>3, <2>5 DEF Good, WellTyped, Applying, HasStaged, HasEntry, Applies
  <2> QED BY <1>1, <2>4, <2>5, <2>6, StepSound
<1>4. machine[proc[p].entries[1].manager][proc[p].entries[1].id] \in Versions \cup {None}
  <2>1. Good(proc[p]) /\ machine \in Machine
    BY DEF Sound, WorldOK
  <2>2. proc[p].entries \in Seq(Entry) /\ proc[p].entries # <<>>
    BY <1>1, <2>1 DEF Good, WellTyped, HasEntry
  <2>3. proc[p].entries[1] \in Entry
    BY <2>2
  <2> QED BY <2>1, <2>3 DEF Entry, Machine
<1> QED BY <1>2, <1>3, <1>4 DEF AdoptQuery

LEMMA AdoptCheckSound == ASSUME Ind, Sound, NEW p \in Procs, AdoptCheck(p) PROVE Sound'
<1>1. UNCHANGED <<Files, World, Rest>> /\ Fine /\ proc[p].pc = "check" /\ proc[p].cmd = "adopt"
  BY DEF AdoptCheck, At
<1>2. CASE Exit(p, "logic")
  BY <1>1, <1>2, StopSound
<1>3. ASSUME NEW to \in {"lock", "prepare"}, Goto(p, to) PROVE Sound'
  <2> DEFINE c == [proc[p] EXCEPT !.pc = to]
  <2>1. /\ c.pc = to /\ c.exit = proc[p].exit /\ c.lf = proc[p].lf /\ c.entries = proc[p].entries
        /\ c.cmd = "adopt" /\ c.target = proc[p].target /\ c.id = proc[p].id
        /\ c.pkg = proc[p].pkg
    BY <1>1 DEF Ind, Shape, Fields
  <2>2. Become(p, c)
    BY <1>3 DEF Goto
  <2> HIDE DEF c
  <2>3. Good(proc[p])
    BY DEF Sound
  <2>4. Good(c)
    BY <1>1, <1>3, <2>1, <2>3 DEF Good, WellTyped, Applying, HasStaged, HasEntry, Applies
  <2> QED BY <1>1, <1>3, <2>1, <2>2, <2>4, StepSound
<1> QED BY <1>2, <1>3 DEF AdoptCheck

LEMMA AdoptPrepareSound == ASSUME Ind, Sound, NEW p \in Procs, AdoptPrepare(p) PROVE Sound'
<1> DEFINE st == Declare(proc[p].target, Just(proc[p].id, proc[p].pkg))
           c == [proc[p] EXCEPT !.pc = "spec", !.staged = st]
<1>1. UNCHANGED <<Files, World, Rest>> /\ Fine /\ proc[p].pc = "prepare" /\ proc[p].cmd = "adopt"
  BY DEF AdoptPrepare, At
<1>2. CASE Exit(p, "logic")
  BY <1>1, <1>2, StopSound
<1>3. CASE Become(p, c)
  <2>1. Good(proc[p]) /\ IsSpecFile(spec)
    BY DEF Sound, WorldOK
  <2>2. proc[p].target \in Targets /\ proc[p].id \in Ids /\ proc[p].pkg \in Package
    BY <1>1, <2>1, CommandsAssumption DEF Good, WellTyped
  <2>3. IsSpecFile(st)
    BY <2>1, <2>2, JustLemma, DeclareLemma
  <2> HIDE DEF st
  <2>4. /\ c.pc = "spec" /\ c.exit = proc[p].exit /\ c.lf = proc[p].lf /\ c.entries = proc[p].entries
        /\ c.cmd = "adopt" /\ c.target = proc[p].target /\ c.id = proc[p].id
        /\ c.pkg = proc[p].pkg /\ c.staged = st
    BY <1>1 DEF Ind, Shape, Fields
  <2> HIDE DEF c
  <2>5. Good(c)
    BY <1>1, <2>1, <2>3, <2>4 DEF Good, WellTyped, Applying, HasStaged, HasEntry, Applies
  <2> QED BY <1>1, <1>3, <2>4, <2>5, StepSound
<1> QED BY <1>2, <1>3 DEF AdoptPrepare

\* Staging a remove, a disown or a scan, whose entries are sound.
LEMMA StageSound ==
    ASSUME Ind, Sound, NEW p \in Procs, proc[p].pc = "stage", proc[p].cmd \in {"remove", "disown", "scan"},
           UNCHANGED <<Files, World, Rest>>, Fine \/ \E fault : May(fault),
           NEW c, Become(p, c), IsSpecFile(c.staged), c.entries \in Seq(Entry),
           c.pc = "lock", c.exit = proc[p].exit, c.lf = proc[p].lf, c.cmd = proc[p].cmd,
           c.target = proc[p].target, c.id = proc[p].id, c.pkg = proc[p].pkg
    PROVE  Sound'
<1>1. Good(proc[p])
  BY DEF Sound
<1>2. Good(c)
  BY <1>1 DEF Good, WellTyped, Applying, HasStaged, HasEntry, Applies
<1> QED BY <1>2, StepSound

LEMMA RemoveStageSound == ASSUME Ind, Sound, NEW p \in Procs, RemoveStage(p) PROVE Sound'
<1> DEFINE st == Undeclare(proc[p].target, proc[p].id)
           c == [proc[p] EXCEPT !.pc = "lock", !.staged = st]
<1>1. UNCHANGED <<Files, World, Rest>> /\ proc[p].pc = "stage" /\ proc[p].cmd = "remove"
  BY DEF RemoveStage, At
<1>2. CASE Exit(p, "logic") /\ (Fine \/ May("hook"))
  BY <1>1, <1>2, StopSound
<1>3. CASE Fine /\ Become(p, c)
  <2>1. IsSpecFile(st) /\ proc[p].entries \in Seq(Entry)
    BY <1>1, UndeclareLemma DEF Sound, WorldOK, Good, WellTyped
  <2> HIDE DEF st
  <2>2. /\ c.pc = "lock" /\ c.exit = proc[p].exit /\ c.lf = proc[p].lf /\ c.entries = proc[p].entries
        /\ c.cmd = "remove" /\ c.target = proc[p].target /\ c.id = proc[p].id
        /\ c.pkg = proc[p].pkg /\ c.staged = st
    BY <1>1 DEF Ind, Shape, Fields
  <2> HIDE DEF c
  <2> QED BY <1>1, <1>3, <2>1, <2>2, StageSound
<1> QED BY <1>2, <1>3 DEF RemoveStage

LEMMA DisownStageSound == ASSUME Ind, Sound, NEW p \in Procs, DisownStage(p) PROVE Sound'
<1> DEFINE st == Undeclare(proc[p].target, proc[p].id)
           c == [proc[p] EXCEPT !.pc = "lock", !.tracked = proc[p].id \in DOMAIN Here(p), !.staged = st]
<1>1. /\ UNCHANGED <<Files, World, Rest>> /\ Fine /\ proc[p].pc = "stage" /\ proc[p].cmd = "disown"
      /\ Become(p, c)
  BY DEF DisownStage, At
<1>2. IsSpecFile(st) /\ proc[p].entries \in Seq(Entry)
  BY <1>1, UndeclareLemma DEF Sound, WorldOK, Good, WellTyped
<1> HIDE DEF st
<1>3. /\ c.pc = "lock" /\ c.exit = proc[p].exit /\ c.lf = proc[p].lf /\ c.entries = proc[p].entries
      /\ c.cmd = "disown" /\ c.target = proc[p].target /\ c.id = proc[p].id
      /\ c.pkg = proc[p].pkg /\ c.staged = st
  BY <1>1 DEF Ind, Shape, Fields
<1> HIDE DEF c
<1> QED BY <1>1, <1>2, <1>3, StageSound

LEMMA ScanStageSound == ASSUME Ind, Sound, NEW p \in Procs, ScanStage(p) PROVE Sound'
<1>1. UNCHANGED <<Files, World, Rest>> /\ proc[p].pc = "stage" /\ proc[p].cmd = "scan"
  BY DEF ScanStage, At
<1>2. CASE Exit(p, "ok") /\ May("decline")
  BY <1>1, <1>2, StopSound DEF Applies
<1>3. ASSUME NEW answering \in SUBSET Available, Fine \/ May("list"),
             LET found == Unclaimed(DOMAIN Here(p), answering)
             IN  Become(p, [proc[p] EXCEPT !.pc = "lock",
                     !.staged = Declare(proc[p].target, [id \in DOMAIN found |->
                         [prefer |-> found[id], offers |-> {}, accepts |-> Versions]]),
                     !.entries = SetToSeq({[id |-> id, manager |-> found[id],
                         version |-> machine[found[id]][id]] : id \in DOMAIN found})])
      PROVE  Sound'
  <2> DEFINE found == Unclaimed(DOMAIN Here(p), answering)
             f == [id \in DOMAIN found |-> [prefer |-> found[id], offers |-> {}, accepts |-> Versions]]
             new(id) == [id |-> id, manager |-> found[id], version |-> machine[found[id]][id]]
             news == {new(id) : id \in DOMAIN found}
             st == Declare(proc[p].target, f)
             es == SetToSeq(news)
             c == [proc[p] EXCEPT !.pc = "lock", !.staged = st, !.entries = es]
  <2>0. IsSpecFile(spec) /\ machine \in Machine /\ Good(proc[p])
    BY DEF Sound, WorldOK
  <2>1. DOMAIN found \subseteq Ids /\ \A id \in DOMAIN found : found[id] \in Managers
    <3> DEFINE by(id) == FirstRegistered({m \in answering : machine[m][id] # None})
    <3>1. \A id : by(id) # None => by(id) \in answering
      BY FirstRegisteredLemma
    <3>2. found = [id \in {i \in Ids \ DOMAIN Here(p) : by(i) # None} |-> by(id)]
      BY DEF Unclaimed
    <3> HIDE DEF by, found
    <3> QED BY <3>1, <3>2, CommandsAssumption
  <2> HIDE DEF found
  <2>2. IsTable(f)
    <3>1. \A id \in DOMAIN found : [prefer |-> found[id], offers |-> {}, accepts |-> Versions] \in Package
      BY <2>1 DEF Package
    <3> QED BY <2>1, <3>1 DEF IsTable
  <2>3. IsSpecFile(st)
    <3> HIDE DEF f
    <3> QED BY <1>1, <2>0, <2>2, DeclareLemma DEF Good, WellTyped
  <2>4. news \subseteq Entry
    <3> SUFFICES ASSUME NEW id \in DOMAIN found PROVE new(id) \in Entry
      OBVIOUS
    <3> QED BY <2>0, <2>1 DEF Entry, Machine
  <2>5. IsFiniteSet(news)
    <3>1. IsFiniteSet(DOMAIN found)
      BY <2>1, CommandsAssumption, FS_Subset
    <3> DEFINE g == [id \in DOMAIN found |-> new(id)]
    <3>2. g \in Surjection(DOMAIN found, news)
      BY DEF Surjection
    <3> QED BY <3>1, <3>2, FS_Surjection
  <2>6. es \in Seq(Entry)
    <3> HIDE DEF news
    <3>1. es \in Seq(news)
      BY <2>5, SetToSeqLemma
    <3> QED BY <2>4, <3>1
  <2>7. Become(p, c)
    BY <1>3 DEF found
  <2> HIDE DEF st, es
  <2>8. /\ c.pc = "lock" /\ c.exit = proc[p].exit /\ c.lf = proc[p].lf /\ c.entries = es
        /\ c.cmd = "scan" /\ c.target = proc[p].target /\ c.id = proc[p].id
        /\ c.pkg = proc[p].pkg /\ c.staged = st
    BY <1>1 DEF Ind, Shape, Fields
  <2> HIDE DEF c
  <2> QED BY <1>1, <1>3, <2>3, <2>6, <2>7, <2>8, StageSound
<1> QED BY <1>2, <1>3 DEF ScanStage

LEMMA RemoveUninstallSound == ASSUME Ind, Sound, NEW p \in Procs, RemoveUninstall(p) PROVE Sound'
<1> DEFINE e == LastEntry(proc[p].lf.packages, proc[p].id)
<1>1. UNCHANGED <<Files, Rest>> /\ proc[p].pc = "uninstall" /\ proc[p].cmd = "remove"
  BY DEF RemoveUninstall, At
<1>2. Good(proc[p]) /\ WorldOK
  BY DEF Sound
<1>3. CASE Exit(p, "logic") /\ UNCHANGED World /\ (Fine \/ May("uninstall"))
  BY <1>1, <1>3, StopSound
<1>4. CASE Fine /\ Take(e.manager, e.id) /\ Goto(p, "spec")
  <2>1. e \in Entry
    BY <1>1, <1>2, LastEntryLemma DEF Good, WellTyped, LockFile
  <2>2. machine' \in Machine /\ mine' \subseteq Managers \X Ids \X Targets
    <3>1. e.manager \in Managers /\ e.id \in Ids
      BY <2>1 DEF Entry
    <3> HIDE DEF e
    <3> QED BY <1>2, <1>4, <3>1, TakeLemma
  <2>3. WorldOK' /\ lock' = lock /\ mutex' = mutex
    BY <1>1, <1>2, <1>4, <2>2 DEF WorldOK, Files, Rest, Fine
  <2> DEFINE c == [proc[p] EXCEPT !.pc = "spec"]
  <2>4. /\ c.pc = "spec" /\ c.exit = proc[p].exit /\ c.lf = proc[p].lf /\ c.entries = proc[p].entries
        /\ c.cmd = "remove" /\ c.target = proc[p].target /\ c.id = proc[p].id
        /\ c.pkg = proc[p].pkg /\ c.staged = proc[p].staged
    BY <1>1 DEF Ind, Shape, Fields
  <2>5. Become(p, c)
    BY <1>4 DEF Goto
  <2> HIDE DEF c
  <2>6. Good(c)
    BY <1>1, <1>2, <2>4 DEF Good, WellTyped, Applying, HasStaged, HasEntry, Applies
  <2> QED BY <2>3, <2>4, <2>5, <2>6, QuietStep
<1> QED BY <1>3, <1>4 DEF RemoveUninstall

(***************************************************************************)
(* apply and upgrade.                                                      *)
(***************************************************************************)
\* After a removal: the next one, or the first install, or the lock.
LEMMA InstallingGood ==
    ASSUME NEW c, DOMAIN c = Fields, c.cmd \in Applies, c.pc = "remove", WellTyped(c), IsTable(c.staged[c.target]),
           PlanIsSound(c.staged[c.target], c.lf.packages, Available, c.plan),
           c.entries = <<>>, c.failed \in BOOLEAN,
           c.todo \in Seq(Entry), ToSet(c.todo) \subseteq ToSet(c.plan.remove),
           c.failed \/ LockedIds(c.plan.remove) \subseteq c.uninstalled \cup LockedIds(c.todo)
    PROVE  Good(Installing(c)) /\ Installing(c).pc \in {"remove", "install", "write"}
           /\ Installing(c).cmd \in Applies
<1> DEFINE ids == Wanted(c.plan)
           d == [c EXCEPT !.pc = IF ids = {} THEN "write" ELSE "install", !.todo = SetToSeq(ids)]
<1>1. Installing(c) = IF c.todo # <<>> THEN c ELSE d
  BY DEF Installing, Wanted
<1>2. LockedIds(<<>>) = {}
  BY DEF LockedIds
<1>3. CASE c.todo # <<>>
  BY <1>1, <1>2, <1>3 DEF Good, Applying, CarriesOut
<1>4. CASE c.todo = <<>>
  <2>1. IsFiniteSet(ids) /\ ids \subseteq Ids
    <3>1. ids \subseteq Ids
      BY DEF Wanted, PlanIsSound, IsTable
    <3> QED BY <3>1, CommandsAssumption, FS_Subset
  <2> DEFINE q == SetToSeq(ids)
  <2>2. q \in Seq(ids) /\ ToSet(q) = ids /\ IsInjective(q)
    <3> HIDE DEF ids
    <3> QED BY <2>1, SetToSeqLemma
  <2>3. q \in Seq(Ids)
    <3> HIDE DEF ids, q
    <3> QED BY <2>1, <2>2
  <2>4. ids # {} => q # <<>>
    <3> HIDE DEF ids, q
    <3> QED BY <2>2 DEF ToSet
  <2> HIDE DEF q
  <2>5. /\ d.pc = (IF ids = {} THEN "write" ELSE "install") /\ d.todo = q
        /\ d.exit = c.exit /\ d.lf = c.lf /\ d.entries = <<>> /\ d.cmd = c.cmd /\ d.target = c.target
        /\ d.id = c.id /\ d.pkg = c.pkg /\ d.plan = c.plan /\ d.staged = c.staged
        /\ d.uninstalled = c.uninstalled /\ d.failed = c.failed
    <3> HIDE DEF ids
    <3> QED BY DEF Fields, q
  <2> HIDE DEF d
  <2>6. WellTyped(d)
    BY <2>5 DEF WellTyped, HasStaged, HasEntry, Applies
  <2>7. CarriesOut(d)
    <3>1. c.failed \/ LockedIds(c.plan.remove) \subseteq c.uninstalled
      BY <1>2, <1>4
    <3>2. LockedIds(d.entries) \subseteq DOMAIN d.plan.install
      BY <1>2, <2>5
    <3> HIDE DEF ids
    <3>3. d.pc = "write" => Wanted(d.plan) \subseteq LockedIds(d.entries)
      BY <2>5 DEF ids
    <3>4. d.pc = "install" => /\ d.todo \in Seq(Ids) /\ d.todo # <<>> /\ IsInjective(d.todo)
                              /\ ToSet(d.todo) = Wanted(d.plan)
      BY <2>2, <2>3, <2>4, <2>5 DEF ids
    <3>5. d.pc # "remove"
      BY <2>5
    <3> QED BY <2>5, <3>1, <3>2, <3>3, <3>4, <3>5 DEF CarriesOut
  <2>8. d.pc \in {"install", "write"}
    BY <2>5
  <2> QED BY <1>1, <1>4, <2>5, <2>6, <2>7, <2>8 DEF Good, Applying
<1> QED BY <1>3, <1>4

\* After an install: the next one, or the lock.
LEMMA SettlingGood ==
    ASSUME NEW c, DOMAIN c = Fields, c.cmd \in Applies, c.pc = "install", WellTyped(c), IsTable(c.staged[c.target]),
           PlanIsSound(c.staged[c.target], c.lf.packages, Available, c.plan),
           LockedIds(c.entries) \subseteq DOMAIN c.plan.install, c.failed \in BOOLEAN,
           c.failed \/ LockedIds(c.plan.remove) \subseteq c.uninstalled,
           c.todo \in Seq(Ids), IsInjective(c.todo), ToSet(c.todo) \subseteq Wanted(c.plan),
           c.failed \/ Wanted(c.plan) \subseteq LockedIds(c.entries) \cup ToSet(c.todo)
    PROVE  Good(Settling(c)) /\ Settling(c).pc \in {"install", "write"} /\ Settling(c).cmd \in Applies
<1> DEFINE d == [c EXCEPT !.pc = "write"]
<1>1. Settling(c) = IF c.todo # <<>> THEN c ELSE d
  BY DEF Settling
<1>2. CASE c.todo # <<>>
  BY <1>1, <1>2 DEF Good, Applying, CarriesOut
<1>3. CASE c.todo = <<>>
  <2>1. ToSet(c.todo) = {}
    BY <1>3 DEF ToSet
  <2>2. /\ d.pc = "write" /\ d.todo = c.todo
        /\ d.exit = c.exit /\ d.lf = c.lf /\ d.entries = c.entries /\ d.cmd = c.cmd /\ d.target = c.target
        /\ d.id = c.id /\ d.pkg = c.pkg /\ d.plan = c.plan /\ d.staged = c.staged
        /\ d.uninstalled = c.uninstalled /\ d.failed = c.failed
    BY DEF Fields
  <2> HIDE DEF d
  <2>3. WellTyped(d)
    BY <2>2 DEF WellTyped, HasStaged, HasEntry, Applies
  <2>4. CarriesOut(d)
    BY <2>1, <2>2 DEF CarriesOut
  <2> QED BY <1>1, <1>3, <2>2, <2>3, <2>4 DEF Good, Applying
<1> QED BY <1>2, <1>3

LEMMA ApplyPlanSound == ASSUME Ind, Sound, NEW p \in Procs, ApplyPlan(p) PROVE Sound'
<1> DEFINE foreign == Foreign(proc[p].lf, proc[p].target)
           base == IF foreign THEN EmptyLock ELSE proc[p].lf
           wanted == ManagersToList(Here(p), base.packages, Available)
           live(answering) == LiveSet(machine, wanted \cap Available, answering)
           plan(answering) == ReconcileWith(Here(p), base.packages, Available, live(answering))
           b(pl) == [proc[p] EXCEPT !.pc = "remove", !.lf = base, !.plan = pl,
                         !.staged = spec, !.todo = pl.remove]
<1>1. /\ proc[p].pc = "plan" /\ proc[p].cmd \in Applies /\ UNCHANGED <<spec, World, Rest>>
      /\ lock' = lock \/ lock' = IF foreign THEN EmptyLock ELSE lock
      /\ Fine \/ \E fault : May(fault)
  BY DEF ApplyPlan, At
<1>2. mutex = p /\ proc[p].lf = lock /\ mutex' = mutex
  BY <1>1 DEF Ind, Within, Current, Rest, Applies
<1>3. Good(proc[p]) /\ WorldOK
  BY DEF Sound
<1>4. EmptyLock \in LockFile
  <2>1. <<>> \in Seq(Entry)
    OBVIOUS
  <2> QED BY <2>1 DEF EmptyLock, LockFile
<1>5. WorldOK'
  BY <1>1, <1>3, <1>4, Counted DEF WorldOK, World, Rest
<1>6. CASE Exit(p, "logic") \/ Exit(p, "io") \/ Exit(p, "ok")
  BY <1>1, <1>2, <1>3, <1>5, <1>6, ExitSound DEF Good, Applying
<1>7. ASSUME NEW answering, Become(p, Installing(b(plan(answering)))) PROVE Sound'
  <2> DEFINE pl == plan(answering)
             c == b(pl)
  <2>1. proc[p].target \in Targets
    BY <1>1, <1>3 DEF Good, WellTyped
  <2>2. IsTable(Here(p)) /\ IsTable(spec[proc[p].target])
    BY <1>3, <2>1 DEF WorldOK, IsSpecFile, Here
  <2>3. base \in LockFile /\ base.packages \in Seq(Entry)
    BY <1>2, <1>3, <1>4 DEF LockFile, WorldOK
  <2>4. PlanIsSound(spec[proc[p].target], base.packages, Available, pl)
    <3> DEFINE lv == live(answering)
    <3>1. DOMAIN lv \subseteq Managers
      BY CommandsAssumption DEF LiveSet
    <3>2. DOMAIN Here(p) \subseteq Ids
      BY <2>2 DEF IsTable
    <3>3. pl = ReconcileWith(Here(p), base.packages, Available, lv)
      OBVIOUS
    <3> HIDE DEF lv, pl, base
    <3>4. PlanIsSound(Here(p), base.packages, Available, pl)
      BY <2>3, <3>1, <3>2, <3>3, CommandsAssumption, PlanLemma
    <3> QED BY <3>4 DEF Here
  <2> HIDE DEF pl, base
  <2>5. /\ DOMAIN c = Fields
        /\ c.pc = "remove" /\ c.todo = pl.remove /\ c.exit = proc[p].exit /\ c.lf = base
        /\ c.entries = proc[p].entries /\ c.cmd = proc[p].cmd /\ c.target = proc[p].target
        /\ c.id = proc[p].id /\ c.pkg = proc[p].pkg /\ c.plan = pl /\ c.staged = spec
        /\ c.uninstalled = proc[p].uninstalled /\ c.failed = proc[p].failed
    BY DEF Ind, Shape, Fields
  <2>6. Become(p, Installing(c))
    BY <1>7 DEF pl
  <2> HIDE DEF c
  <2>7. c.entries = <<>> /\ c.failed = FALSE
    BY <1>1, <1>3, <2>5 DEF Good, Applying
  <2>8. WellTyped(c)
    BY <1>1, <1>3, <2>3, <2>5 DEF Good, WellTyped, HasStaged, HasEntry, Applies
  <2>9. c.todo \in Seq(Entry)
    BY <2>4, <2>5 DEF PlanIsSound
  <2>10. Good(Installing(c)) /\ Installing(c).pc \in {"remove", "install", "write"}
         /\ Installing(c).cmd \in Applies
    BY <1>1, <2>2, <2>4, <2>5, <2>7, <2>8, <2>9, InstallingGood
  <2> QED BY <1>2, <1>5, <2>6, <2>10, QuietStep DEF Applies
<1> QED BY <1>6, <1>7 DEF ApplyPlan

LEMMA ApplyRemoveSound == ASSUME Ind, Sound, NEW p \in Procs, ApplyRemove(p) PROVE Sound'
<1> DEFINE e == Head(proc[p].todo)
           done == [[proc[p] EXCEPT !.todo = Tail(@)] EXCEPT !.uninstalled = @ \cup {e.id}]
           failed == [[proc[p] EXCEPT !.todo = Tail(@)] EXCEPT !.failed = TRUE]
<1>1. proc[p].pc = "remove" /\ proc[p].cmd \in Applies /\ UNCHANGED <<Files, Rest>>
  BY DEF ApplyRemove, At
<1>2. mutex = p /\ mutex' = mutex /\ lock' = lock
  BY <1>1 DEF Ind, Within, Rest, Files
<1>3. WellTyped(proc[p]) /\ CarriesOut(proc[p]) /\ WorldOK
  BY <1>1 DEF Sound, Good, Applying
<1>4. proc[p].todo \in Seq(Entry) /\ proc[p].todo # <<>> /\ ToSet(proc[p].todo) \subseteq ToSet(proc[p].plan.remove)
  BY <1>1, <1>3 DEF CarriesOut
<1>5. /\ e \in Entry /\ Tail(proc[p].todo) \in Seq(Entry)
      /\ ToSet(proc[p].todo) = {e} \cup ToSet(Tail(proc[p].todo))
  BY <1>4, ToSetTail
<1>6. LockedIds(proc[p].todo) = {e.id} \cup LockedIds(Tail(proc[p].todo))
  BY ZenonT(40), <1>4, <1>5, LockedIdsLemma
<1>7. CASE Fine /\ Take(e.manager, e.id) /\ Become(p, Installing(done))
  <2>1. machine' \in Machine /\ mine' \subseteq Managers \X Ids \X Targets
    <3>1. e.manager \in Managers /\ e.id \in Ids
      BY <1>5 DEF Entry
    <3> HIDE DEF e
    <3> QED BY <1>3, <1>7, <3>1, TakeLemma
  <2>2. WorldOK'
    BY <1>1, <1>3, <1>7, <2>1 DEF WorldOK, Files, Rest, Fine
  <2> HIDE DEF e
  <2>3. /\ DOMAIN done = Fields
        /\ done.pc = "remove" /\ done.todo = Tail(proc[p].todo) /\ done.exit = proc[p].exit
        /\ done.lf = proc[p].lf /\ done.entries = proc[p].entries /\ done.cmd = proc[p].cmd
        /\ done.target = proc[p].target /\ done.id = proc[p].id /\ done.pkg = proc[p].pkg
        /\ done.plan = proc[p].plan /\ done.staged = proc[p].staged
        /\ done.uninstalled = proc[p].uninstalled \cup {e.id} /\ done.failed = proc[p].failed
    BY <1>1 DEF Ind, Shape, Fields
  <2> HIDE DEF done
  <2>4. WellTyped(done)
    BY <1>1, <1>3, <2>3 DEF WellTyped, HasStaged, HasEntry, Applies
  <2>5. Good(Installing(done)) /\ Installing(done).pc \in {"remove", "install", "write"}
        /\ Installing(done).cmd \in Applies
    BY <1>1, <1>3, <1>4, <1>5, <1>6, <2>3, <2>4, InstallingGood DEF CarriesOut
  <2> QED BY <1>2, <1>7, <2>2, <2>5, QuietStep DEF Applies
<1>8. CASE May("uninstall") /\ Become(p, Installing(failed)) /\ UNCHANGED World
  <2>1. WorldOK'
    BY <1>1, <1>3, <1>8, WorldStays
  <2>2. /\ DOMAIN failed = Fields
        /\ failed.pc = "remove" /\ failed.todo = Tail(proc[p].todo) /\ failed.exit = proc[p].exit
        /\ failed.lf = proc[p].lf /\ failed.entries = proc[p].entries /\ failed.cmd = proc[p].cmd
        /\ failed.target = proc[p].target /\ failed.id = proc[p].id /\ failed.pkg = proc[p].pkg
        /\ failed.plan = proc[p].plan /\ failed.staged = proc[p].staged
        /\ failed.uninstalled = proc[p].uninstalled /\ failed.failed = TRUE
    BY <1>1 DEF Ind, Shape, Fields
  <2> HIDE DEF failed
  <2>3. WellTyped(failed)
    BY <1>1, <1>3, <2>2 DEF WellTyped, HasStaged, HasEntry, Applies
  <2>4. Good(Installing(failed)) /\ Installing(failed).pc \in {"remove", "install", "write"}
        /\ Installing(failed).cmd \in Applies
    BY <1>1, <1>3, <1>4, <1>5, <2>2, <2>3, InstallingGood DEF CarriesOut
  <2> QED BY <1>2, <1>8, <2>1, <2>4, QuietStep DEF Applies
<1> QED BY <1>7, <1>8 DEF ApplyRemove

LEMMA ApplyInstallSound == ASSUME Ind, Sound, NEW p \in Procs, ApplyInstall(p) PROVE Sound'
<1> DEFINE b == [proc[p] EXCEPT !.todo = Tail(@)]
           id == Head(proc[p].todo)
           m == proc[p].plan.install[id]
           new(v) == [id |-> id, manager |-> m, version |-> v]
           done(v) == [b EXCEPT !.entries = Append(@, new(v))]
           failed == [b EXCEPT !.failed = TRUE]
<1>1. proc[p].pc = "install" /\ proc[p].cmd \in Applies /\ UNCHANGED <<Files, Rest>>
  BY DEF ApplyInstall, At
<1>2. mutex = p /\ mutex' = mutex /\ lock' = lock
  BY <1>1 DEF Ind, Within, Rest, Files
<1>3. WellTyped(proc[p]) /\ CarriesOut(proc[p]) /\ WorldOK
  BY <1>1 DEF Sound, Good, Applying
<1>4. /\ proc[p].todo \in Seq(Ids) /\ proc[p].todo # <<>> /\ IsInjective(proc[p].todo)
      /\ ToSet(proc[p].todo) \subseteq Wanted(proc[p].plan)
  BY <1>1, <1>3 DEF CarriesOut
<1>5. /\ id \in Ids /\ Tail(proc[p].todo) \in Seq(Ids) /\ IsInjective(Tail(proc[p].todo))
      /\ ToSet(proc[p].todo) = {id} \cup ToSet(Tail(proc[p].todo))
  BY <1>4, ToSetTail
<1>6. id \in Wanted(proc[p].plan) /\ m \in Managers
  <2>1. id \in Wanted(proc[p].plan)
    BY <1>4, <1>5
  <2>2. m = Resolve(proc[p].staged[proc[p].target][id], Available) /\ m # None
    BY <1>3, <2>1 DEF CarriesOut, PlanIsSound, Wanted
  <2> QED BY <2>1, <2>2, ResolveLemma, CommandsAssumption
<1>7. id \in DOMAIN proc[p].plan.install
  BY <1>6 DEF Wanted
<1> HIDE DEF id, m
<1>8. ASSUME NEW v \in Versions, Put(proc[p].target, m, id, v),
             NEW w \in Versions \cup {None}, Become(p, Settling(done(w))), Fine \/ \E fault : May(fault)
      PROVE  Sound'
  <2>1. machine' \in Machine /\ mine' \subseteq Managers \X Ids \X Targets
    BY <1>1, <1>3, <1>5, <1>6, <1>8, PutLemma DEF WellTyped
  <2>2. WorldOK'
    BY <1>1, <1>3, <1>8, <2>1, Counted DEF WorldOK, Files, Rest
  <2> DEFINE es == Append(proc[p].entries, new(w))
             c == done(w)
  <2>3. new(w) \in Entry
    BY <1>5, <1>6 DEF Entry
  <2>4. es \in Seq(Entry) /\ LockedIds(es) = LockedIds(proc[p].entries) \cup {id}
    <3> DEFINE e == new(w)
    <3>1. e.id = id
      OBVIOUS
    <3> HIDE DEF e
    <3>2. proc[p].entries \in Seq(Entry)
      BY <1>3 DEF WellTyped
    <3>3. Append(proc[p].entries, e) \in Seq(Entry)
          /\ ToSet(Append(proc[p].entries, e)) = ToSet(proc[p].entries) \cup {e}
      BY <2>3, <3>2, ToSetAppend DEF e
    <3>4. LockedIds(Append(proc[p].entries, e)) = LockedIds(proc[p].entries) \cup {id}
      BY <3>1, <3>2, <3>3, LockedIdsLemma
    <3> QED BY <3>3, <3>4 DEF e
  <2> HIDE DEF es
  <2>5. /\ DOMAIN c = Fields
        /\ c.pc = "install" /\ c.todo = Tail(proc[p].todo) /\ c.exit = proc[p].exit
        /\ c.lf = proc[p].lf /\ c.entries = es /\ c.cmd = proc[p].cmd
        /\ c.target = proc[p].target /\ c.id = proc[p].id /\ c.pkg = proc[p].pkg
        /\ c.plan = proc[p].plan /\ c.staged = proc[p].staged
        /\ c.uninstalled = proc[p].uninstalled /\ c.failed = proc[p].failed
    BY <1>1 DEF Ind, Shape, Fields, es
  <2> HIDE DEF c
  <2>6. WellTyped(c)
    BY <1>1, <1>3, <2>4, <2>5 DEF WellTyped, HasStaged, HasEntry, Applies
  <2>7. Good(Settling(c)) /\ Settling(c).pc \in {"install", "write"} /\ Settling(c).cmd \in Applies
    BY <1>1, <1>3, <1>4, <1>5, <1>7, <2>4, <2>5, <2>6, SettlingGood DEF CarriesOut
  <2>8. Become(p, Settling(c))
    BY <1>8 DEF c
  <2> QED BY <1>2, <2>2, <2>7, <2>8, QuietStep DEF Applies
<1>9. CASE May("install") /\ Become(p, Settling(failed)) /\ UNCHANGED World
  <2>1. WorldOK'
    BY <1>1, <1>3, <1>9, WorldStays
  <2>2. /\ DOMAIN failed = Fields
        /\ failed.pc = "install" /\ failed.todo = Tail(proc[p].todo) /\ failed.exit = proc[p].exit
        /\ failed.lf = proc[p].lf /\ failed.entries = proc[p].entries /\ failed.cmd = proc[p].cmd
        /\ failed.target = proc[p].target /\ failed.id = proc[p].id /\ failed.pkg = proc[p].pkg
        /\ failed.plan = proc[p].plan /\ failed.staged = proc[p].staged
        /\ failed.uninstalled = proc[p].uninstalled /\ failed.failed = TRUE
    BY <1>1 DEF Ind, Shape, Fields
  <2> HIDE DEF failed
  <2>3. WellTyped(failed)
    BY <1>1, <1>3, <2>2 DEF WellTyped, HasStaged, HasEntry, Applies
  <2>4. Good(Settling(failed)) /\ Settling(failed).pc \in {"install", "write"} /\ Settling(failed).cmd \in Applies
    BY <1>1, <1>3, <1>4, <1>5, <2>2, <2>3, SettlingGood DEF CarriesOut
  <2> QED BY <1>2, <1>9, <2>1, <2>4, QuietStep DEF Applies
<1>10. b.target = proc[p].target /\ b.plan = proc[p].plan
  BY DEF Ind, Shape, Fields
<1>11. \/ \E v \in Versions :
             /\ Put(b.target, b.plan.install[id], id, v)
             /\ \/ Fine /\ Become(p, Settling([b EXCEPT !.entries = Append(@,
                          [id |-> id, manager |-> b.plan.install[id], version |-> v])]))
                \/ May("version") /\ Become(p, Settling([b EXCEPT !.entries = Append(@,
                          [id |-> id, manager |-> b.plan.install[id], version |-> None])]))
       \/ May("install") /\ Become(p, Settling(failed)) /\ UNCHANGED World
  BY DEF ApplyInstall, id
<1>12. b.plan.install[id] = m
  BY <1>10 DEF m
<1> QED BY <1>8, <1>9, <1>10, <1>11, <1>12

LEMMA UpgradeSound == ASSUME Ind, Sound, NEW p \in Procs, Upgrade(p) PROVE Sound'
<1>1. /\ proc[p].pc = "plan" /\ proc[p].cmd = "upgrade" /\ UNCHANGED <<Files, mine, Rest>> /\ Fine
  BY DEF Upgrade, At
<1>2. mutex = p /\ proc[p].lf = lock /\ mutex' = mutex /\ lock' = lock
  BY <1>1 DEF Ind, Within, Current, Rest, Files
<1>3. WellTyped(proc[p]) /\ WorldOK
  BY DEF Sound, Good
<1>4. CASE Exit(p, "logic") /\ UNCHANGED machine
  BY <1>1, <1>4, StopSound DEF World
<1>5. ASSUME machine' \in Machine, NEW lf, lf \in LockFile, LockedIds(lf.packages) = LockedIds(lock.packages),
             Become(p, [proc[p] EXCEPT !.pc = "write", !.lf = lf])
      PROVE  Sound'
  <2> DEFINE c == [proc[p] EXCEPT !.pc = "write", !.lf = lf]
  <2>1. /\ c.pc = "write" /\ c.exit = proc[p].exit /\ c.lf = lf /\ c.entries = proc[p].entries
        /\ c.cmd = "upgrade" /\ c.target = proc[p].target /\ c.id = proc[p].id
        /\ c.pkg = proc[p].pkg
    BY <1>1 DEF Ind, Shape, Fields
  <2>2. Become(p, c)
    BY <1>5
  <2> HIDE DEF c
  <2>3. Good(c)
    BY <1>1, <1>3, <1>5, <2>1 DEF Good, WellTyped, Applying, HasStaged, HasEntry, Applies
  <2>4. Reported(c, p, lock', mutex')
    BY <1>2, <1>5, <2>1 DEF Reported
  <2>5. WorldOK'
    BY <1>1, <1>2, <1>3, <1>5 DEF WorldOK, Files, Rest, Fine
  <2> QED BY <1>2, <2>2, <2>3, <2>4, <2>5, SoundFrame
<1>6. CASE Goto(p, "write") /\ UNCHANGED machine
  <2>1. [proc[p] EXCEPT !.pc = "write"] = [proc[p] EXCEPT !.pc = "write", !.lf = lock]
    BY <1>2 DEF Ind, Shape, Fields
  <2> QED BY <1>3, <1>5, <1>6, <2>1 DEF Goto, WorldOK
<1>7. ASSUME NEW i \in DOMAIN proc[p].lf.packages, NEW v \in Versions,
             machine' = [machine EXCEPT ![proc[p].lf.packages[i].manager][proc[p].lf.packages[i].id] = v],
             Become(p, [proc[p] EXCEPT !.pc = "write", !.lf.packages[i].version = v])
      PROVE  Sound'
  <2> DEFINE ps == lock.packages
             e == [ps[i] EXCEPT !.version = v]
             lf == [lock EXCEPT !.packages = [ps EXCEPT ![i] = e]]
  <2>1. ps \in Seq(Entry) /\ i \in DOMAIN ps /\ lock \in LockFile
    BY <1>2, <1>3, <1>7 DEF WorldOK, LockFile
  <2>2. ps[i] \in Entry
    BY <2>1
  <2>3. e \in Entry /\ e.id = ps[i].id
    BY <2>2 DEF Entry
  <2>4. machine' \in Machine
    BY <1>2, <1>3, <1>7, <2>2 DEF WorldOK, Machine, Entry
  <2>5. Become(p, [proc[p] EXCEPT !.pc = "write", !.lf = lf])
    BY <1>2, <1>7 DEF Ind, Shape, Fields
  <2> HIDE DEF e
  <2> DEFINE qs == [ps EXCEPT ![i] = e]
  <2>6. qs \in Seq(Entry) /\ DOMAIN qs = DOMAIN ps /\ \A j \in DOMAIN ps : qs[j].id = ps[j].id
    BY <2>1, <2>3
  <2> HIDE DEF qs
  <2>7. lf \in LockFile /\ lf.packages = qs
    BY <2>1, <2>6 DEF LockFile, qs
  <2>8. LockedIds(lf.packages) = LockedIds(lock.packages)
    BY <2>6, <2>7 DEF LockedIds
  <2> HIDE DEF lf
  <2> QED BY <1>5, <2>4, <2>5, <2>7, <2>8
<1> QED BY <1>4, <1>6, <1>7 DEF Upgrade

\* The lock that a command writes: well-formed, true to the spec if an apply has
\* met no failure, and without an id only if it is the one to be taken out.
LEMMA NewLockLemma ==
    ASSUME WorldOK, NEW c, Good(c), c.pc = "write", NEW success \in BOOLEAN, NEW answering
    PROVE  LET new == NewLock(c, success, answering)
           IN  /\ new \in LockFile
               /\ c.cmd \in Applies /\ success /\ c.failed = FALSE => Matches(c, new)
               /\ \A id \in LockedIds(c.lf.packages) \ LockedIds(new.packages) :
                     \/ c.cmd \in {"remove", "disown"} /\ id = c.id
                     \/ c.cmd \in Applies /\ id \in c.uninstalled
               /\ c.cmd \in {"add", "adopt", "scan"} \cup Applies =>
                     LockedIds(c.entries) \subseteq LockedIds(new.packages)
<1> DEFINE new == NewLock(c, success, answering)
<1>1. /\ c.lf \in LockFile /\ c.lf.packages \in Seq(Entry) /\ c.lf.target \in Targets \cup {None}
      /\ c.entries \in Seq(Entry) /\ c.target \in Targets
  BY DEF Good, WellTyped, LockFile
<1>2. CASE c.cmd \in {"add", "adopt", "scan"}
  <2>1. new = [[c.lf EXCEPT !.packages = c.lf.packages \o c.entries] EXCEPT !.target = c.target]
    BY <1>2 DEF NewLock, Stamped, Applies
  <2>2. c.lf.packages \o c.entries \in Seq(Entry)
        /\ ToSet(c.lf.packages \o c.entries) = ToSet(c.lf.packages) \cup ToSet(c.entries)
    BY <1>1, ToSetConcat
  <2>3. LockedIds(c.lf.packages) \cup LockedIds(c.entries) \subseteq LockedIds(c.lf.packages \o c.entries)
    <3> DEFINE ps == c.lf.packages \o c.entries
    <3>1. LockedIds(ps) = {e.id : e \in ToSet(ps)}
      <4> HIDE DEF ps
      <4> QED BY <2>2, LockedIdsLemma DEF ps
    <3>2. /\ LockedIds(c.lf.packages) = {e.id : e \in ToSet(c.lf.packages)}
          /\ LockedIds(c.entries) = {e.id : e \in ToSet(c.entries)}
      BY <1>1, LockedIdsLemma
    <3>3. ToSet(c.lf.packages) \subseteq ToSet(ps) /\ ToSet(c.entries) \subseteq ToSet(ps)
      BY <2>2
    <3> HIDE DEF ps
    <3>4. LockedIds(c.lf.packages) \cup LockedIds(c.entries) \subseteq LockedIds(ps)
      BY <3>1, <3>2, <3>3
    <3> QED BY <3>4 DEF ps
  <2>4. new \in LockFile /\ new.packages = c.lf.packages \o c.entries
    BY <1>1, <2>1, <2>2 DEF LockFile
  <2> HIDE DEF new
  <2>5. c.cmd \notin Applies
    BY <1>2 DEF Applies
  <2> QED BY <2>3, <2>4, <2>5 DEF new
<1>3. CASE c.cmd \in {"remove", "disown"}
  <2>1. new = [c.lf EXCEPT !.packages = Without(c.lf.packages, c.id)]
    BY <1>3 DEF NewLock, Applies
  <2>2. /\ Without(c.lf.packages, c.id) \in Seq(Entry)
        /\ LockedIds(Without(c.lf.packages, c.id)) = LockedIds(c.lf.packages) \ {c.id}
    BY <1>1, WithoutLemma
  <2>3. new \in LockFile /\ new.packages = Without(c.lf.packages, c.id)
    BY <1>1, <2>1, <2>2 DEF LockFile
  <2> HIDE DEF new
  <2>4. c.cmd \notin Applies
    BY <1>3 DEF Applies
  <2> QED BY <1>3, <2>2, <2>3, <2>4 DEF new
<1>4. CASE c.cmd \in Applies
  <2> DEFINE desired == c.staged[c.target]
             after == LockAfterApply(c.lf.packages, c.plan, c.entries, c.uninstalled)
             filled == FillMissingInstalledVersions(after, machine, answering)
             left == LockedIds(c.plan.remove) \ c.uninstalled
  <2>1. new = IF success THEN [[c.lf EXCEPT !.packages = filled] EXCEPT !.target = c.target]
                         ELSE [c.lf EXCEPT !.packages = filled]
    BY <1>4 DEF NewLock, Stamped, Applies
  <2>2. /\ IsTable(desired) /\ PlanIsSound(desired, c.lf.packages, Available, c.plan)
        /\ LockedIds(c.entries) \subseteq DOMAIN c.plan.install
        /\ c.failed \/ left = {}
        /\ c.failed \/ Wanted(c.plan) \subseteq LockedIds(c.entries)
    BY <1>4 DEF Good, Applying, CarriesOut
  <2>3. /\ after \in Seq(Entry)
        /\ LockedIds(c.lf.packages) \subseteq LockedIds(after) \cup c.uninstalled
        /\ LockedIds(c.plan.unchanged) \cup LockedIds(c.plan.adopted) \cup LockedIds(c.entries)
              \subseteq LockedIds(after)
        /\ \A e \in ToSet(after) : e.manager \in Registered => e.id \in DOMAIN desired \cup left
    <3>1. DOMAIN desired \subseteq Ids
      BY <2>2 DEF IsTable
    <3> HIDE DEF desired
    <3> QED BY <1>1, <2>2, <3>1, LockAfterApplyLemma
  <2> HIDE DEF after
  <2>4. /\ filled \in Seq(Entry) /\ DOMAIN filled = DOMAIN after
        /\ \A i \in DOMAIN after : filled[i].id = after[i].id /\ filled[i].manager = after[i].manager
        /\ LockedIds(filled) = LockedIds(after)
    BY <2>3, FillLemma DEF WorldOK
  <2> HIDE DEF filled
  <2>5. /\ new \in LockFile /\ new.packages = filled
        /\ success => new.target = c.target
    BY <1>1, <2>1, <2>4 DEF LockFile
  <2> HIDE DEF new
  <2>6. \A i \in DOMAIN filled : filled[i].manager \in Registered => filled[i].id \in DOMAIN desired \cup left
    <3> SUFFICES ASSUME NEW i \in DOMAIN filled, filled[i].manager \in Registered
                 PROVE  filled[i].id \in DOMAIN desired \cup left
      OBVIOUS
    <3>1. after[i] \in ToSet(after) /\ after[i].manager \in Registered
      BY <2>4 DEF ToSet
    <3> HIDE DEF desired, left
    <3>2. after[i].id \in DOMAIN desired \cup left
      BY <2>3, <3>1
    <3> QED BY <2>4, <3>2
  <2>7. ASSUME success, c.failed = FALSE PROVE Matches(c, new)
    <3>1. \A id \in DOMAIN desired : Resolve(desired[id], Available) # None => id \in LockedIds(after)
      <4> SUFFICES ASSUME NEW id \in DOMAIN desired, Resolve(desired[id], Available) # None,
                          id \in DOMAIN c.plan.install
                   PROVE  id \in LockedIds(c.entries)
        BY <2>2, <2>3 DEF PlanIsSound
      <4>1. c.plan.install[id] # None
        BY <2>2 DEF PlanIsSound
      <4> QED BY <2>2, <2>7, <4>1 DEF Wanted
    <3>2. left = {}
      BY <2>2, <2>7
    <3>3. \A i \in DOMAIN new.packages :
             new.packages[i].manager \in Registered => new.packages[i].id \in DOMAIN desired
      <4> HIDE DEF left, desired
      <4> QED BY <2>5, <2>6, <3>2
    <3>4. {id \in DOMAIN desired : Resolve(desired[id], Available) # None} \subseteq LockedIds(new.packages)
      <4> HIDE DEF desired
      <4> QED BY <2>4, <2>5, <3>1
    <3>5. new.target = c.target
      BY <2>5, <2>7
    <3> QED BY <3>3, <3>4, <3>5 DEF Matches
  <2>8. \A id \in LockedIds(c.lf.packages) \ LockedIds(new.packages) : id \in c.uninstalled
    BY <2>3, <2>4, <2>5
  <2>9. LockedIds(c.entries) \subseteq LockedIds(new.packages)
    BY <2>3, <2>4, <2>5
  <2> QED BY <1>4, <2>5, <2>7, <2>8, <2>9 DEF new
<1>5. CASE c.cmd \notin {"add", "adopt", "scan", "remove", "disown"} \cup Applies
  <2>1. new = c.lf
    BY <1>5 DEF NewLock, Applies
  <2> QED BY <1>1, <1>5, <2>1
<1> QED BY <1>2, <1>3, <1>4, <1>5

\* A write leaves the old lock, or the new one of a command that ends.
LEMMA WriteLockLemma ==
    ASSUME Ind, Sound, NEW p \in Procs, WriteLock(p)
    PROVE  /\ \E code \in {"ok", "logic", "io"} : Exit(p, code) /\
                \/ lock' = lock /\ code # "ok"
                \/ \E success \in BOOLEAN : \E answering \in {Available, {}} :
                     /\ lock' = NewLock(proc[p], success, answering)
                     /\ code = "ok" /\ proc[p].cmd \in Applies => success /\ proc[p].failed = FALSE
           /\ proc[p].pc = "write" /\ UNCHANGED <<spec, machine, Rest>>
           /\ Fine \/ \E fault : May(fault)
<1> DEFINE c == proc[p]
<1>1. Good(c) /\ c.pc = "write" /\ UNCHANGED <<spec, machine, Rest>>
  BY DEF Sound, WriteLock
<1>2. c.cmd \in Applies => c.failed \in BOOLEAN
  BY <1>1 DEF Good, Applying, CarriesOut
<1>3. ASSUME NEW answering \in {Available, {}}, Fine \/ May("list"),
             lock' = NewLock(c, ~c.failed, answering), Exit(p, IF c.failed THEN "logic" ELSE "ok")
      PROVE  /\ \E code \in {"ok", "logic"} : Exit(p, code) /\
                  \E success \in BOOLEAN :
                     /\ lock' = NewLock(proc[p], success, answering)
                     /\ code = "ok" /\ proc[p].cmd \in Applies => success /\ proc[p].failed = FALSE
             /\ Fine \/ \E fault : May(fault)
  <2>1. CASE c.failed
    <3>1. (~c.failed) = FALSE
      BY <2>1
    <3>2. lock' = NewLock(c, FALSE, answering) /\ Exit(p, "logic")
      BY <1>3, <2>1, <3>1
    <3> QED BY <1>3, <3>2
  <2>2. CASE ~c.failed
    <3>1. (~c.failed) = TRUE /\ (c.cmd \in Applies => c.failed = FALSE)
      BY <1>2, <2>2
    <3>2. lock' = NewLock(c, TRUE, answering) /\ Exit(p, "ok")
      BY <1>3, <2>2, <3>1
    <3> QED BY <1>3, <3>1, <3>2
  <2> QED BY <2>1, <2>2
<1>4. CASE Fine /\ lock' = NewLock(c, ~c.failed, Available) /\ Exit(p, IF c.failed THEN "logic" ELSE "ok")
  BY <1>1, <1>3, <1>4
<1>5. CASE May("list") /\ lock' = NewLock(c, ~c.failed, {}) /\ Exit(p, IF c.failed THEN "logic" ELSE "ok")
  BY <1>1, <1>3, <1>5
<1>6. CASE May("hook") /\ lock' = NewLock(c, TRUE, Available) /\ Exit(p, "logic")
  BY <1>1, <1>6
<1>7. CASE May("other") /\ lock' \in {NewLock(c, FALSE, Available), lock} /\ Exit(p, "logic")
  BY <1>1, <1>7
<1>8. CASE May("lockfile") /\ Exit(p, "io") /\ UNCHANGED lock
  BY <1>1, <1>8
<1> QED BY <1>4, <1>5, <1>6, <1>7, <1>8 DEF WriteLock

LEMMA WriteLockSound == ASSUME Ind, Sound, NEW p \in Procs, WriteLock(p) PROVE Sound'
<1>1. PICK code \in {"ok", "logic", "io"} : Exit(p, code) /\
         \/ lock' = lock /\ code # "ok"
         \/ \E success \in BOOLEAN : \E answering \in {Available, {}} :
              /\ lock' = NewLock(proc[p], success, answering)
              /\ code = "ok" /\ proc[p].cmd \in Applies => success /\ proc[p].failed = FALSE
  BY WriteLockLemma
<1>2. proc[p].pc = "write" /\ UNCHANGED <<spec, machine, Rest>> /\ (Fine \/ \E fault : May(fault))
  BY WriteLockLemma
<1>3. Good(proc[p]) /\ WorldOK
  BY DEF Sound
<1>4. mutex = p /\ mutex' = mutex
  BY <1>2 DEF Ind, Within, Rest
<1>5. /\ lock' \in LockFile
      /\ code = "ok" /\ proc[p].cmd \in Applies => Matches(proc[p], lock')
  <2>1. CASE lock' = lock /\ code # "ok"
    BY <1>3, <2>1 DEF WorldOK
  <2>2. ASSUME NEW success \in BOOLEAN, NEW answering, lock' = NewLock(proc[p], success, answering),
               code = "ok" /\ proc[p].cmd \in Applies => success /\ proc[p].failed = FALSE
        PROVE  /\ lock' \in LockFile
               /\ code = "ok" /\ proc[p].cmd \in Applies => Matches(proc[p], lock')
    BY <1>2, <1>3, <2>2, NewLockLemma
  <2> QED BY <1>1, <2>1, <2>2
<1>6. mine' \subseteq mine
  BY DEF WriteLock
<1>7. WorldOK'
  BY <1>2, <1>3, <1>5, <1>6, Counted DEF WorldOK, Rest
<1> DEFINE c == [proc[p] EXCEPT !.pc = "done", !.exit = code]
<1>8. /\ c.pc = "done" /\ c.exit = code /\ c.lf = proc[p].lf /\ c.entries = proc[p].entries
      /\ c.cmd = proc[p].cmd /\ c.target = proc[p].target /\ c.id = proc[p].id
      /\ c.pkg = proc[p].pkg /\ c.plan = proc[p].plan /\ c.staged = proc[p].staged
  BY DEF Ind, Shape, Fields
<1>9. Become(p, c)
  BY <1>1 DEF Exit
<1> HIDE DEF c
<1>10. Good(c)
  BY <1>2, <1>3, <1>8 DEF Good, WellTyped, Applying, HasStaged, HasEntry
<1>11. Reported(c, p, lock', mutex')
  BY <1>4, <1>5, <1>8 DEF Reported, Matches
<1> QED BY <1>4, <1>7, <1>9, <1>10, <1>11, SoundFrame

LEMMA EditSpecSound == ASSUME Sound, EditSpec PROVE Sound'
<1>1. PICK t \in Targets, id \in Ids :
         spec' \in {Undeclare(t, id)} \cup {Declare(t, Just(id, pkg)) : pkg \in Packages}
  BY DEF EditSpec
<1>2. IsSpecFile(spec')
  <2>1. CASE spec' = Undeclare(t, id)
    BY <2>1, UndeclareLemma DEF Sound, WorldOK
  <2>2. ASSUME NEW pkg \in Packages, spec' = Declare(t, Just(id, pkg)) PROVE IsSpecFile(spec')
    BY <2>2, JustLemma, DeclareLemma, CommandsAssumption DEF Sound, WorldOK
  <2> QED BY <1>1, <2>1, <2>2
<1>3. WorldOK'
  BY <1>2, Counted DEF EditSpec, Sound, WorldOK, World, Rest
<1>4. proc' = proc /\ lock' = lock /\ mutex' = mutex
  BY DEF EditSpec, Rest
<1> QED BY <1>3, <1>4 DEF Sound

LEMMA ByHandSound == ASSUME Sound, ByHand PROVE Sound'
<1>1. PICK m \in Managers, id \in Ids : Take(m, id)
  BY DEF ByHand
<1>2. machine' \in Machine /\ mine' \subseteq Managers \X Ids \X Targets
  BY <1>1, TakeLemma DEF Sound
<1>3. WorldOK'
  BY <1>2, Counted DEF ByHand, Sound, WorldOK, Files, Rest
<1>4. proc' = proc /\ lock' = lock /\ mutex' = mutex
  BY DEF ByHand, Rest, Files
<1> QED BY <1>3, <1>4 DEF Sound

LEMMA SoundStays == ASSUME Ind, Sound, [Next]_vars PROVE Sound'
<1>1. ASSUME NEW p \in Procs, Step(p) PROVE Sound'
  BY <1>1, BeginSound, LockMutationSound, ReadLockSound, WriteSpecSound, WriteLockSound,
     ReturnSound, AddStageSound, AddInstallSound, AdoptStageSound, AdoptQuerySound,
     AdoptCheckSound, AdoptPrepareSound, RemoveStageSound, RemoveUninstallSound,
     DisownStageSound, ScanStageSound, ApplyPlanSound, ApplyRemoveSound, ApplyInstallSound,
     UpgradeSound, CrashSound DEF Step
<1>2. CASE UNCHANGED vars
  BY <1>2 DEF vars, Sound, WorldOK
<1> QED BY <1>1, <1>2, EditSpecSound, ByHandSound DEF Next

LEMMA SoundInvariance == Spec => [](Ind /\ Sound)
<1>1. Init => Ind /\ Sound
  BY Initially, InitiallySound
<1>2. Ind /\ Sound /\ [Next]_vars => Ind' /\ Sound'
  BY Preserves, SoundStays
<1> QED BY <1>1, <1>2, PTL DEF Spec

LEMMA SoundImpliesTrue == ASSUME Sound PROVE ApplyIsTrue
<1>1. TypeOK
  <2>1. lock.target \in Targets \cup {None} /\ lock.packages \in Seq(Entry)
    BY DEF Sound, WorldOK, LockFile
  <2>2. \A p \in Procs : /\ proc[p].entries \in Seq(Entry) /\ proc[p].lf.packages \in Seq(Entry)
                         /\ proc[p].exit \in {"none", "ok", "logic", "io"}
    BY DEF Sound, Good, WellTyped, LockFile
  <2> QED BY <2>1, <2>2 DEF Sound, WorldOK, TypeOK, IsSpecFile, IsTable
<1>2. AppliedMatchesSpec
  BY DEF Sound, Reported, Matches, AppliedMatchesSpec, At
<1> QED BY <1>1, <1>2 DEF ApplyIsTrue

\* When an apply reports success the lock names exactly the packages of the spec
\* it read, but for those that no manager can provide and those whose manager has
\* no adapter, and it is stamped with the target: for any number of processes
\* that run any commands at the same time, whatever fails, dies or is edited.
THEOREM ApplyMatchesSpec == Spec => []ApplyIsTrue
BY SoundInvariance, SoundImpliesTrue, PTL

(***************************************************************************)
(* What a step may not do: forget an entry, or uninstall a package, that   *)
(* it was not asked to.                                                    *)
(***************************************************************************)
\* Only the write of the lock and a forced apply, which moves a foreign lock
\* aside, change the lock.
LEMMA LockWriters ==
    ASSUME NEW p \in Procs, Step(p), lock' # lock
    PROVE  WriteLock(p) \/ ApplyPlan(p)
<1>1. ~Begin(p) /\ ~LockMutation(p) /\ ~ReadLock(p) /\ ~WriteSpec(p) /\ ~Return(p) /\ ~Crash(p)
  BY DEF Begin, LockMutation, ReadLock, WriteSpec, Return, Crash, Files
<1>2. ~AddStage(p) /\ ~AddInstall(p) /\ ~AdoptStage(p) /\ ~AdoptQuery(p) /\ ~AdoptCheck(p) /\ ~AdoptPrepare(p)
  BY DEF AddStage, AddInstall, AdoptStage, AdoptQuery, AdoptCheck, AdoptPrepare, Files
<1>3. ~RemoveStage(p) /\ ~RemoveUninstall(p) /\ ~DisownStage(p) /\ ~ScanStage(p)
  BY DEF RemoveStage, RemoveUninstall, DisownStage, ScanStage, Files
<1>4. ~ApplyRemove(p) /\ ~ApplyInstall(p) /\ ~Upgrade(p)
  BY DEF ApplyRemove, ApplyInstall, Upgrade, Files
<1> QED BY <1>1, <1>2, <1>3, <1>4 DEF Step

\* Only an add and an apply install, only a remove and an apply uninstall, and an
\* upgrade puts one version in the place of another.
LEMMA MachineWriters ==
    ASSUME NEW p \in Procs, Step(p), machine' # machine
    PROVE  AddInstall(p) \/ RemoveUninstall(p) \/ ApplyRemove(p) \/ ApplyInstall(p) \/ Upgrade(p)
<1>1. ~Begin(p) /\ ~LockMutation(p) /\ ~ReadLock(p) /\ ~WriteSpec(p) /\ ~Return(p) /\ ~Crash(p) /\ ~WriteLock(p)
  BY DEF Begin, LockMutation, ReadLock, WriteSpec, WriteLock, Return, Crash, World
<1>2. ~AddStage(p) /\ ~AdoptStage(p) /\ ~AdoptQuery(p) /\ ~AdoptCheck(p) /\ ~AdoptPrepare(p)
  BY DEF AddStage, AdoptStage, AdoptQuery, AdoptCheck, AdoptPrepare, World
<1>3. ~RemoveStage(p) /\ ~DisownStage(p) /\ ~ScanStage(p) /\ ~ApplyPlan(p)
  BY DEF RemoveStage, DisownStage, ScanStage, ApplyPlan, World
<1> QED BY <1>1, <1>2, <1>3 DEF Step

OnPurpose(p, id) ==
    /\ mutex = p /\ proc'[p] # proc[p]
    /\ \/ proc[p].cmd \in {"remove", "disown"} /\ proc[p].id = id
       \/ proc[p].cmd \in Applies /\ id \in proc[p].uninstalled
       \/ At(p, {"forced"}, "plan")

LEMMA WriteForgets ==
    ASSUME Ind, Sound, NEW p \in Procs, WriteLock(p), NEW id \in LockedIds(lock.packages) \ LockedIds(lock'.packages)
    PROVE  OnPurpose(p, id)
<1>1. PICK code \in {"ok", "logic", "io"} : Exit(p, code) /\
         \/ lock' = lock /\ code # "ok"
         \/ \E success \in BOOLEAN : \E answering \in {Available, {}} : lock' = NewLock(proc[p], success, answering)
  BY WriteLockLemma
<1>2. proc[p].pc = "write"
  BY DEF WriteLock
<1>3. mutex = p /\ (proc[p].lf = lock \/ proc[p].cmd = "upgrade")
  BY <1>2 DEF Ind, Within, Current
<1>4. Good(proc[p]) /\ WorldOK /\ LockedIds(proc[p].lf.packages) = LockedIds(lock.packages)
  BY <1>2, <1>3 DEF Sound, Reported
<1>5. proc'[p] # proc[p]
  <2>1. proc'[p] = [proc[p] EXCEPT !.pc = "done", !.exit = code] /\ DOMAIN proc[p] = Fields
    BY <1>1 DEF Exit, Become, Ind, Shape
  <2>2. proc'[p].pc = "done"
    BY <2>1 DEF Fields
  <2> QED BY <1>2, <2>2
<1>6. PICK success \in BOOLEAN, answering \in {Available, {}} : lock' = NewLock(proc[p], success, answering)
  BY <1>1
<1>7. \/ proc[p].cmd \in {"remove", "disown"} /\ id = proc[p].id
      \/ proc[p].cmd \in Applies /\ id \in proc[p].uninstalled
  BY <1>2, <1>4, <1>6, NewLockLemma
<1> QED BY <1>3, <1>5, <1>7 DEF OnPurpose

LEMMA PlanForgets ==
    ASSUME Ind, NEW p \in Procs, ApplyPlan(p), lock' # lock, NEW id
    PROVE  OnPurpose(p, id)
<1>1. proc[p].pc = "plan" /\ proc[p].cmd = "forced"
  BY DEF ApplyPlan, At, Applies
<1>2. mutex = p
  BY <1>1 DEF Ind, Within
<1>3. ASSUME NEW c, c.pc # "plan", Become(p, c) PROVE proc'[p] # proc[p]
  BY <1>1, <1>3 DEF Become, Ind, Shape
<1>4. ASSUME NEW code, Exit(p, code) PROVE proc'[p] # proc[p]
  <2> DEFINE c == [proc[p] EXCEPT !.pc = "done", !.exit = code]
  <2>1. c.pc = "done"
    BY DEF Ind, Shape, Fields
  <2>2. Become(p, c)
    BY <1>4 DEF Exit
  <2> HIDE DEF c
  <2> QED BY <1>3, <2>1, <2>2
<1>5. ASSUME NEW lf, NEW plan, NEW st, NEW todo,
             Become(p, Installing([proc[p] EXCEPT !.pc = "remove", !.lf = lf, !.plan = plan,
                                       !.staged = st, !.todo = todo]))
      PROVE  proc'[p] # proc[p]
  <2> DEFINE b == [proc[p] EXCEPT !.pc = "remove", !.lf = lf, !.plan = plan, !.staged = st, !.todo = todo]
             c == Installing(b)
  <2>1. DOMAIN b = Fields /\ b.pc = "remove"
    BY DEF Ind, Shape, Fields
  <2> HIDE DEF b
  <2>2. c.pc \in {"remove", "write", "install"}
    BY <2>1 DEF Installing, Fields
  <2>3. Become(p, c)
    BY <1>5 DEF b
  <2> HIDE DEF c
  <2> QED BY <1>3, <2>2, <2>3
<1>6. proc'[p] # proc[p]
  BY <1>4, <1>5 DEF ApplyPlan
<1> QED BY <1>1, <1>2, <1>6 DEF OnPurpose, At

LEMMA NothingForgotten ==
    ASSUME Ind, Sound, [Next]_vars, NEW id \in LockedIds(lock.packages) \ LockedIds(lock'.packages)
    PROVE  \E p \in Procs : OnPurpose(p, id)
<1>1. lock' # lock
  OBVIOUS
<1>2. ~EditSpec /\ ~ByHand /\ ~UNCHANGED vars
  BY <1>1 DEF EditSpec, ByHand, Files, vars
<1>3. PICK p \in Procs : Step(p)
  BY <1>2 DEF Next
<1>4. WriteLock(p) \/ ApplyPlan(p)
  BY <1>1, <1>3, LockWriters
<1> QED BY <1>1, <1>4, WriteForgets, PlanForgets

\* A package leaves the lock only by the command meant for it: no writer loses an
\* entry that another command has appended, and no failure, death or edit drops
\* the entry of what is still to be done.
THEOREM NothingIsForgotten == Spec => ForgetsOnlyOnPurpose
<1>1. Ind /\ Sound /\ [Next]_vars =>
         [\A id \in LockedIds(lock.packages) \ LockedIds(lock'.packages) :
             \E p \in Procs :
                /\ mutex = p /\ proc'[p] # proc[p]
                /\ \/ proc[p].cmd \in {"remove", "disown"} /\ proc[p].id = id
                   \/ proc[p].cmd \in Applies /\ id \in proc[p].uninstalled
                   \/ At(p, {"forced"}, "plan")]_vars
  BY NothingForgotten DEF OnPurpose
<1> QED BY <1>1, SoundInvariance, PTL DEF Spec, ForgetsOnlyOnPurpose

\* The lock tracks this copy.
Tracks(m, id) == \E i \in DOMAIN lock.packages : lock.packages[i].manager = m /\ lock.packages[i].id = id

LEMMA TakesOnlyTracked ==
    ASSUME Ind, Sound, [Next]_vars, NEW m \in Managers, NEW id \in Ids,
           machine[m][id] # None, machine'[m][id] = None, proc' # proc
    PROVE  Tracks(m, id)
<1>1. machine' # machine
  OBVIOUS
<1>2. ~EditSpec /\ ~ByHand /\ ~UNCHANGED vars
  BY <1>1 DEF EditSpec, ByHand, vars
<1>3. PICK p \in Procs : Step(p)
  BY <1>2 DEF Next
<1>4. Good(proc[p]) /\ machine \in Machine
  BY DEF Sound, WorldOK
<1>5. ASSUME NEW mm, NEW ii, NEW v \in Versions, machine' = [machine EXCEPT ![mm][ii] = v] PROVE FALSE
  BY <1>4, <1>5, ReconcileAssumption DEF Machine
<1>6. ASSUME NEW e, Take(e.manager, e.id) PROVE m = e.manager /\ id = e.id
  BY <1>4, <1>6 DEF Take, Machine
<1>7. CASE AddInstall(p)
  BY <1>1, <1>5, <1>7 DEF AddInstall, Put, World
<1>8. CASE ApplyInstall(p)
  BY <1>1, <1>5, <1>8 DEF ApplyInstall, Put, World
<1>9. CASE Upgrade(p)
  <2>1. PICK i \in DOMAIN proc[p].lf.packages, v \in Versions :
           machine' = [machine EXCEPT ![proc[p].lf.packages[i].manager][proc[p].lf.packages[i].id] = v]
    BY <1>1, <1>9 DEF Upgrade
  <2> QED BY <1>5, <2>1
<1>10. CASE RemoveUninstall(p)
  <2> DEFINE e == LastEntry(proc[p].lf.packages, proc[p].id)
  <2>1. Take(e.manager, e.id) /\ proc[p].pc = "uninstall"
    BY <1>1, <1>10 DEF RemoveUninstall, World, At
  <2>2. proc[p].lf = lock
    BY <2>1 DEF Ind, Within, Current
  <2>3. e \in ToSet(lock.packages)
    BY <1>4, <2>1, <2>2, LastEntryLemma DEF Good, WellTyped, LockFile
  <2> HIDE DEF e
  <2>4. m = e.manager /\ id = e.id
    BY <1>6, <2>1
  <2> QED BY <2>3, <2>4 DEF ToSet, Tracks
<1>11. CASE ApplyRemove(p)
  <2> DEFINE e == Head(proc[p].todo)
  <2>1. Take(e.manager, e.id) /\ proc[p].pc = "remove" /\ proc[p].cmd \in Applies
    BY <1>1, <1>11 DEF ApplyRemove, World, At
  <2>2. proc[p].lf = lock
    BY <2>1 DEF Ind, Within, Current
  <2>3. /\ PlanIsSound(proc[p].staged[proc[p].target], lock.packages, Available, proc[p].plan)
        /\ proc[p].todo \in Seq(Entry) /\ proc[p].todo # <<>>
        /\ ToSet(proc[p].todo) \subseteq ToSet(proc[p].plan.remove)
    BY <1>4, <2>1, <2>2 DEF Good, Applying, CarriesOut
  <2>4. e \in ToSet(proc[p].plan.remove)
    BY <2>3, ToSetTail
  <2>5. e \in ToSet(lock.packages)
    BY <2>3, <2>4 DEF PlanIsSound
  <2> HIDE DEF e
  <2>6. m = e.manager /\ id = e.id
    BY <1>6, <2>1
  <2> QED BY <2>5, <2>6 DEF ToSet, Tracks
<1> QED BY <1>1, <1>3, <1>7, <1>8, <1>9, <1>10, <1>11, MachineWriters

\* genv uninstalls only what the lock on disk tracks, under that very manager, at
\* that very moment, however many commands run at the same time.
THEOREM OnlyTrackedIsTaken == Spec => UninstallsOnlyLocked
<1>1. Ind /\ Sound /\ [Next]_vars =>
         [\A m \in Managers, id \in Ids :
             machine[m][id] # None /\ machine'[m][id] = None /\ proc' # proc
                => \E i \in DOMAIN lock.packages :
                      lock.packages[i].manager = m /\ lock.packages[i].id = id]_vars
  BY TakesOnlyTracked DEF Tracks
<1> QED BY <1>1, SoundInvariance, PTL DEF Spec, UninstallsOnlyLocked

(***************************************************************************)
(* Two invariants that need a hypothesis.  First, where a step takes a     *)
(* command: to the write of the spec by a remove, or into the removals or  *)
(* installs of an apply, only by the steps that are meant to.              *)
(***************************************************************************)
Elsewhere(c) ==
    /\ ~(c.pc = "spec" /\ c.cmd = "remove")
    /\ ~(c.pc \in {"remove", "install"} /\ c.cmd \in Applies)
    /\ ~(c.pc = "write" /\ c.cmd \in Applies \cup {"remove"})

LEMMA Becomes ==
    ASSUME Ind, NEW p \in Procs, NEW c, Become(p, c)
    PROVE  proc'[p] = c /\ \A q \in Procs \ {p} : proc'[q] = proc[q]
BY DEF Ind, Shape, Become

LEMMA ExitElsewhere ==
    ASSUME Ind, NEW p \in Procs, NEW code, Exit(p, code)
    PROVE  Elsewhere(proc'[p]) /\ \A q \in Procs \ {p} : proc'[q] = proc[q]
<1> DEFINE c == [proc[p] EXCEPT !.pc = "done", !.exit = code]
<1>1. c.pc = "done"
  BY DEF Ind, Shape, Fields
<1>2. Become(p, c)
  BY DEF Exit
<1> HIDE DEF c
<1> QED BY <1>1, <1>2, Becomes DEF Elsewhere

\* A step that only moves on and sets other fields.
LEMMA GoesElsewhere ==
    ASSUME Ind, NEW p \in Procs, NEW c, Become(p, c), Elsewhere(c)
    PROVE  Elsewhere(proc'[p]) /\ \A q \in Procs \ {p} : proc'[q] = proc[q]
BY Becomes

LEMMA OthersStay ==
    ASSUME Ind, Sound, NEW p \in Procs, Step(p)
    PROVE  /\ \A q \in Procs \ {p} : proc'[q] = proc[q]
           /\ \/ ReadLock(p) \/ WriteSpec(p) \/ RemoveUninstall(p)
              \/ ApplyPlan(p) \/ ApplyRemove(p) \/ ApplyInstall(p)
              \/ Elsewhere(proc'[p])
<1> USE DEF Elsewhere
<1> DEFINE Fine1 == Elsewhere(proc'[p]) /\ \A q \in Procs \ {p} : proc'[q] = proc[q]
<1>1. DOMAIN proc[p] = Fields
  BY WellFormed
<1>2. CASE Begin(p)
  <2>1. PICK cmd, t, id, pkg :
           Become(p, [Idle EXCEPT !.pc = IF cmd \in Applies \cup {"upgrade"} THEN "lock" ELSE "stage",
                                  !.cmd = cmd, !.target = t, !.id = id, !.pkg = pkg])
    BY <1>2 DEF Begin
  <2> DEFINE c == [Idle EXCEPT !.pc = IF cmd \in Applies \cup {"upgrade"} THEN "lock" ELSE "stage",
                               !.cmd = cmd, !.target = t, !.id = id, !.pkg = pkg]
  <2>2. c.pc \in {"lock", "stage"} /\ Become(p, c)
    BY <2>1 DEF Idle
  <2> HIDE DEF c
  <2> QED BY <2>2, GoesElsewhere
<1>3. CASE Return(p) \/ Crash(p)
  BY <1>3, GoesElsewhere DEF Return, Crash, Idle
<1>4. ASSUME NEW pc1 \in {"read", "lock", "prepare"}, Goto(p, pc1) PROVE Fine1
  <2> DEFINE c == [proc[p] EXCEPT !.pc = pc1]
  <2>1. c.pc = pc1 /\ Become(p, c)
    BY <1>1, <1>4 DEF Goto, Fields
  <2> HIDE DEF c
  <2> QED BY <2>1, GoesElsewhere
<1>5. ASSUME NEW code, Exit(p, code) PROVE Fine1
  BY <1>5, ExitElsewhere
<1>6. CASE LockMutation(p)
  BY <1>4, <1>6 DEF LockMutation
<1>8. CASE WriteLock(p)
  BY <1>5, <1>8 DEF WriteLock
<1>9. CASE AddStage(p)
  <2>1. proc[p].cmd = "add"
    BY <1>9 DEF AddStage, At
  <2>2. ASSUME NEW st, NEW es, Become(p, [proc[p] EXCEPT !.pc = "install", !.staged = st, !.entries = es])
        PROVE  Fine1
    <3> DEFINE c == [proc[p] EXCEPT !.pc = "install", !.staged = st, !.entries = es]
    <3>1. c.pc = "install" /\ c.cmd = "add" /\ Become(p, c)
      BY <1>1, <2>1, <2>2 DEF Fields
    <3> HIDE DEF c
    <3> QED BY <3>1, GoesElsewhere DEF Applies
  <2> QED BY <1>5, <1>9, <2>2 DEF AddStage
<1>10. CASE AddInstall(p)
  <2>1. proc[p].cmd = "add"
    BY <1>10 DEF AddInstall, At
  <2>2. ASSUME Goto(p, "spec") PROVE Fine1
    <3> DEFINE c == [proc[p] EXCEPT !.pc = "spec"]
    <3>1. c.pc = "spec" /\ c.cmd = "add" /\ Become(p, c)
      BY <1>1, <2>1, <2>2 DEF Goto, Fields
    <3> HIDE DEF c
    <3> QED BY <3>1, GoesElsewhere DEF Applies
  <2> QED BY <1>5, <1>10, <2>2 DEF AddInstall
<1>11. CASE AdoptStage(p)
  <2>1. ASSUME NEW d, NEW es, Become(p, [proc[p] EXCEPT !.pc = "query", !.tracked = d, !.entries = es])
        PROVE  Fine1
    <3> DEFINE c == [proc[p] EXCEPT !.pc = "query", !.tracked = d, !.entries = es]
    <3>1. c.pc = "query" /\ Become(p, c)
      BY <1>1, <2>1 DEF Fields
    <3> HIDE DEF c
    <3> QED BY <3>1, GoesElsewhere
  <2> QED BY <1>5, <1>11, <2>1 DEF AdoptStage
<1>12. CASE AdoptQuery(p)
  <2>1. ASSUME NEW v, Become(p, [proc[p] EXCEPT !.pc = "check", !.entries[1].version = v]) PROVE Fine1
    <3> DEFINE c == [proc[p] EXCEPT !.pc = "check", !.entries[1].version = v]
    <3>1. c.pc = "check" /\ Become(p, c)
      BY <1>1, <2>1 DEF Fields
    <3> HIDE DEF c
    <3> QED BY <3>1, GoesElsewhere
  <2> QED BY <1>5, <1>12, <2>1 DEF AdoptQuery
<1>13. CASE AdoptCheck(p)
  BY <1>4, <1>5, <1>13 DEF AdoptCheck
<1>14. CASE AdoptPrepare(p)
  <2>1. proc[p].cmd = "adopt"
    BY <1>14 DEF AdoptPrepare, At
  <2>2. ASSUME NEW st, Become(p, [proc[p] EXCEPT !.pc = "spec", !.staged = st]) PROVE Fine1
    <3> DEFINE c == [proc[p] EXCEPT !.pc = "spec", !.staged = st]
    <3>1. c.pc = "spec" /\ c.cmd = "adopt" /\ Become(p, c)
      BY <1>1, <2>1, <2>2 DEF Fields
    <3> HIDE DEF c
    <3> QED BY <3>1, GoesElsewhere
  <2> QED BY <1>5, <1>14, <2>2 DEF AdoptPrepare
<1>16. CASE RemoveStage(p)
  <2>1. ASSUME NEW st, Become(p, [proc[p] EXCEPT !.pc = "lock", !.staged = st]) PROVE Fine1
    <3> DEFINE c == [proc[p] EXCEPT !.pc = "lock", !.staged = st]
    <3>1. c.pc = "lock" /\ Become(p, c)
      BY <1>1, <2>1 DEF Fields
    <3> HIDE DEF c
    <3> QED BY <3>1, GoesElsewhere
  <2> QED BY <1>5, <1>16, <2>1 DEF RemoveStage
<1>17. CASE DisownStage(p)
  <2>1. PICK d, st : Become(p, [proc[p] EXCEPT !.pc = "lock", !.tracked = d, !.staged = st])
    BY <1>17 DEF DisownStage
  <2> DEFINE c == [proc[p] EXCEPT !.pc = "lock", !.tracked = d, !.staged = st]
  <2>2. c.pc = "lock" /\ Become(p, c)
    BY <1>1, <2>1 DEF Fields
  <2> HIDE DEF c
  <2> QED BY <2>2, GoesElsewhere
<1>18. CASE ScanStage(p)
  <2>1. ASSUME NEW st, NEW es, Become(p, [proc[p] EXCEPT !.pc = "lock", !.staged = st, !.entries = es])
        PROVE  Fine1
    <3> DEFINE c == [proc[p] EXCEPT !.pc = "lock", !.staged = st, !.entries = es]
    <3>1. c.pc = "lock" /\ Become(p, c)
      BY <1>1, <2>1 DEF Fields
    <3> HIDE DEF c
    <3> QED BY <3>1, GoesElsewhere
  <2> QED BY <1>5, <1>18, <2>1 DEF ScanStage
<1>19. CASE Upgrade(p)
  <2>1. ASSUME NEW i, NEW v, Become(p, [proc[p] EXCEPT !.pc = "write", !.lf.packages[i].version = v])
        PROVE  Fine1
    <3> DEFINE c == [proc[p] EXCEPT !.pc = "write", !.lf.packages[i].version = v]
    <3>1. c.cmd = "upgrade" /\ Become(p, c)
      BY <1>1, <1>19, <2>1 DEF Upgrade, At, Fields
    <3> HIDE DEF c
    <3> QED BY <3>1, GoesElsewhere DEF Applies
  <2>2. ASSUME Goto(p, "write") PROVE Fine1
    <3> DEFINE c == [proc[p] EXCEPT !.pc = "write"]
    <3>1. c.cmd = "upgrade" /\ Become(p, c)
      BY <1>1, <1>19, <2>2 DEF Goto, Upgrade, At, Fields
    <3> HIDE DEF c
    <3> QED BY <3>1, GoesElsewhere DEF Applies
  <2> QED BY <1>5, <1>19, <2>1, <2>2 DEF Upgrade
<1>20. CASE \/ ReadLock(p) \/ WriteSpec(p) \/ RemoveUninstall(p)
            \/ ApplyPlan(p) \/ ApplyRemove(p) \/ ApplyInstall(p)
  <2>1. \E c : Become(p, c)
    BY <1>20 DEF ReadLock, WriteSpec, RemoveUninstall, ApplyPlan, ApplyRemove, ApplyInstall, Exit, Goto
  <2> QED BY <1>20, <2>1, Becomes
<1> QED BY <1>2, <1>3, <1>6, <1>8, <1>9, <1>10, <1>11, <1>12, <1>13, <1>14, <1>16, <1>17,
           <1>18, <1>19, <1>20 DEF Step

\* Writing the spec leads to the mutex, to the write of the lock, or to the end.
LEMMA WriteSpecGoes ==
    ASSUME Ind, NEW p \in Procs, WriteSpec(p)
    PROVE  /\ proc'[p].pc \in {"lock", "write", "done"}
           /\ proc'[p].cmd = proc[p].cmd /\ proc'[p].id = proc[p].id /\ proc'[p].entries = proc[p].entries
           /\ proc'[p].uninstalled = proc[p].uninstalled /\ proc[p].cmd \notin Applies
           /\ ("specfile" \notin Faults /\ proc[p].cmd = "add") => proc'[p].pc = "lock"
<1>1. DOMAIN proc[p] = Fields /\ proc[p].cmd \notin Applies
  BY WellFormed DEF Ind, WriteSpec, SpecWriters, Applies
<1>2. ASSUME NEW pc1 \in {"lock", "write"}, Goto(p, pc1)
      PROVE  /\ proc'[p].pc = pc1 /\ proc'[p].cmd = proc[p].cmd /\ proc'[p].id = proc[p].id
             /\ proc'[p].entries = proc[p].entries /\ proc'[p].uninstalled = proc[p].uninstalled
  <2> DEFINE c == [proc[p] EXCEPT !.pc = pc1]
  <2>1. /\ c.pc = pc1 /\ c.cmd = proc[p].cmd /\ c.id = proc[p].id
        /\ c.entries = proc[p].entries /\ c.uninstalled = proc[p].uninstalled /\ Become(p, c)
    BY <1>1, <1>2 DEF Goto, Fields
  <2> HIDE DEF c
  <2> QED BY <2>1, Becomes
<1>3. ASSUME NEW code, Exit(p, code)
      PROVE  /\ proc'[p].pc = "done" /\ proc'[p].cmd = proc[p].cmd /\ proc'[p].id = proc[p].id
             /\ proc'[p].entries = proc[p].entries /\ proc'[p].uninstalled = proc[p].uninstalled
  <2> DEFINE c == [proc[p] EXCEPT !.pc = "done", !.exit = code]
  <2>1. /\ c.pc = "done" /\ c.cmd = proc[p].cmd /\ c.id = proc[p].id
        /\ c.entries = proc[p].entries /\ c.uninstalled = proc[p].uninstalled /\ Become(p, c)
    BY <1>1, <1>3 DEF Exit, Fields
  <2> HIDE DEF c
  <2> QED BY <2>1, Becomes
<1> QED BY <1>1, <1>2, <1>3 DEF WriteSpec, May

\* An apply stays an apply.
LEMMA ApplyStays ==
    ASSUME Ind, NEW p \in Procs, ApplyPlan(p) \/ ApplyRemove(p) \/ ApplyInstall(p)
    PROVE  proc[p].cmd \in Applies /\ proc'[p].cmd = proc[p].cmd
<1>1. DOMAIN proc[p] = Fields
  BY WellFormed
<1>2. proc[p].cmd \in Applies
  BY DEF ApplyPlan, ApplyRemove, ApplyInstall, At
<1>3. ASSUME NEW c, Become(p, c), c.cmd = proc[p].cmd PROVE proc'[p].cmd = proc[p].cmd
  BY <1>3, Becomes
<1>4. ASSUME NEW b, DOMAIN b = Fields
      PROVE  Installing(b).cmd = b.cmd /\ Settling(b).cmd = b.cmd
  BY <1>4 DEF Installing, Settling, Fields
<1>5. ASSUME NEW code, Exit(p, code) PROVE proc'[p].cmd = proc[p].cmd
  <2> DEFINE c == [proc[p] EXCEPT !.pc = "done", !.exit = code]
  <2>1. c.cmd = proc[p].cmd
    BY <1>1 DEF Fields
  <2>2. Become(p, c)
    BY <1>5 DEF Exit
  <2> HIDE DEF c
  <2> QED BY <1>3, <2>1, <2>2
<1>6. CASE ApplyPlan(p)
  <2>1. ASSUME NEW lf, NEW plan, NEW st, NEW todo,
               Become(p, Installing([proc[p] EXCEPT !.pc = "remove", !.lf = lf, !.plan = plan,
                                         !.staged = st, !.todo = todo]))
        PROVE  proc'[p].cmd = proc[p].cmd
    <3> DEFINE b == [proc[p] EXCEPT !.pc = "remove", !.lf = lf, !.plan = plan, !.staged = st, !.todo = todo]
    <3>1. DOMAIN b = Fields /\ b.cmd = proc[p].cmd
      BY <1>1 DEF Fields
    <3>2. Become(p, Installing(b))
      BY <2>1
    <3> HIDE DEF b
    <3> QED BY <1>3, <1>4, <3>1, <3>2
  <2> QED BY <1>2, <1>5, <1>6, <2>1 DEF ApplyPlan
<1>7. CASE ApplyRemove(p)
  <2>1. ASSUME NEW todo, NEW un, Become(p, Installing([[proc[p] EXCEPT !.todo = todo] EXCEPT !.uninstalled = un]))
        PROVE  proc'[p].cmd = proc[p].cmd
    <3> DEFINE b == [[proc[p] EXCEPT !.todo = todo] EXCEPT !.uninstalled = un]
    <3>1. DOMAIN b = Fields /\ b.cmd = proc[p].cmd /\ Become(p, Installing(b))
      BY <1>1, <2>1 DEF Fields
    <3> HIDE DEF b
    <3> QED BY <1>3, <1>4, <3>1
  <2>2. ASSUME NEW todo, Become(p, Installing([[proc[p] EXCEPT !.todo = todo] EXCEPT !.failed = TRUE]))
        PROVE  proc'[p].cmd = proc[p].cmd
    <3> DEFINE b == [[proc[p] EXCEPT !.todo = todo] EXCEPT !.failed = TRUE]
    <3>1. DOMAIN b = Fields /\ b.cmd = proc[p].cmd /\ Become(p, Installing(b))
      BY <1>1, <2>2 DEF Fields
    <3> HIDE DEF b
    <3> QED BY <1>3, <1>4, <3>1
  <2> QED BY <1>2, <1>7, <2>1, <2>2 DEF ApplyRemove
<1>8. CASE ApplyInstall(p)
  <2>1. ASSUME NEW todo, NEW es, Become(p, Settling([[proc[p] EXCEPT !.todo = todo] EXCEPT !.entries = es]))
        PROVE  proc'[p].cmd = proc[p].cmd
    <3> DEFINE b == [[proc[p] EXCEPT !.todo = todo] EXCEPT !.entries = es]
    <3>1. DOMAIN b = Fields /\ b.cmd = proc[p].cmd /\ Become(p, Settling(b))
      BY <1>1, <2>1 DEF Fields
    <3> HIDE DEF b
    <3> QED BY <1>3, <1>4, <3>1
  <2>2. ASSUME NEW todo, Become(p, Settling([[proc[p] EXCEPT !.todo = todo] EXCEPT !.failed = TRUE]))
        PROVE  proc'[p].cmd = proc[p].cmd
    <3> DEFINE b == [[proc[p] EXCEPT !.todo = todo] EXCEPT !.failed = TRUE]
    <3>1. DOMAIN b = Fields /\ b.cmd = proc[p].cmd /\ Become(p, Settling(b))
      BY <1>1, <2>2 DEF Fields
    <3> HIDE DEF b
    <3> QED BY <1>3, <1>4, <3>1
  <2> QED BY <1>2, <1>8, <2>1, <2>2 DEF ApplyInstall
<1> QED BY <1>2, <1>6, <1>7, <1>8

\* While somebody else is inside, a command changes the machine only by an add's
\* install, and the lock not at all.
LEMMA Excluded ==
    ASSUME Ind, NEW p \in Procs, NEW q \in Procs, p # q, Step(p), Within(proc[q])
    PROVE  lock' = lock /\ (machine' # machine => AddInstall(p))
<1>1. mutex = q /\ ~Within(proc[p])
  BY DEF Ind
<1>2. ~WriteLock(p) /\ ~ApplyPlan(p) /\ ~RemoveUninstall(p) /\ ~ApplyRemove(p) /\ ~ApplyInstall(p) /\ ~Upgrade(p)
  BY <1>1 DEF Within, WriteLock, ApplyPlan, RemoveUninstall, ApplyRemove, ApplyInstall, Upgrade, At
<1> QED BY <1>2, LockWriters, MachineWriters

\* An add that has installed comes to the mutex and waits for it.
LEMMA AddWaits ==
    ASSUME Ind, NEW p \in Procs, NEW q \in Procs, p # q, mutex = q, Step(p),
           Faults \cap {"specfile", "crash"} = {},
           proc[p].cmd = "add", proc[p].pc \in {"spec", "lock"}
    PROVE  proc'[p].cmd = "add" /\ proc'[p].id = proc[p].id /\ proc'[p].pc \in {"spec", "lock"}
<1>1. DOMAIN proc[p] = Fields
  BY WellFormed
<1>2. ~Begin(p) /\ ~LockMutation(p) /\ ~ReadLock(p) /\ ~WriteLock(p) /\ ~Return(p) /\ ~Crash(p)
  BY CommandsAssumption DEF Begin, LockMutation, ReadLock, WriteLock, Return, Crash, May
<1>3. ~AddStage(p) /\ ~AddInstall(p) /\ ~AdoptStage(p) /\ ~AdoptQuery(p) /\ ~AdoptCheck(p) /\ ~AdoptPrepare(p)
  BY DEF AddStage, AddInstall, AdoptStage, AdoptQuery, AdoptCheck, AdoptPrepare, At
<1>4. ~RemoveStage(p) /\ ~RemoveUninstall(p) /\ ~DisownStage(p) /\ ~ScanStage(p)
  BY DEF RemoveStage, RemoveUninstall, DisownStage, ScanStage, At
<1>5. ~ApplyPlan(p) /\ ~ApplyRemove(p) /\ ~ApplyInstall(p) /\ ~Upgrade(p)
  BY DEF ApplyPlan, ApplyRemove, ApplyInstall, Upgrade, At, Applies
<1>6. WriteSpec(p)
  BY <1>2, <1>3, <1>4, <1>5 DEF Step
<1>7. Goto(p, "lock")
  BY <1>6 DEF WriteSpec, May
<1> DEFINE c == [proc[p] EXCEPT !.pc = "lock"]
<1>8. c.pc = "lock" /\ c.cmd = proc[p].cmd /\ c.id = proc[p].id /\ Become(p, c)
  BY <1>1, <1>7 DEF Goto, Fields
<1> HIDE DEF c
<1> QED BY <1>8, Becomes

LEMMA UninstalledStays ==
    ASSUME Ind, Sound, Uninstalled, [Next]_vars, Faults \cap {"specfile", "crash"} = {}
    PROVE  Uninstalled'
<1> SUFFICES ASSUME NEW q \in Procs, proc'[q].pc = "spec", proc'[q].cmd = "remove",
                    NEW id, id = proc'[q].id, id \in LockedIds(lock'.packages)
             PROVE  \/ machine'[LastEntry(lock'.packages, id).manager][id] = None
                    \/ PutBack(id)'
  BY DEF Uninstalled, At, PutBack
<1>1. machine \in Machine /\ lock.packages \in Seq(Entry) /\ Good(proc[q])
  BY DEF Sound, WorldOK, LockFile
<1> DEFINE m == LastEntry(lock.packages, id).manager
           Old == machine[m][id] = None \/ PutBack(id)
<1>2. ASSUME proc'[q] = proc[q], lock' = lock PROVE Old /\ m \in Managers /\ id \in Ids /\ Within(proc[q])
  <2>1. Old
    BY <1>2 DEF Uninstalled, At
  <2>2. m \in Managers /\ id \in Ids
    BY <1>1, <1>2, LastEntryLemma DEF Entry
  <2> QED BY <1>2, <2>1, <2>2 DEF Within
<1>3. CASE EditSpec \/ UNCHANGED vars
  <2>1. proc' = proc /\ lock' = lock /\ machine' = machine
    BY <1>3 DEF EditSpec, vars, World
  <2> QED BY <1>2, <2>1 DEF PutBack
<1>4. CASE ByHand
  <2>1. proc' = proc /\ lock' = lock
    BY <1>4 DEF ByHand, Files
  <2>2. PICK m1 \in Managers, i1 \in Ids : machine' = [machine EXCEPT ![m1][i1] = None]
    BY <1>4 DEF ByHand, Take
  <2>3. Old /\ m \in Managers /\ id \in Ids
    BY <1>2, <2>1
  <2>4. CASE PutBack(id)
    BY <2>1, <2>4 DEF PutBack
  <2>5. CASE machine[m][id] = None
    <3> HIDE DEF m
    <3>1. machine'[m][id] = None
      BY <1>1, <2>2, <2>3, <2>5 DEF Machine
    <3> QED BY <2>1, <3>1 DEF m
  <2> QED BY <2>3, <2>4, <2>5
<1>5. ASSUME NEW p \in Procs, Step(p), p # q
      PROVE  machine'[LastEntry(lock'.packages, id).manager][id] = None \/ PutBack(id)'
  <2>1. \A r \in Procs \ {p} : proc'[r] = proc[r]
    BY <1>5, OthersStay
  <2>2. proc'[q] = proc[q]
    BY <1>5, <2>1
  <2>3. Within(proc[q])
    BY <2>2 DEF Within
  <2>4. lock' = lock /\ (machine' # machine => AddInstall(p)) /\ mutex = q
    BY <1>5, <2>3, Excluded DEF Ind
  <2>5. Old /\ m \in Managers /\ id \in Ids
    BY <1>2, <2>2, <2>4
  <2>6. CASE PutBack(id)
    <3>1. PICK r \in Procs : proc[r].cmd = "add" /\ proc[r].id = id /\ proc[r].pc \in {"spec", "lock"}
      BY <2>6 DEF PutBack
    <3>2. CASE r = p
      BY <1>5, <2>4, <3>1, <3>2, AddWaits DEF PutBack
    <3>3. CASE r # p
      BY <2>1, <3>1, <3>3 DEF PutBack
    <3> QED BY <3>2, <3>3
  <2>7. CASE machine[m][id] = None /\ machine'[m][id] # None
    <3>1. AddInstall(p) /\ machine' # machine
      BY <2>4, <2>7
    <3>2. Goto(p, "spec") /\ proc[p].cmd = "add" /\ \E mm : \E v \in Versions : machine' = [machine EXCEPT ![mm][proc[p].id] = v]
      BY <3>1 DEF AddInstall, Put, World, At
    <3>3. proc[p].id = id
      <4> HIDE DEF m
      <4> QED BY <1>1, <2>5, <2>7, <3>2 DEF Machine
    <3> DEFINE c == [proc[p] EXCEPT !.pc = "spec"]
    <3>4. c.pc = "spec" /\ c.cmd = proc[p].cmd /\ c.id = proc[p].id /\ Become(p, c)
      BY <3>2, WellFormed DEF Goto, Fields
    <3> HIDE DEF c
    <3>5. proc'[p] = c
      BY <3>4, Becomes
    <3> QED BY <3>2, <3>3, <3>4, <3>5 DEF PutBack
  <2> QED BY <2>4, <2>5, <2>6, <2>7
<1>6. CASE Step(q)
  <2>1. ReadLock(q) \/ RemoveUninstall(q)
    <3>1. ~Elsewhere(proc'[q])
      BY DEF Elsewhere
    <3>2. proc'[q].cmd \notin Applies
      BY DEF Applies
    <3> QED BY <1>6, <3>1, <3>2, OthersStay, ApplyStays, WriteSpecGoes
  <2>2. CASE ReadLock(q)
    <3>1. lock' = lock
      BY <2>2 DEF ReadLock, Files
    <3>2. CASE Exit(q, "io")
      BY <3>2, ExitElsewhere DEF Elsewhere
    <3>3. CASE Become(q, AfterRead(q, [proc[q] EXCEPT !.lf = lock], LockedIds(lock.packages)))
      <4> DEFINE b == [proc[q] EXCEPT !.lf = lock]
                 c == AfterRead(q, b, LockedIds(lock.packages))
      <4>1. DOMAIN b = Fields
        BY WellFormed
      <4>2. proc'[q] = c
        BY <3>3, Becomes
      <4> HIDE DEF b
      <4>3. c.cmd = b.cmd /\ c.id = b.id
        <5>1. CASE b.cmd \in {"add", "adopt"}
          BY <4>1, <5>1 DEF AfterRead, Fields
        <5>2. CASE b.cmd = "remove"
          BY <4>1, <5>2 DEF AfterRead, Fields
        <5>3. CASE b.cmd = "disown"
          BY <4>1, <5>3 DEF AfterRead, Fields
        <5>4. CASE b.cmd = "scan"
          BY <4>1, <5>4 DEF AfterRead, Fields
        <5>5. CASE b.cmd \notin {"add", "adopt", "remove", "disown", "scan"}
          BY <4>1, <5>5 DEF AfterRead, Fields
        <5> QED BY <5>1, <5>2, <5>3, <5>4, <5>5
      <4>4. (b.cmd = "remove" /\ c.pc = "spec") => b.id \notin LockedIds(lock.packages)
        BY <4>1 DEF AfterRead, Fields
      <4> HIDE DEF c
      <4> QED BY <3>1, <4>2, <4>3, <4>4
    <3> QED BY <2>2, <3>2, <3>3 DEF ReadLock
  <2>3. CASE RemoveUninstall(q)
    <3> DEFINE e == LastEntry(proc[q].lf.packages, proc[q].id)
    <3>1. CASE Exit(q, "logic")
      BY <3>1, ExitElsewhere DEF Elsewhere
    <3>2. CASE Take(e.manager, e.id) /\ Goto(q, "spec")
      <4>1. lock' = lock /\ proc[q].pc = "uninstall" /\ proc[q].cmd = "remove"
        BY <2>3 DEF RemoveUninstall, Files, At
      <4>2. proc[q].lf = lock
        BY <4>1 DEF Ind, Within, Current
      <4> DEFINE c == [proc[q] EXCEPT !.pc = "spec"]
      <4>3. c.id = proc[q].id /\ Become(q, c)
        BY <3>2, WellFormed DEF Goto, Fields
      <4> HIDE DEF c
      <4>4. id = proc[q].id
        BY <4>3, Becomes
      <4>5. e = LastEntry(lock.packages, id)
        BY <4>2, <4>4
      <4> HIDE DEF e
      <4>6. e.id = id /\ e.manager \in Managers /\ id \in Ids
        <5>1. id \in LockedIds(lock.packages)
          BY <4>1
        <5>2. e \in Entry /\ e.id = id
          BY <1>1, <4>5, <5>1, LastEntryLemma
        <5> QED BY <5>2 DEF Entry
      <4>7. machine' = [machine EXCEPT ![e.manager][e.id] = None]
        BY <3>2 DEF Take
      <4>8. machine'[e.manager][id] = None
        BY <1>1, <4>6, <4>7 DEF Machine
      <4> QED BY <4>1, <4>5, <4>8
    <3> QED BY <2>3, <3>1, <3>2 DEF RemoveUninstall
  <2> QED BY <2>1, <2>2, <2>3
<1> QED BY <1>3, <1>4, <1>5, <1>6 DEF Next

\* When a remove writes the spec, the copy it had to uninstall is gone.
LEMMA RemovesFirst ==
    ASSUME Uninstalled, NEW p \in Procs, At(p, {"remove"}, "spec"), NEW i \in DOMAIN lock.packages,
           lock.packages[i].id = proc[p].id, lock.packages[i] = LastEntry(lock.packages, proc[p].id)
    PROVE  \/ machine[lock.packages[i].manager][proc[p].id] = None
           \/ \E q \in Procs : proc[q].cmd = "add" /\ proc[q].id = proc[p].id
<1>1. proc[p].id \in LockedIds(lock.packages)
  BY DEF LockedIds
<1> QED BY <1>1 DEF Uninstalled, PutBack

LEMMA UninstalledInvariance ==
    ASSUME Faults \cap {"specfile", "crash"} = {}
    PROVE  Spec => [](Ind /\ Sound /\ Uninstalled)
<1>1. Init => Uninstalled
  BY DEF Init, Uninstalled, At, Idle
<1>2. Init => Ind /\ Sound /\ Uninstalled
  BY <1>1, Initially, InitiallySound
<1>3. Ind /\ Sound /\ Uninstalled /\ [Next]_vars => Ind' /\ Sound' /\ Uninstalled'
  BY Preserves, SoundStays, UninstalledStays
<1> QED BY <1>2, <1>3, PTL DEF Spec

\* Nothing leaves the lock, the machine or the spec but by a command that was
\* asked to, and in the order a failure can be retried from: a remove writes the
\* spec only once the copy is uninstalled.  The last part is about runs in which
\* no process dies and every write of the spec comes through: an add that
\* installs a package a remove is about to drop from the spec, and then does not
\* live to record it, leaves it installed under the lock entry of the removed.
THEOREM NothingIsTakenInPassing ==
    ASSUME Faults \cap {"specfile", "crash"} = {}
    PROVE  Spec => TakesOnlyWhatItMay
<1>1. Uninstalled /\ [Next]_vars =>
         [\A p \in Procs : At(p, {"remove"}, "spec") /\ spec' # spec =>
             \A i \in DOMAIN lock.packages :
                lock.packages[i].id = proc[p].id /\ lock.packages[i] = LastEntry(lock.packages, proc[p].id)
                   => \/ machine[lock.packages[i].manager][proc[p].id] = None
                      \/ \E q \in Procs : proc[q].cmd = "add" /\ proc[q].id = proc[p].id]_vars
  BY RemovesFirst
<1>2. Spec => RemoveUninstallsFirst
  BY <1>1, UninstalledInvariance, PTL DEF Spec, RemoveUninstallsFirst
<1> QED BY <1>2, NothingIsForgotten, OnlyTrackedIsTaken DEF TakesOnlyWhatItMay

(***************************************************************************)
(* Second, an apply installs only what is not there.                       *)
(***************************************************************************)
LEMMA InstallingAbsent ==
    ASSUME NEW c, DOMAIN c = Fields, NEW installed,
           \A id \in Wanted(c.plan) \ LockedIds(c.lf.packages) : installed[c.plan.install[id]][id] = None
    PROVE  Absent(Installing(c), installed)
<1>1. Installing(c).plan = c.plan /\ Installing(c).lf = c.lf
  BY DEF Installing, Fields
<1> QED BY <1>1 DEF Absent

LEMMA SettlingAbsent ==
    ASSUME NEW c, DOMAIN c = Fields, NEW installed, Absent(c, installed), Settling(c).pc = "install"
    PROVE  Absent(Settling(c), installed)
<1>1. Settling(c) = c
  BY DEF Settling, Fields
<1> QED BY <1>1

\* What the inventory has listed is adopted, so what is to be installed and not
\* locked was listed as missing - if every manager answered.
LEMMA PlanIsAbsent ==
    ASSUME NEW desired, DOMAIN desired \subseteq Ids, NEW entries, NEW installed
    PROVE  LET wanted == ManagersToList(desired, entries, Available)
               live == LiveSet(installed, wanted \cap Available, Available)
               plan == ReconcileWith(desired, entries, Available, live)
           IN  \A id \in Wanted(plan) \ LockedIds(entries) : installed[plan.install[id]][id] = None
<1> DEFINE wanted == ManagersToList(desired, entries, Available)
           live == LiveSet(installed, wanted \cap Available, Available)
           plan == ReconcileWith(desired, entries, Available, live)
           queued == ToInstall(desired, entries, Available, live)
<1> SUFFICES ASSUME NEW id \in Wanted(plan) \ LockedIds(entries)
             PROVE  installed[plan.install[id]][id] = None
  OBVIOUS
<1>1. plan.install = [i \in queued |-> Resolve(desired[i], Available)]
  BY DEF ReconcileWith
<1> HIDE DEF plan
<1> DEFINE m == Resolve(desired[id], Available)
<1>2. id \in queued /\ plan.install[id] = m /\ m # None
  <2> HIDE DEF queued
  <2>1. id \in DOMAIN plan.install /\ plan.install[id] # None
    BY DEF Wanted
  <2> QED BY <1>1, <2>1
<1> HIDE DEF live
<1>3. id \in DOMAIN desired \ LockedIds(entries) /\ ~IsLive(live, m, id)
  BY <1>2 DEF ToInstall, Adoptable
<1> HIDE DEF queued
<1>4. m \in Available /\ m \in wanted
  <2>1. m \in Available
    BY <1>2, ResolveLemma
  <2>2. m \in wanted
    <3> DEFINE of(i) == {desired[i].prefer, Resolve(desired[i], Available)} \cup desired[i].offers
               sets == {of(i) : i \in DOMAIN desired \ LockedIds(entries)}
    <3>1. wanted = (UNION sets) \ {None}
      BY DEF ManagersToList
    <3>2. ASSUME NEW A, m \in A, A \in sets PROVE m \in wanted
      <4> HIDE DEF m, sets, wanted
      <4> QED BY <1>2, <3>1, <3>2
    <3>3. m \in of(id) /\ of(id) \in sets
      BY <1>3
    <3> HIDE DEF m, sets, wanted
    <3> QED BY <3>2, <3>3
  <2> QED BY <2>1, <2>2
<1>5. m \in DOMAIN live /\ live[m] = {i \in Ids : installed[m][i] # None}
  <2> HIDE DEF wanted, m
  <2> QED BY <1>4 DEF live, LiveSet
<1>6. id \in Ids
  BY <1>3
<1> HIDE DEF m
<1> QED BY <1>2, <1>3, <1>5, <1>6 DEF IsLive

LEMMA WantedIsTyped ==
    ASSUME NEW c, CarriesOut(c), NEW id \in Wanted(c.plan)
    PROVE  id \in Ids /\ c.plan.install[id] \in Managers
<1>1. id \in Ids /\ c.plan.install[id] = Resolve(c.staged[c.target][id], Available)
  BY DEF CarriesOut, PlanIsSound, IsTable, Wanted
<1>2. c.plan.install[id] # None
  BY DEF Wanted
<1> QED BY <1>1, <1>2, ResolveLemma, CommandsAssumption

LEMMA ApplyPlanAbsent ==
    ASSUME Ind, Sound, NEW p \in Procs, ApplyPlan(p), "list" \notin Faults, proc'[p].pc \in {"remove", "install"}
    PROVE  Absent(proc'[p], machine')
<1> DEFINE foreign == Foreign(proc[p].lf, proc[p].target)
           base == IF foreign THEN EmptyLock ELSE proc[p].lf
           wanted == ManagersToList(Here(p), base.packages, Available)
           live == LiveSet(machine, wanted \cap Available, Available)
           plan == ReconcileWith(Here(p), base.packages, Available, live)
           b(pl) == [proc[p] EXCEPT !.pc = "remove", !.lf = base, !.plan = pl,
                         !.staged = spec, !.todo = pl.remove]
<1>1. machine' = machine /\ proc[p].pc = "plan" /\ proc[p].cmd \in Applies
  BY DEF ApplyPlan, World, At
<1>2. \A code : ~Exit(p, code)
  BY ExitElsewhere, <1>1 DEF Exit, Become, Ind, Shape, Fields
<1>3. Become(p, Installing(b(plan)))
  BY <1>2 DEF ApplyPlan, May
<1>4. proc[p].target \in Targets
  BY <1>1 DEF Sound, Good, WellTyped
<1>5. DOMAIN Here(p) \subseteq Ids
  BY <1>4 DEF Sound, WorldOK, IsSpecFile, IsTable, Here
<1>6. \A id \in Wanted(plan) \ LockedIds(base.packages) : machine[plan.install[id]][id] = None
  BY SMTT(30), <1>5, PlanIsAbsent
<1> HIDE DEF plan, base
<1> DEFINE c == b(plan)
<1>7. DOMAIN c = Fields /\ c.plan = plan /\ c.lf = base
  BY WellFormed DEF Fields
<1>8. Become(p, Installing(c))
  BY <1>3
<1> HIDE DEF c
<1>9. Absent(Installing(c), machine)
  BY <1>6, <1>7, InstallingAbsent
<1>10. proc'[p] = Installing(c)
  BY <1>8, Becomes
<1> QED BY <1>1, <1>9, <1>10

LEMMA ApplyRemoveAbsent ==
    ASSUME Ind, Sound, NEW p \in Procs, ApplyRemove(p), Absent(proc[p], machine)
    PROVE  Absent(proc'[p], machine')
<1> DEFINE e == Head(proc[p].todo)
           rest == [proc[p] EXCEPT !.todo = Tail(@)]
           done == [rest EXCEPT !.uninstalled = @ \cup {e.id}]
           failed == [rest EXCEPT !.failed = TRUE]
<1>1. proc[p].pc = "remove" /\ DOMAIN proc[p] = Fields
  BY WellFormed DEF ApplyRemove, At
<1>2. /\ DOMAIN done = Fields /\ done.plan = proc[p].plan /\ done.lf = proc[p].lf
      /\ DOMAIN failed = Fields /\ failed.plan = proc[p].plan /\ failed.lf = proc[p].lf
  BY <1>1 DEF Fields
<1>3. \/ Take(e.manager, e.id) /\ Become(p, Installing(done))
      \/ Become(p, Installing(failed)) /\ UNCHANGED World
  BY DEF ApplyRemove
<1>4. proc'[p] = Installing(done) \/ proc'[p] = Installing(failed)
  <2> HIDE DEF done, failed
  <2> QED BY <1>3, Becomes
<1> HIDE DEF done, failed
<1> DEFINE ids == Wanted(proc[p].plan) \ LockedIds(proc[p].lf.packages)
<1>5. \A id \in ids : machine[proc[p].plan.install[id]][id] = None
  BY <1>1 DEF Absent
<1>6. \A id \in ids : machine'[proc[p].plan.install[id]][id] = None
  <2>1. machine' = machine \/ machine' = [machine EXCEPT ![e.manager][e.id] = None]
    BY <1>3 DEF World, Take
  <2>2. machine \in Machine
    BY DEF Sound, WorldOK
  <2>3. \A m \in Managers, id \in Ids : machine[m][id] = None => machine'[m][id] = None
    <3> HIDE DEF e
    <3> QED BY <2>1, <2>2 DEF Machine
  <2>4. \A id \in ids : id \in Ids /\ proc[p].plan.install[id] \in Managers
    <3>1. CarriesOut(proc[p])
      BY <1>1 DEF Sound, Good, Applying, ApplyRemove, At
    <3> QED BY <3>1, WantedIsTyped
  <2> HIDE DEF ids
  <2> QED BY <1>5, <2>3, <2>4
<1> QED BY <1>2, <1>4, <1>6, InstallingAbsent

LEMMA ApplyInstallAbsent ==
    ASSUME Ind, Sound, NEW p \in Procs, ApplyInstall(p), Absent(proc[p], machine), proc'[p].pc = "install"
    PROVE  Absent(proc'[p], machine')
<1> DEFINE b == [proc[p] EXCEPT !.todo = Tail(@)]
           id == Head(proc[p].todo)
           m == proc[p].plan.install[id]
<1>1. proc[p].pc = "install" /\ proc[p].cmd \in Applies /\ DOMAIN proc[p] = Fields
  BY WellFormed DEF ApplyInstall, At
<1>2. proc[p].todo \in Seq(Ids) /\ proc[p].todo # <<>> /\ IsInjective(proc[p].todo) /\ machine \in Machine
  BY <1>1 DEF Sound, Good, Applying, CarriesOut, WorldOK
<1>3. ToSet(proc[p].todo) = {id} \cup ToSet(Tail(proc[p].todo)) /\ id \notin ToSet(Tail(proc[p].todo))
  BY <1>2, ToSetTail
<1>4. b.plan = proc[p].plan
  BY <1>1 DEF Fields
<1> DEFINE Goes(c) ==
             /\ DOMAIN c = Fields /\ c.plan = proc[p].plan /\ c.lf = proc[p].lf
             /\ c.pc = "install" /\ c.todo = Tail(proc[p].todo)
             /\ Become(p, Settling(c))
             /\ machine' = machine \/ \E v \in Versions : machine' = [machine EXCEPT ![m][id] = v]
<1>5. \E c : Goes(c)
  <2>1. ASSUME NEW es, NEW v \in Versions, Become(p, Settling([b EXCEPT !.entries = es])),
               machine' = [machine EXCEPT ![m][id] = v]
        PROVE  \E c : Goes(c)
    <3> DEFINE c == [b EXCEPT !.entries = es]
    <3>1. /\ DOMAIN c = Fields /\ c.plan = proc[p].plan /\ c.lf = proc[p].lf
          /\ c.pc = "install" /\ c.todo = Tail(proc[p].todo)
      BY <1>1 DEF Fields
    <3>2. Become(p, Settling(c))
      BY <2>1
    <3> HIDE DEF c, m, id
    <3> QED BY <2>1, <3>1, <3>2
  <2>2. ASSUME Become(p, Settling([b EXCEPT !.failed = TRUE])), machine' = machine PROVE \E c : Goes(c)
    <3> DEFINE c == [b EXCEPT !.failed = TRUE]
    <3>1. /\ DOMAIN c = Fields /\ c.plan = proc[p].plan /\ c.lf = proc[p].lf
          /\ c.pc = "install" /\ c.todo = Tail(proc[p].todo)
      BY <1>1 DEF Fields
    <3>2. Become(p, Settling(c))
      BY <2>2
    <3> HIDE DEF c, m, id
    <3> QED BY <2>2, <3>1, <3>2
  <2> QED BY <1>4, <2>1, <2>2 DEF ApplyInstall, Put, World
<1>6. PICK c : Goes(c)
  BY <1>5
<1> HIDE DEF id, m, b
<1>7. Absent(c, machine')
  <2> SUFFICES ASSUME NEW i \in Wanted(c.plan) \ LockedIds(c.lf.packages), i \in ToSet(c.todo)
               PROVE  machine'[c.plan.install[i]][i] = None
    BY <1>6 DEF Absent
  <2>1. i # id /\ i \in ToSet(proc[p].todo)
    BY <1>3, <1>6
  <2>2. machine[c.plan.install[i]][i] = None
    BY <1>6, <2>1 DEF Absent
  <2>3. i \in Ids /\ c.plan.install[i] \in Managers
    <3>1. CarriesOut(proc[p])
      BY <1>1 DEF Sound, Good, Applying
    <3> QED BY <1>6, <3>1, WantedIsTyped
  <2> QED BY <1>2, <1>6, <2>1, <2>2, <2>3 DEF Machine
<1>8. proc'[p] = Settling(c)
  BY <1>6, Becomes
<1> QED BY <1>6, <1>7, <1>8, SettlingAbsent

LEMMA NotThereStays ==
    ASSUME Ind, Sound, NotThere, [Next]_vars, "list" \notin Faults,
           (\A p, q \in Procs : p = q) \/ "add" \notin Kinds
    PROVE  NotThere'
<1> SUFFICES ASSUME NEW p \in Procs, proc'[p].cmd \in Applies, proc'[p].pc \in {"remove", "install"}
             PROVE  Absent(proc'[p], machine')
  BY DEF NotThere, Absent
<1>1. CASE EditSpec \/ UNCHANGED vars
  <2>1. proc' = proc /\ machine' = machine
    BY <1>1 DEF EditSpec, vars, World
  <2> QED BY <2>1 DEF NotThere
<1>2. CASE ByHand
  <2>1. proc' = proc /\ Absent(proc[p], machine) /\ machine \in Machine
    BY <1>2 DEF ByHand, NotThere, Sound, WorldOK
  <2>2. PICK m1 \in Managers, i1 \in Ids : machine' = [machine EXCEPT ![m1][i1] = None]
    BY <1>2 DEF ByHand, Take
  <2>3. \A m \in Managers, id \in Ids : machine[m][id] = None => machine'[m][id] = None
    BY <2>1, <2>2 DEF Machine
  <2>4. CarriesOut(proc[p])
    BY <2>1 DEF Sound, Good, Applying
  <2> QED BY <2>1, <2>3, <2>4, WantedIsTyped DEF Absent
<1>3. ASSUME NEW q \in Procs, Step(q), q # p PROVE Absent(proc'[p], machine')
  <2>1. proc'[p] = proc[p]
    BY <1>3, OthersStay
  <2>2. Within(proc[p]) /\ Absent(proc[p], machine)
    BY <2>1 DEF Within, NotThere
  <2>3. machine' = machine
    <3>1. ~AddInstall(q)
      BY <1>3, CommandsAssumption DEF AddInstall, At, Sound, Good, WellTyped
    <3> QED BY <1>3, <2>2, <3>1, Excluded
  <2> QED BY <2>1, <2>2, <2>3
<1>4. CASE Step(p)
  <2>1. ReadLock(p) \/ RemoveUninstall(p) \/ ApplyPlan(p) \/ ApplyRemove(p) \/ ApplyInstall(p)
    BY <1>4, OthersStay, WriteSpecGoes DEF Elsewhere
  <2>2. CASE ReadLock(p)
    <3> DEFINE b == [proc[p] EXCEPT !.lf = lock]
               c == AfterRead(p, b, LockedIds(lock.packages))
    <3>1. DOMAIN b = Fields /\ b.pc = "read"
      BY <2>2, WellFormed DEF ReadLock, Fields
    <3> HIDE DEF b
    <3>2. c.pc \in {"write", "uninstall", "spec", "done", "plan"}
      BY <3>1 DEF AfterRead, Fields
    <3>3. ~Exit(p, "io")
      BY ExitElsewhere DEF Elsewhere
    <3>4. Become(p, c)
      BY <2>2, <3>3 DEF ReadLock, b
    <3> HIDE DEF c
    <3> QED BY <3>2, <3>4, Becomes
  <2>3. CASE RemoveUninstall(p)
    <3>1. ~Exit(p, "logic")
      BY ExitElsewhere DEF Elsewhere
    <3> DEFINE c == [proc[p] EXCEPT !.pc = "spec"]
    <3>2. c.pc = "spec" /\ Become(p, c)
      BY <2>3, <3>1, WellFormed DEF RemoveUninstall, Goto, Fields
    <3> HIDE DEF c
    <3> QED BY <3>2, Becomes
  <2>4. CASE ApplyPlan(p)
    BY <2>4, ApplyPlanAbsent
  <2>5. CASE ApplyRemove(p)
    <3>1. Absent(proc[p], machine)
      BY <2>5 DEF NotThere, ApplyRemove, At
    <3> QED BY <2>5, <3>1, ApplyRemoveAbsent
  <2>6. CASE ApplyInstall(p)
    <3>1. Absent(proc[p], machine) /\ proc[p].pc = "install"
      BY <2>6 DEF NotThere, ApplyInstall, At
    <3>2. proc'[p].pc # "remove"
      <4>1. ASSUME NEW b, DOMAIN b = Fields, b.pc = "install" PROVE Settling(b).pc # "remove"
        BY <4>1 DEF Settling, Fields
      <4>2. ASSUME NEW todo, NEW es, Become(p, Settling([[proc[p] EXCEPT !.todo = todo] EXCEPT !.entries = es]))
            PROVE  proc'[p].pc # "remove"
        <5> DEFINE b == [[proc[p] EXCEPT !.todo = todo] EXCEPT !.entries = es]
        <5>1. DOMAIN b = Fields /\ b.pc = "install" /\ Become(p, Settling(b))
          BY <3>1, <4>2, WellFormed DEF Fields
        <5> HIDE DEF b
        <5> QED BY <4>1, <5>1, Becomes
      <4>3. ASSUME NEW todo, Become(p, Settling([[proc[p] EXCEPT !.todo = todo] EXCEPT !.failed = TRUE]))
            PROVE  proc'[p].pc # "remove"
        <5> DEFINE b == [[proc[p] EXCEPT !.todo = todo] EXCEPT !.failed = TRUE]
        <5>1. DOMAIN b = Fields /\ b.pc = "install" /\ Become(p, Settling(b))
          BY <3>1, <4>3, WellFormed DEF Fields
        <5> HIDE DEF b
        <5> QED BY <4>1, <5>1, Becomes
      <4> QED BY <2>6, <4>2, <4>3 DEF ApplyInstall
    <3> QED BY <2>6, <3>1, <3>2, ApplyInstallAbsent
  <2> QED BY <2>1, <2>2, <2>3, <2>4, <2>5, <2>6
<1> QED BY <1>1, <1>2, <1>3, <1>4 DEF Next

LEMMA NotThereInvariance ==
    ASSUME "list" \notin Faults, (\A p, q \in Procs : p = q) \/ "add" \notin Kinds
    PROVE  Spec => [](Ind /\ Sound /\ NotThere)
<1>1. Init => NotThere
  BY DEF Init, NotThere, Idle
<1>2. Init => Ind /\ Sound /\ NotThere
  BY <1>1, Initially, InitiallySound
<1>3. Ind /\ Sound /\ NotThere /\ [Next]_vars => Ind' /\ Sound' /\ NotThere'
  BY Preserves, SoundStays, NotThereStays
<1> QED BY <1>2, <1>3, PTL DEF Spec

\* The next install of an apply is of a package that is not there.
LEMMA InstallsWhatIsMissing ==
    ASSUME Sound, NotThere, NEW p \in Procs, At(p, Applies, "install"), Head(proc[p].todo) \notin Locked(p)
    PROVE  machine[proc[p].plan.install[Head(proc[p].todo)]][Head(proc[p].todo)] = None
<1> DEFINE id == Head(proc[p].todo)
<1>1. /\ proc[p].todo \in Seq(Ids) /\ proc[p].todo # <<>> /\ ToSet(proc[p].todo) \subseteq Wanted(proc[p].plan)
      /\ Absent(proc[p], machine) /\ proc[p].pc = "install"
  BY DEF Sound, Good, Applying, CarriesOut, NotThere, At
<1>2. id \in ToSet(proc[p].todo)
  BY <1>1, ToSetTail
<1>3. id \in Wanted(proc[p].plan) \ LockedIds(proc[p].lf.packages)
  BY <1>1, <1>2 DEF Locked
<1> HIDE DEF id
<1> QED BY <1>1, <1>2, <1>3 DEF Absent, id

\* An apply that follows an interrupted one takes up what it left: whatever it
\* had installed is adopted, and nothing is dropped from the lock that has not
\* been uninstalled.  The managers have to answer when they are asked what is
\* installed, and no add may install the same package while the apply is on its
\* way to it: add installs before it takes the mutex.
THEOREM ApplyTakesUp ==
    ASSUME "list" \notin Faults, (\A p, q \in Procs : p = q) \/ "add" \notin Kinds
    PROVE  Spec => ApplyResumes
<1>1. Sound /\ NotThere /\ [Next]_vars =>
         [\A p \in Procs : At(p, Applies, "install") =>
             LET id == Head(proc[p].todo)
             IN  (machine'[proc[p].plan.install[id]][id] # None /\ id \notin Locked(p))
                    => machine[proc[p].plan.install[id]][id] = None]_vars
  BY InstallsWhatIsMissing
<1>2. Spec => AdoptsWhatIsThere
  BY <1>1, NotThereInvariance, PTL DEF Spec, AdoptsWhatIsThere
<1> QED BY <1>2, NothingIsForgotten DEF ApplyResumes

(***************************************************************************)
(* Third, what genv installed stays accounted for.                         *)
(***************************************************************************)
\* A command that has installed something keeps it in its hands until it writes
\* the lock.
LEMMA HoldsStays ==
    ASSUME Ind, Sound, NEW p \in Procs, Step(p), NEW id, Holds(proc[p], id), ~WriteLock(p),
           Faults \cap {"crash", "specfile", "lockfile"} = {}
    PROVE  Holds(proc'[p], id)
<1>1. DOMAIN proc[p] = Fields /\ id \in LockedIds(proc[p].entries)
  BY WellFormed DEF Holds
<1>2. CASE proc[p].cmd = "add" /\ proc[p].id = id /\ proc[p].pc \in {"spec", "lock", "read", "write"}
  <2>1. ~Begin(p) /\ ~Return(p) /\ ~Crash(p) /\ ~AddStage(p) /\ ~AddInstall(p)
    BY <1>2 DEF Begin, Return, Crash, AddStage, AddInstall, At, May
  <2>2. ~AdoptStage(p) /\ ~AdoptQuery(p) /\ ~AdoptCheck(p) /\ ~AdoptPrepare(p)
    BY <1>2 DEF AdoptStage, AdoptQuery, AdoptCheck, AdoptPrepare, At
  <2>3. ~RemoveStage(p) /\ ~RemoveUninstall(p) /\ ~DisownStage(p) /\ ~ScanStage(p)
    BY <1>2 DEF RemoveStage, RemoveUninstall, DisownStage, ScanStage, At
  <2>4. ~ApplyPlan(p) /\ ~ApplyRemove(p) /\ ~ApplyInstall(p) /\ ~Upgrade(p)
    BY <1>2 DEF ApplyPlan, ApplyRemove, ApplyInstall, Upgrade, At, Applies
  <2>5. CASE WriteSpec(p)
    BY <1>1, <1>2, <2>5, WriteSpecGoes DEF Holds
  <2>6. CASE LockMutation(p)
    <3> DEFINE c == [proc[p] EXCEPT !.pc = "read"]
    <3>1. c.pc = "read" /\ c.cmd = proc[p].cmd /\ c.id = proc[p].id /\ c.entries = proc[p].entries /\ Become(p, c)
      BY <1>1, <2>6 DEF LockMutation, Goto, Fields
    <3> HIDE DEF c
    <3> QED BY <1>1, <1>2, <3>1, Becomes DEF Holds
  <2>7. CASE ReadLock(p)
    <3> DEFINE c == [[proc[p] EXCEPT !.lf = lock] EXCEPT !.pc = "write"]
    <3>1. c.pc = "write" /\ c.cmd = proc[p].cmd /\ c.id = proc[p].id /\ c.entries = proc[p].entries
      BY <1>1 DEF Fields
    <3>2. Become(p, c)
      <4> DEFINE b == [proc[p] EXCEPT !.lf = lock]
      <4>1. b.cmd = "add"
        BY <1>1, <1>2 DEF Fields
      <4>2. Become(p, AfterRead(p, b, LockedIds(lock.packages)))
        BY <2>7 DEF ReadLock, May
      <4> HIDE DEF b
      <4>3. AfterRead(p, b, LockedIds(lock.packages)) = [b EXCEPT !.pc = "write"]
        BY <4>1 DEF AfterRead
      <4> QED BY <4>2, <4>3 DEF b
    <3> HIDE DEF c
    <3> QED BY <1>1, <1>2, <3>1, <3>2, Becomes DEF Holds
  <2> QED BY <2>1, <2>2, <2>3, <2>4, <2>5, <2>6, <2>7 DEF Step
<1>3. CASE proc[p].cmd \in Applies /\ proc[p].pc \in {"install", "write"}
  <2>1. ~Begin(p) /\ ~Return(p) /\ ~Crash(p) /\ ~AddStage(p) /\ ~AddInstall(p) /\ ~LockMutation(p)
        /\ ~ReadLock(p) /\ ~WriteSpec(p)
    BY <1>3 DEF Begin, Return, Crash, AddStage, AddInstall, LockMutation, ReadLock, WriteSpec, At, May, Applies
  <2>2. ~AdoptStage(p) /\ ~AdoptQuery(p) /\ ~AdoptCheck(p) /\ ~AdoptPrepare(p)
    BY <1>3 DEF AdoptStage, AdoptQuery, AdoptCheck, AdoptPrepare, At
  <2>3. ~RemoveStage(p) /\ ~RemoveUninstall(p) /\ ~DisownStage(p) /\ ~ScanStage(p)
    BY <1>3 DEF RemoveStage, RemoveUninstall, DisownStage, ScanStage, At
  <2>4. ~ApplyPlan(p) /\ ~ApplyRemove(p) /\ ~Upgrade(p)
    BY <1>3 DEF ApplyPlan, ApplyRemove, Upgrade, At
  <2>5. ApplyInstall(p)
    BY <2>1, <2>2, <2>3, <2>4 DEF Step
  <2> DEFINE b == [proc[p] EXCEPT !.todo = Tail(@)]
  <2>6. ASSUME NEW c, DOMAIN c = Fields, c.pc = "install", c.cmd = proc[p].cmd,
               id \in LockedIds(c.entries), Become(p, Settling(c))
        PROVE  Holds(proc'[p], id)
    <3>1. Settling(c).pc \in {"install", "write"} /\ Settling(c).cmd = c.cmd /\ Settling(c).entries = c.entries
      BY <2>6 DEF Settling, Fields
    <3>2. proc'[p] = Settling(c)
      BY <2>6, Becomes
    <3> QED BY <1>3, <2>6, <3>1, <3>2 DEF Holds
  <2>7. CASE Become(p, Settling([b EXCEPT !.failed = TRUE]))
    <3> DEFINE c == [b EXCEPT !.failed = TRUE]
    <3>1. DOMAIN c = Fields /\ c.pc = "install" /\ c.cmd = proc[p].cmd /\ c.entries = proc[p].entries
          /\ Become(p, Settling(c))
      BY <1>1, <2>5, <2>7 DEF ApplyInstall, At, Fields
    <3> HIDE DEF c
    <3> QED BY <1>1, <2>6, <3>1
  <2>8. ASSUME NEW e, Become(p, Settling([b EXCEPT !.entries = Append(@, e)])) PROVE Holds(proc'[p], id)
    <3> DEFINE c == [b EXCEPT !.entries = Append(@, e)]
    <3>1. DOMAIN c = Fields /\ c.pc = "install" /\ c.cmd = proc[p].cmd /\ c.entries = Append(proc[p].entries, e)
          /\ Become(p, Settling(c))
      BY <1>1, <2>5, <2>8 DEF ApplyInstall, At, Fields
    <3> HIDE DEF c
    <3>2. proc[p].entries \in Seq(Entry)
      BY DEF Sound, Good, WellTyped
    <3>3. id \in LockedIds(Append(proc[p].entries, e))
      <4>1. PICK i \in DOMAIN proc[p].entries : proc[p].entries[i].id = id
        BY <1>1 DEF LockedIds
      <4>2. i \in DOMAIN Append(proc[p].entries, e) /\ Append(proc[p].entries, e)[i] = proc[p].entries[i]
        BY <3>2, <4>1
      <4> QED BY <4>1, <4>2 DEF LockedIds
    <3> QED BY <2>6, <3>1, <3>3
  <2> QED BY <2>5, <2>7, <2>8 DEF ApplyInstall
<1> QED BY <1>2, <1>3 DEF Holds

\* A package comes to be cleared by being uninstalled, or by a remove that has
\* not found it in the lock.
LEMMA ClearedComes ==
    ASSUME Ind, Sound, NEW p \in Procs, Step(p), NEW id, Cleared(proc'[p], id), ~Cleared(proc[p], id)
    PROVE  \/ id \notin LockedIds(lock.packages)
           \/ \E m \in Managers : Take(m, id)
<1>1. DOMAIN proc[p] = Fields /\ ~Elsewhere(proc'[p])
  BY WellFormed DEF Elsewhere, Cleared
<1>2. \/ ReadLock(p) \/ WriteSpec(p) \/ RemoveUninstall(p) \/ ApplyPlan(p) \/ ApplyRemove(p) \/ ApplyInstall(p)
  BY <1>1, OthersStay
<1>3. CASE WriteSpec(p)
  <2>1. proc[p].pc = "spec"
    BY <1>3 DEF WriteSpec
  <2> QED BY <1>3, <2>1, WriteSpecGoes DEF Cleared
<1>4. CASE ReadLock(p)
  <2>1. ~Exit(p, "io")
    BY <1>1, ExitElsewhere
  <2> DEFINE b == [proc[p] EXCEPT !.lf = lock]
             c == AfterRead(p, b, LockedIds(lock.packages))
  <2>2. Become(p, c)
    BY <1>4, <2>1 DEF ReadLock
  <2>3. DOMAIN b = Fields /\ b.pc = "read"
    BY <1>1, <1>4 DEF ReadLock, Fields
  <2> HIDE DEF b
  <2>4. ~(c.cmd \in Applies /\ c.pc \in {"remove", "install", "write"})
    <3>1. CASE b.cmd \in {"add", "adopt"}
      BY <2>3, <3>1 DEF AfterRead, Fields, Applies
    <3>2. CASE b.cmd = "remove"
      BY <2>3, <3>2 DEF AfterRead, Fields, Applies
    <3>3. CASE b.cmd = "disown"
      BY <2>3, <3>3 DEF AfterRead, Fields, Applies
    <3>4. CASE b.cmd = "scan"
      BY <2>3, <3>4 DEF AfterRead, Fields, Applies
    <3>5. CASE b.cmd \notin {"add", "adopt", "remove", "disown", "scan"}
      BY <2>3, <3>5 DEF AfterRead, Fields, Applies
    <3> QED BY <3>1, <3>2, <3>3, <3>4, <3>5
  <2>5. c.cmd = "remove" /\ c.pc \in {"spec", "write"} => c.id \notin LockedIds(lock.packages)
    <3>1. CASE b.cmd \in {"add", "adopt"}
      BY <2>3, <3>1 DEF AfterRead, Fields
    <3>2. CASE b.cmd = "remove"
      BY <2>3, <3>2 DEF AfterRead, Fields
    <3>3. CASE b.cmd = "disown"
      BY <2>3, <3>3 DEF AfterRead, Fields
    <3>4. CASE b.cmd = "scan"
      BY <2>3, <3>4 DEF AfterRead, Fields
    <3>5. CASE b.cmd \notin {"add", "adopt", "remove", "disown", "scan"}
      BY <2>3, <3>5 DEF AfterRead, Fields
    <3> QED BY <3>1, <3>2, <3>3, <3>4, <3>5
  <2> HIDE DEF c
  <2>6. proc'[p] = c
    BY <2>2, Becomes
  <2> QED BY <2>4, <2>5, <2>6 DEF Cleared
<1>5. CASE RemoveUninstall(p)
  <2>1. ~Exit(p, "logic")
    BY <1>1, ExitElsewhere
  <2> DEFINE e == LastEntry(proc[p].lf.packages, proc[p].id)
  <2>2. Take(e.manager, e.id) /\ Goto(p, "spec") /\ proc[p].pc = "uninstall" /\ proc[p].cmd = "remove"
    BY <1>5, <2>1 DEF RemoveUninstall, At
  <2>3. e \in Entry /\ e.id = proc[p].id
    BY <2>2, LastEntryLemma DEF Sound, Good, WellTyped, LockFile
  <2> DEFINE c == [proc[p] EXCEPT !.pc = "spec"]
  <2>4. c.cmd = "remove" /\ c.id = proc[p].id /\ Become(p, c)
    BY <1>1, <2>2 DEF Goto, Fields
  <2> HIDE DEF c, e
  <2>5. id = e.id
    BY <2>3, <2>4, Becomes DEF Cleared, Applies
  <2> QED BY <2>2, <2>3, <2>5 DEF Entry
<1>6. ASSUME NEW c, DOMAIN c = Fields, c.cmd \in Applies, Become(p, Installing(c)) \/ Become(p, Settling(c))
      PROVE  id \in c.uninstalled
  <2>1. /\ Installing(c).cmd = c.cmd /\ Installing(c).uninstalled = c.uninstalled
        /\ Settling(c).cmd = c.cmd /\ Settling(c).uninstalled = c.uninstalled
    BY <1>6 DEF Installing, Settling, Fields
  <2>2. proc'[p] = Installing(c) \/ proc'[p] = Settling(c)
    BY <1>6, Becomes
  <2> QED BY <1>6, <2>1, <2>2 DEF Cleared, Applies
<1>7. CASE ApplyPlan(p)
  <2>1. \A code : ~Exit(p, code)
    BY <1>1, ExitElsewhere
  <2>2. PICK lf, plan, todo : Become(p, Installing([proc[p] EXCEPT !.pc = "remove", !.lf = lf, !.plan = plan,
                                                        !.staged = spec, !.todo = todo]))
    BY <1>7, <2>1 DEF ApplyPlan
  <2> DEFINE c == [proc[p] EXCEPT !.pc = "remove", !.lf = lf, !.plan = plan, !.staged = spec, !.todo = todo]
  <2>3. DOMAIN c = Fields /\ c.cmd = proc[p].cmd /\ c.uninstalled = proc[p].uninstalled /\ Become(p, Installing(c))
    BY <1>1, <2>2 DEF Fields
  <2>4. proc[p].cmd \in Applies /\ proc[p].uninstalled = {}
    BY <1>7 DEF ApplyPlan, At, Sound, Good, Applying
  <2> HIDE DEF c
  <2> QED BY <1>6, <2>3, <2>4
<1>8. CASE ApplyRemove(p)
  <2> DEFINE e == Head(proc[p].todo)
             b == [proc[p] EXCEPT !.todo = Tail(@)]
             done == [b EXCEPT !.uninstalled = @ \cup {e.id}]
             failed == [b EXCEPT !.failed = TRUE]
  <2>1. proc[p].cmd \in Applies /\ proc[p].pc = "remove" /\ id \notin proc[p].uninstalled
    BY <1>8 DEF ApplyRemove, At, Cleared
  <2>2. /\ DOMAIN done = Fields /\ done.cmd = proc[p].cmd /\ done.uninstalled = proc[p].uninstalled \cup {e.id}
        /\ DOMAIN failed = Fields /\ failed.cmd = proc[p].cmd /\ failed.uninstalled = proc[p].uninstalled
    BY <1>1 DEF Fields
  <2>3. \/ Take(e.manager, e.id) /\ Become(p, Installing(done))
        \/ Become(p, Installing(failed))
    BY <1>8 DEF ApplyRemove
  <2>4. e \in Entry
    BY <2>1, ToSetTail DEF Sound, Good, Applying, CarriesOut
  <2> HIDE DEF e, done, failed
  <2>5. Take(e.manager, e.id) /\ id = e.id
    BY <1>6, <2>1, <2>2, <2>3
  <2> QED BY <2>4, <2>5 DEF Entry
<1>9. CASE ApplyInstall(p)
  <2> DEFINE b == [proc[p] EXCEPT !.todo = Tail(@)]
  <2>1. proc[p].cmd \in Applies /\ proc[p].pc = "install" /\ id \notin proc[p].uninstalled
    BY <1>9 DEF ApplyInstall, At, Cleared
  <2>2. ASSUME NEW es, Become(p, Settling([b EXCEPT !.entries = es])) PROVE FALSE
    <3> DEFINE c == [b EXCEPT !.entries = es]
    <3>1. DOMAIN c = Fields /\ c.cmd = proc[p].cmd /\ c.uninstalled = proc[p].uninstalled /\ Become(p, Settling(c))
      BY <1>1, <2>2 DEF Fields
    <3> HIDE DEF c
    <3> QED BY <1>6, <2>1, <3>1
  <2>3. ASSUME Become(p, Settling([b EXCEPT !.failed = TRUE])) PROVE FALSE
    <3> DEFINE c == [b EXCEPT !.failed = TRUE]
    <3>1. DOMAIN c = Fields /\ c.cmd = proc[p].cmd /\ c.uninstalled = proc[p].uninstalled /\ Become(p, Settling(c))
      BY <1>1, <2>3 DEF Fields
    <3> HIDE DEF c
    <3> QED BY <1>6, <2>1, <3>1
  <2> QED BY <1>9, <2>2, <2>3 DEF ApplyInstall
<1> QED BY <1>2, <1>3, <1>4, <1>5, <1>7, <1>8, <1>9

\* A command that ends by writing the lock has put there what it had in its hands.
LEMMA WriteRecords ==
    ASSUME Ind, Sound, NEW p \in Procs, WriteLock(p), NEW id, Holds(proc[p], id), "lockfile" \notin Faults
    PROVE  id \in LockedIds(lock'.packages)
<1>1. proc[p].pc = "write" /\ Good(proc[p]) /\ WorldOK /\ id \in LockedIds(proc[p].entries)
      /\ proc[p].cmd \in {"add"} \cup Applies
  BY DEF WriteLock, Sound, Holds
<1>2. ASSUME NoWork(proc[p]) PROVE FALSE
  <2>1. CarriesOut(proc[p])
    BY <1>1, <1>2 DEF Good, Applying, NoWork
  <2> QED BY <1>1, <1>2, <2>1 DEF NoWork, CarriesOut
<1>3. \E success \in BOOLEAN : \E answering : lock' = NewLock(proc[p], success, answering)
  <2>1. proc[p].failed \in BOOLEAN => (~proc[p].failed) \in BOOLEAN
    OBVIOUS
  <2>2. proc[p].cmd \in Applies => proc[p].failed \in BOOLEAN
    BY <1>1 DEF Good, Applying, CarriesOut
  <2>3. ASSUME NEW success, NEW answering, lock' = NewLock(proc[p], success, answering), proc[p].cmd = "add"
        PROVE  lock' = NewLock(proc[p], TRUE, answering)
    BY <2>3 DEF NewLock
  <2>4. CASE lock' = NewLock(proc[p], ~proc[p].failed, Available) \/ lock' = NewLock(proc[p], ~proc[p].failed, {})
    BY <1>1, <2>1, <2>2, <2>3, <2>4
  <2>5. CASE lock' = NewLock(proc[p], TRUE, Available) \/ lock' = NewLock(proc[p], FALSE, Available)
    BY <2>5
  <2> QED BY <1>2, <2>4, <2>5 DEF WriteLock, May
<1> QED BY <1>1, <1>3, NewLockLemma

\* What a step installs is in the hands of the command that takes it.
LEMMA PutIsHeld ==
    ASSUME Ind, Sound, NEW p \in Procs, Step(p),
           NEW k \in mine', mine' \subseteq Managers \X Ids \X Targets, machine'[k[1]][k[2]] # None,
           k \notin mine \/ machine[k[1]][k[2]] = None
    PROVE  Holds(proc'[p], k[2])
<1>1. DOMAIN proc[p] = Fields /\ machine \in Machine /\ k[1] \in Managers /\ k[2] \in Ids
  BY WellFormed DEF Sound, WorldOK
<1>2. ASSUME NEW t, NEW m, NEW id, NEW v, Put(t, m, id, v) PROVE k[2] = id
  <2>1. CASE k \notin mine
    BY <1>2, <2>1 DEF Put
  <2>2. CASE machine[k[1]][k[2]] = None
    BY <1>1, <1>2, <2>2 DEF Put, Machine
  <2> QED BY <2>1, <2>2
<1>3. ASSUME mine' \subseteq mine, machine' = machine PROVE FALSE
  BY <1>3
<1>4. ASSUME NEW m, NEW id, Take(m, id) PROVE FALSE
  BY <1>1, <1>4 DEF Take, Machine
<1>5. AddInstall(p) \/ ApplyInstall(p)
  <2>1. ~Begin(p) /\ ~LockMutation(p) /\ ~ReadLock(p) /\ ~WriteSpec(p) /\ ~WriteLock(p) /\ ~Return(p) /\ ~Crash(p)
    BY <1>3 DEF Begin, LockMutation, ReadLock, WriteSpec, WriteLock, Return, Crash, World
  <2>2. ~AddStage(p) /\ ~AdoptStage(p) /\ ~AdoptQuery(p) /\ ~AdoptCheck(p) /\ ~AdoptPrepare(p)
    BY <1>3 DEF AddStage, AdoptStage, AdoptQuery, AdoptCheck, AdoptPrepare, World
  <2>3. ~RemoveStage(p) /\ ~DisownStage(p) /\ ~ScanStage(p) /\ ~ApplyPlan(p)
    BY <1>3 DEF RemoveStage, DisownStage, ScanStage, ApplyPlan, World
  <2>4. ~RemoveUninstall(p) /\ ~ApplyRemove(p)
    BY <1>3, <1>4 DEF RemoveUninstall, ApplyRemove, World
  <2>5. ~Upgrade(p)
    <3>1. ASSUME Upgrade(p) PROVE FALSE
      <4>1. mine' = mine
        BY <3>1 DEF Upgrade
      <4>2. CASE UNCHANGED machine
        BY <1>3, <4>1, <4>2
      <4>3. ASSUME NEW m, NEW id, NEW v, machine[m][id] # None, machine' = [machine EXCEPT ![m][id] = v] PROVE FALSE
        BY <1>1, <4>1, <4>3 DEF Machine
      <4>4. ASSUME NEW i \in DOMAIN proc[p].lf.packages, NEW v \in Versions,
                   machine[proc[p].lf.packages[i].manager][proc[p].lf.packages[i].id] # None,
                   machine' = [machine EXCEPT ![proc[p].lf.packages[i].manager][proc[p].lf.packages[i].id] = v]
            PROVE  FALSE
        BY <4>3, <4>4
      <4>5. \/ UNCHANGED machine
            \/ \E i \in DOMAIN proc[p].lf.packages, v \in Versions :
                  /\ machine[proc[p].lf.packages[i].manager][proc[p].lf.packages[i].id] # None
                  /\ machine' = [machine EXCEPT ![proc[p].lf.packages[i].manager][proc[p].lf.packages[i].id] = v]
        BY <3>1 DEF Upgrade
      <4> QED BY <4>2, <4>4, <4>5
    <3> QED BY <3>1
  <2> QED BY <2>1, <2>2, <2>3, <2>4, <2>5 DEF Step
<1>6. CASE AddInstall(p)
  <2>1. proc[p].cmd = "add" /\ proc[p].pc = "install" /\ Goto(p, "spec") /\ k[2] = proc[p].id
    BY <1>2, <1>3, <1>6 DEF AddInstall, At, World
  <2>2. proc[p].entries[1].id = proc[p].id /\ 1 \in DOMAIN proc[p].entries
    <3>1. proc[p].entries[1].id = proc[p].id /\ proc[p].entries \in Seq(Entry) /\ proc[p].entries # <<>>
      BY <2>1 DEF Sound, Good, WellTyped, HasEntry, Applies
    <3> QED BY <3>1
  <2> DEFINE c == [proc[p] EXCEPT !.pc = "spec"]
  <2>3. c.pc = "spec" /\ c.cmd = "add" /\ c.id = proc[p].id /\ c.entries = proc[p].entries /\ Become(p, c)
    BY <1>1, <2>1 DEF Goto, Fields
  <2> HIDE DEF c
  <2> QED BY <2>1, <2>2, <2>3, Becomes DEF Holds, LockedIds
<1>7. CASE ApplyInstall(p)
  <2> DEFINE b == [proc[p] EXCEPT !.todo = Tail(@)]
             id == Head(proc[p].todo)
  <2>1. /\ proc[p].cmd \in Applies /\ proc[p].pc = "install" /\ k[2] = id
        /\ \E m, v : Become(p, Settling([b EXCEPT !.entries = Append(@, [id |-> id, manager |-> m, version |-> v])]))
    BY <1>2, <1>3, <1>7 DEF ApplyInstall, At, World
  <2>2. PICK m, v : Become(p, Settling([b EXCEPT !.entries = Append(@, [id |-> id, manager |-> m, version |-> v])]))
    BY <2>1
  <2> DEFINE e == [id |-> id, manager |-> m, version |-> v]
             c == [b EXCEPT !.entries = Append(@, e)]
  <2>3. DOMAIN c = Fields /\ c.pc = "install" /\ c.cmd = proc[p].cmd /\ c.entries = Append(proc[p].entries, e)
        /\ Become(p, Settling(c)) /\ e.id = id
    BY <1>1, <2>1, <2>2 DEF Fields
  <2> HIDE DEF c, e
  <2>4. id \in LockedIds(c.entries)
    <3>1. proc[p].entries \in Seq(Entry)
      BY DEF Sound, Good, WellTyped
    <3> DEFINE n == Len(proc[p].entries) + 1
    <3>2. n \in DOMAIN Append(proc[p].entries, e) /\ Append(proc[p].entries, e)[n] = e
      BY <3>1
    <3> QED BY <2>3, <3>2 DEF LockedIds
  <2>5. Settling(c).pc \in {"install", "write"} /\ Settling(c).cmd = c.cmd /\ Settling(c).entries = c.entries
    BY <2>3 DEF Settling, Fields
  <2>6. proc'[p] = Settling(c)
    BY <2>3, Becomes
  <2> HIDE DEF id
  <2> QED BY <2>1, <2>3, <2>4, <2>5, <2>6 DEF Holds
<1> QED BY <1>5, <1>6, <1>7

LEMMA RecordedStays ==
    ASSUME Ind, Sound, Recorded, [Next]_vars, \A m, n \in Managers : m = n, "forced" \notin Kinds,
           Faults \cap {"crash", "specfile", "lockfile"} = {}
    PROVE  Recorded'
<1> SUFFICES ASSUME NEW k, k \in mine', machine'[k[1]][k[2]] # None PROVE Covered(k[2])'
  BY DEF Recorded, Covered
<1>1. mine' \subseteq Managers \X Ids \X Targets /\ machine \in Machine
  BY SoundStays DEF Sound, WorldOK
<1>2. k[1] \in Managers /\ k[2] \in Ids
  BY <1>1
<1> DEFINE id == k[2]
<1>3. CASE EditSpec \/ UNCHANGED vars
  <2>1. proc' = proc /\ lock' = lock /\ machine' = machine /\ mine' = mine
    BY <1>3 DEF EditSpec, vars, World
  <2> QED BY <2>1 DEF Recorded, Covered
<1>4. CASE ByHand
  <2>1. proc' = proc /\ lock' = lock
    BY <1>4 DEF ByHand, Files
  <2>2. mine' \subseteq mine /\ machine[k[1]][k[2]] # None
    BY <1>1, <1>2, <1>4 DEF ByHand, Take, Machine
  <2> QED BY <2>1, <2>2 DEF Recorded, Covered
<1>5. ASSUME NEW p \in Procs, Step(p) PROVE Covered(id)'
  <2>1. \A q \in Procs \ {p} : proc'[q] = proc[q]
    BY <1>5, OthersStay
  <2>2. CASE k \notin mine \/ machine[k[1]][k[2]] = None
    <3>1. Holds(proc'[p], id)
      BY <1>1, <1>5, <2>2, PutIsHeld
    <3> QED BY <3>1 DEF Covered
  <2>3. ASSUME k \in mine, machine[k[1]][k[2]] # None, NEW q \in Procs, Holds(proc[q], id)
        PROVE  Covered(id)'
    <3>1. CASE q # p
      BY <2>1, <2>3, <3>1 DEF Covered
    <3>2. CASE q = p /\ ~WriteLock(p)
      BY <1>5, <2>3, <3>2, HoldsStays DEF Covered
    <3>3. CASE q = p /\ WriteLock(p)
      <4>1. id \in LockedIds(lock'.packages)
        BY <2>3, <3>3, WriteRecords
      <4>2. ASSUME NEW r \in Procs, r # p PROVE ~Cleared(proc'[r], id)
        <5>1. mutex = p
          BY <3>3 DEF WriteLock, Ind, Within
        <5>2. ~Within(proc[r])
          BY <4>2, <5>1 DEF Ind
        <5> QED BY <2>1, <4>2, <5>2 DEF Cleared, Within
      <4>3. ~Cleared(proc'[p], id)
        <5>1. PICK code : Exit(p, code)
          BY <3>3, WriteLockLemma
        <5> QED BY <5>1, ExitElsewhere DEF Elsewhere, Cleared
      <4> QED BY <4>1, <4>2, <4>3 DEF Covered
    <3> QED BY <3>1, <3>2, <3>3
  <2>4. CASE k \in mine /\ id \in LockedIds(lock.packages) /\ \A q \in Procs : ~Cleared(proc[q], id)
    <3>1. ~Cleared(proc'[p], id)
      <4>1. ASSUME NEW m \in Managers, Take(m, id) PROVE FALSE
        <5>1. m = k[1]
          BY <1>2, <4>1
        <5> QED BY <4>1, <5>1 DEF Take
      <4> QED BY <1>5, <2>4, <4>1, ClearedComes
    <3>2. \A q \in Procs : ~Cleared(proc'[q], id)
      BY <2>1, <2>4, <3>1
    <3>3. id \in LockedIds(lock'.packages)
      <4> SUFFICES ASSUME id \notin LockedIds(lock'.packages) PROVE FALSE
        OBVIOUS
      <4>1. lock' # lock
        BY <2>4
      <4>2. WriteLock(p) \/ ApplyPlan(p)
        BY <1>5, <4>1, LockWriters
      <4>3. CASE WriteLock(p)
        <5>1. OnPurpose(p, id) /\ proc[p].pc = "write"
          BY <2>4, <4>3, WriteForgets DEF WriteLock
        <5>2. proc[p].cmd # "disown"
          <6>1. proc[p].cmd = "disown" => proc[p].id = id
            BY <5>1 DEF OnPurpose, At, Applies
          <6>2. proc[p].cmd = "disown" => mine' = {c \in mine : c[2] # proc[p].id}
            BY <4>1, <4>3 DEF WriteLock
          <6> QED BY <6>1, <6>2
        <5> QED BY <2>4, <5>1, <5>2 DEF OnPurpose, Cleared, At
      <4>4. CASE ApplyPlan(p)
        <5>1. At(p, {"forced"}, "plan")
          BY <4>1, <4>4 DEF ApplyPlan, At, Applies
        <5>2. proc[p].cmd \in Kinds \cup {"none"}
          BY DEF Sound, Good, WellTyped
        <5> QED BY <5>1, <5>2 DEF At
      <4> QED BY <4>2, <4>3, <4>4
    <3> QED BY <3>2, <3>3 DEF Covered
  <2> QED BY <2>2, <2>3, <2>4 DEF Recorded, Covered
<1> QED BY <1>3, <1>4, <1>5 DEF Next

\* What genv itself installed never ends up installed and untracked, as long as
\* there is one manager, every process lives until it has written its files, and
\* no lock is forced aside.  Each of these hypotheses marks a place where a copy
\* can be orphaned: an apply that moves a package to another manager leaves the
\* old copy, a crash or a failed write comes between the install and its record,
\* and a forced apply forgets the lock it finds.
THEOREM NothingIsOrphaned ==
    ASSUME \A m, n \in Managers : m = n, "forced" \notin Kinds,
           Faults \cap {"crash", "specfile", "lockfile"} = {}
    PROVE  Spec => []NoOrphan
<1>1. Init => Ind /\ Sound /\ Recorded
  BY Initially, InitiallySound DEF Init, Recorded
<1>2. Ind /\ Sound /\ Recorded /\ [Next]_vars => Ind' /\ Sound' /\ Recorded'
  BY Preserves, SoundStays, RecordedStays
<1>3. Ind /\ Sound /\ Recorded => NoOrphan
  <2> SUFFICES ASSUME Ind, Sound, Recorded, NEW k \in mine, machine[k[1]][k[2]] # None
               PROVE  Accounted(k[1], k[2])
    BY DEF NoOrphan
  <2>1. k[1] \in Managers /\ Covered(k[2])
    BY DEF Sound, WorldOK, Recorded
  <2>2. CASE k[2] \in LockedIds(lock.packages)
    <3>1. PICK i \in DOMAIN lock.packages : lock.packages[i].id = k[2]
      BY <2>2 DEF LockedIds
    <3>2. lock.packages[i] \in Entry
      <4>1. lock.packages \in Seq(Entry)
        BY DEF Sound, WorldOK, LockFile
      <4> QED BY <3>1, <4>1
    <3>3. lock.packages[i].manager = k[1]
      BY <2>1, <3>2 DEF Entry
    <3> QED BY <3>1, <3>3 DEF Accounted
  <2>3. ASSUME NEW p \in Procs, Holds(proc[p], k[2]) PROVE Accounted(k[1], k[2])
    <3>1. PICK i \in DOMAIN proc[p].entries : proc[p].entries[i].id = k[2]
      BY <2>3 DEF Holds, LockedIds
    <3>2. proc[p].entries[i] \in Entry
      <4>1. proc[p].entries \in Seq(Entry)
        BY DEF Sound, Good, WellTyped
      <4> QED BY <3>1, <4>1
    <3>3. proc[p].entries[i].manager = k[1]
      BY <2>1, <3>2 DEF Entry
    <3>4. proc[p].pc # "done"
      BY <2>3 DEF Holds
    <3> QED BY <3>1, <3>3, <3>4 DEF Accounted
  <2> QED BY <2>1, <2>2, <2>3 DEF Covered
<1> QED BY <1>1, <1>2, <1>3, PTL DEF Spec

=============================================================================
