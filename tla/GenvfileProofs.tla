--------------------------- MODULE GenvfileProofs ---------------------------
(***************************************************************************)
(* Proofs about the two files that internal/genvfile keeps: LockMutex, the *)
(* mutex of genv.lock.json, and SpecLife, the life of genv.json.           *)
(*                                                                         *)
(* LockMutex, for any processes, any inodes, both builds and any number of *)
(* faults.  MutualExclusion is not inductive.  What carries it is that a   *)
(* holder's inode is still the one the path names (HeldIsNamed), and that  *)
(* one inode is locked through at most one open file (FlockIsExclusive):   *)
(* two holders would have the same inode locked.  HeldIsNamed survives a   *)
(* release because whoever removes the sidecar is itself a holder (unix),  *)
(* or finds it open and fails (windows).                                   *)
(*                                                                         *)
(* SpecLife, for any documents, profiles and machines and any number of    *)
(* commands and faults.  The inductive invariant SpecInv is that both      *)
(* documents can be read and that the export under way is of a target as   *)
(* it was when the export began.  The rest is what is done to a document:  *)
(* whatever is written back says what was to be written (RewrittenSays),   *)
(* an edit changes one target's environment as it was asked to (AskedDoes),*)
(* an added package is written in place (AddedWritten), a legacy document  *)
(* that was edited or migrated passes the validation (LegacyWritten,       *)
(* MigratedValid) and a migrated one says what its predicates said         *)
(* (MigratedSays).                                                         *)
(***************************************************************************)
EXTENDS LockMutex, SpecLife, ListTheorems, FiniteSetTheorems, TLAPS

-----------------------------------------------------------------------------
(* The mutex.                                                              *)

\* One inode's flock belongs to one open file.
FlockIsExclusive ==
  \A p, q \in locked : fd[p] = fd[q] => p = q

\* While p holds the mutex the path names the inode p locked.
HeldIsNamed ==
  \A p \in Procs : pc[p] = "held" => path = fd[p]

\* Only a windows process reaches "remove", only a unix one "unlock".
BuildLabels ==
  \A p \in Procs : (pc[p] = "remove" => ~unix) /\ (pc[p] = "unlock" => unix)

IInv == TypeOK /\ FlockIsExclusive /\ HeldIsNamed /\ BuildLabels

-----------------------------------------------------------------------------

LEMMA InitIInv == LockInit => IInv
BY NoInodeAssumption, MaxFailuresAssumption
   DEF LockInit, IInv, TypeOK, FlockIsExclusive, HeldIsNamed, BuildLabels, Labels,
       OpenLabels, LockedLabels

\* The inductive invariant implies the two facts the callers rely on.
LEMMA IInvExclusion == IInv => MutualExclusion
BY DEF IInv, TypeOK, FlockIsExclusive, HeldIsNamed, MutualExclusion, LockedLabels

LEMMA StepIInv ==
  ASSUME IInv, [LockNext]_lockVars
  PROVE  IInv'
<1> USE NoInodeAssumption, MaxFailuresAssumption
<1>1. ASSUME NEW p \in Procs, Call(p)
      PROVE  IInv'
  BY <1>1 DEF Call, Goto, IInv, TypeOK, FlockIsExclusive, HeldIsNamed, BuildLabels,
              Labels, OpenLabels, LockedLabels
<1>2. ASSUME NEW p \in Procs, OpenFile(p)
      PROVE  IInv'
  <2>1. path' \in Inodes /\ (path # NoInode => path' = path)
    BY <1>2 DEF OpenFile, IInv, TypeOK
  <2>2. TypeOK'
    BY <1>2, <2>1 DEF OpenFile, Goto, IInv, TypeOK, Labels, OpenLabels, LockedLabels
  <2>3. HeldIsNamed'
    BY <1>2, <2>1 DEF OpenFile, Goto, IInv, TypeOK, HeldIsNamed, OpenLabels
  <2>4. FlockIsExclusive' /\ BuildLabels'
    BY <1>2 DEF OpenFile, Goto, IInv, TypeOK, FlockIsExclusive, BuildLabels, LockedLabels
  <2> QED BY <2>2, <2>3, <2>4 DEF IInv
<1>3. ASSUME NEW p \in Procs, FlockExclusive(p)
      PROVE  IInv'
  <2>1. TypeOK'
    BY <1>3 DEF FlockExclusive, Goto, IInv, TypeOK, Labels, OpenLabels, LockedLabels
  <2>2. FlockIsExclusive'
    BY <1>3 DEF FlockExclusive, IInv, FlockIsExclusive
  <2>3. HeldIsNamed' /\ BuildLabels'
    BY <1>3 DEF FlockExclusive, Goto, IInv, TypeOK, HeldIsNamed, BuildLabels
  <2> QED BY <2>1, <2>2, <2>3 DEF IInv
<1>4. ASSUME NEW p \in Procs, SameFile(p)
      PROVE  IInv'
  BY <1>4 DEF SameFile, Goto, IInv, TypeOK, FlockIsExclusive, HeldIsNamed, BuildLabels,
              Labels, OpenLabels, LockedLabels
<1>5. ASSUME NEW p \in Procs, StaleUnlock(p)
      PROVE  IInv'
  BY <1>5 DEF StaleUnlock, Goto, IInv, TypeOK, FlockIsExclusive, HeldIsNamed, BuildLabels,
              Labels, OpenLabels, LockedLabels
<1>6. ASSUME NEW p \in Procs, StaleClose(p)
      PROVE  IInv'
  BY <1>6 DEF StaleClose, Goto, IInv, TypeOK, FlockIsExclusive, HeldIsNamed, BuildLabels,
              Labels, OpenLabels, LockedLabels
<1>7. ASSUME NEW p \in Procs, Unlink(p)
      PROVE  IInv'
  \* A second holder would have p's inode locked too.
  <2>1. \A q \in Procs : pc[q] = "held" => q = p
    BY <1>7, IInvExclusion DEF Unlink, MutualExclusion
  <2>2. HeldIsNamed'
    BY <1>7, <2>1 DEF Unlink, Goto, IInv, TypeOK, HeldIsNamed
  <2>3. TypeOK' /\ FlockIsExclusive' /\ BuildLabels'
    BY <1>7 DEF Unlink, Goto, IInv, TypeOK, FlockIsExclusive, BuildLabels,
                Labels, OpenLabels, LockedLabels
  <2> QED BY <2>2, <2>3 DEF IInv
<1>8. ASSUME NEW p \in Procs, Unlock(p)
      PROVE  IInv'
  BY <1>8 DEF Unlock, Goto, IInv, TypeOK, FlockIsExclusive, HeldIsNamed, BuildLabels,
              Labels, OpenLabels, LockedLabels
<1>9. ASSUME NEW p \in Procs, Close(p)
      PROVE  IInv'
  BY <1>9 DEF Close, Goto, IInv, TypeOK, FlockIsExclusive, HeldIsNamed, BuildLabels,
              Labels, OpenLabels, LockedLabels
<1>10. ASSUME NEW p \in Procs, RemoveSidecar(p)
       PROVE  IInv'
  \* The path of a holder is open, so the removal fails.
  <2>1. HeldIsNamed'
    BY <1>10 DEF RemoveSidecar, Goto, IInv, TypeOK, HeldIsNamed
  <2>2. TypeOK' /\ FlockIsExclusive' /\ BuildLabels'
    BY <1>10 DEF RemoveSidecar, Goto, IInv, TypeOK, FlockIsExclusive, BuildLabels,
                 Labels, OpenLabels, LockedLabels
  <2> QED BY <2>1, <2>2 DEF IInv
<1>11. ASSUME NEW p \in Procs, CallFails(p)
       PROVE  IInv'
  BY <1>11 DEF CallFails, Fault, Goto, IInv, TypeOK, FlockIsExclusive, HeldIsNamed,
               BuildLabels, Labels, OpenLabels, LockedLabels
<1>12. ASSUME NEW p \in Procs, StatFails(p)
       PROVE  IInv'
  BY <1>12 DEF StatFails, Fault, Goto, IInv, TypeOK, FlockIsExclusive, HeldIsNamed,
               BuildLabels, Labels, OpenLabels, LockedLabels
<1>13. ASSUME NEW p \in Procs, Crash(p)
       PROVE  IInv'
  BY <1>13 DEF Crash, Fault, Goto, IInv, TypeOK, FlockIsExclusive, HeldIsNamed,
               BuildLabels, Labels, OpenLabels, LockedLabels
<1>14. CASE UNCHANGED lockVars
  BY <1>14 DEF lockVars, IInv, TypeOK, FlockIsExclusive, HeldIsNamed, BuildLabels
<1> QED
  BY <1>1, <1>2, <1>3, <1>4, <1>5, <1>6, <1>7, <1>8, <1>9, <1>10, <1>11, <1>12,
     <1>13, <1>14 DEF LockNext, Step

\* The inductive invariant holds in every reachable state, on both builds: flocks
\* are exclusive per inode and a holder's inode is the one on disk
\* (internal/genvfile/lockmutex.go:31-57).
THEOREM Invariance == LockSpec => []IInv
<1>1. LockInit => IInv
  BY InitIInv
<1>2. IInv /\ [LockNext]_lockVars => IInv'
  BY StepIInv
<1> QED BY <1>1, <1>2, PTL DEF LockSpec

\* Every descriptor and every flock is accounted for in every reachable state:
\* no path through acquireMutex or releaseMutex leaks one.
THEOREM TypeCorrect == LockSpec => []TypeOK
<1>1. IInv => TypeOK
  BY DEF IInv
<1> QED BY <1>1, Invariance, PTL

\* At most one process is between LockMutation's return and its unlock, for any
\* number of processes, whatever crashes (lockmutex.go:10).
THEOREM Exclusion == LockSpec => []MutualExclusion
<1> QED BY IInvExclusion, Invariance, PTL

-----------------------------------------------------------------------------
(* No sidecar is left behind.  While no call fails and nobody crashes,     *)
(* whenever the path names an inode somebody is still going to remove it:  *)
(* a process that has that inode open and will hold it, or, on windows,    *)
(* one that has closed it and is about to remove whatever is there.  A     *)
(* process on its way round the retry loop does not count, and never has   *)
(* the inode the path names: an inode that is open is not used again.      *)

StaleIsGone ==
  \A p \in Procs : pc[p] \in {"stale", "staleClose"} => fd[p] # path

WillRemove(p) ==
  \/ pc[p] \in {"flock", "stat", "held"} /\ fd[p] = path
  \/ pc[p] = "close" /\ fd[p] = path /\ ~unix
  \/ pc[p] = "remove"

SomebodyRemoves ==
  path # NoInode => \E p \in Procs : WillRemove(p)

LInv == faults = 0 => StaleIsGone /\ SomebodyRemoves

LEMMA InitLInv == LockInit => LInv
BY DEF LockInit, LInv, StaleIsGone, SomebodyRemoves

LEMMA StepLInv ==
  ASSUME IInv, LInv, [LockNext]_lockVars
  PROVE  LInv'
<1> USE NoInodeAssumption
<1> SUFFICES ASSUME faults' = 0 PROVE StaleIsGone' /\ SomebodyRemoves'
  BY DEF LInv
<1>0. ~(Fault) /\ pc \in [Procs -> Labels] /\ fd \in [Procs -> Inodes \cup {NoInode}]
  BY DEF Fault, IInv, TypeOK
\* A step of p that leaves path and fd alone and keeps p's part in the removal.
<1>1. ASSUME NEW p \in Procs, NEW label, Goto(p, label), faults' = faults, unix' = unix,
             path' = path, fd' = fd,
             label \in {"stale", "staleClose"} => fd[p] # path,
             WillRemove(p) => WillRemove(p)'
      PROVE  StaleIsGone' /\ SomebodyRemoves'
  <2>1. \A q \in Procs \ {p} : pc'[q] = pc[q]
    BY <1>0, <1>1 DEF Goto
  <2>2. pc'[p] = label
    BY <1>0, <1>1 DEF Goto
  <2>3. StaleIsGone'
    BY <1>1, <2>1, <2>2 DEF LInv, StaleIsGone
  <2>4. SomebodyRemoves'
    BY <1>1, <2>1 DEF LInv, SomebodyRemoves, WillRemove
  <2> QED BY <2>3, <2>4
<1>2. ASSUME NEW p \in Procs, Call(p)
      PROVE  StaleIsGone' /\ SomebodyRemoves'
  BY <1>1, <1>2 DEF Call, WillRemove
<1>3. ASSUME NEW p \in Procs, OpenFile(p)
      PROVE  StaleIsGone' /\ SomebodyRemoves'
  <2>1. pc'[p] = "flock" /\ fd'[p] = path'
    BY <1>0, <1>3 DEF OpenFile, Goto
  <2>2. \A q \in Procs \ {p} : pc'[q] = pc[q] /\ fd'[q] = fd[q]
    BY <1>0, <1>3 DEF OpenFile, Goto
  <2>3. \A q \in Procs \ {p} : pc[q] \in {"stale", "staleClose"} => fd[q] # path'
    BY <1>3 DEF OpenFile, Free, LInv, StaleIsGone
  <2>4. StaleIsGone'
    BY <2>1, <2>2, <2>3 DEF StaleIsGone
  <2>5. SomebodyRemoves'
    BY <2>1 DEF SomebodyRemoves, WillRemove
  <2> QED BY <2>4, <2>5
<1>4. ASSUME NEW p \in Procs, FlockExclusive(p)
      PROVE  StaleIsGone' /\ SomebodyRemoves'
  BY <1>0, <1>1, <1>4 DEF FlockExclusive, Goto, WillRemove
<1>5. ASSUME NEW p \in Procs, SameFile(p)
      PROVE  StaleIsGone' /\ SomebodyRemoves'
  BY <1>0, <1>1, <1>5 DEF SameFile, Goto, WillRemove
<1>6. ASSUME NEW p \in Procs, StaleUnlock(p)
      PROVE  StaleIsGone' /\ SomebodyRemoves'
  <2>1. fd[p] # path
    BY <1>6 DEF StaleUnlock, LInv, StaleIsGone
  <2> QED BY <1>1, <1>6, <2>1 DEF StaleUnlock, WillRemove
\* A step of p that closes its file, which p was not going to remove.
<1>7. ASSUME NEW p \in Procs, NEW label, Goto(p, label), faults' = faults, unix' = unix,
             path' = path, fd' = [fd EXCEPT ![p] = NoInode], label \notin {"stale", "staleClose"},
             ~WillRemove(p) \/ label = "remove"
      PROVE  StaleIsGone' /\ SomebodyRemoves'
  <2>1. \A q \in Procs \ {p} : pc'[q] = pc[q] /\ fd'[q] = fd[q]
    BY <1>0, <1>7 DEF Goto
  <2>2. pc'[p] = label
    BY <1>0, <1>7 DEF Goto
  <2>3. StaleIsGone'
    BY <1>7, <2>1, <2>2 DEF LInv, StaleIsGone
  <2>4. SomebodyRemoves'
    BY <1>7, <2>1, <2>2 DEF LInv, SomebodyRemoves, WillRemove
  <2> QED BY <2>3, <2>4
<1>8. ASSUME NEW p \in Procs, StaleClose(p)
      PROVE  StaleIsGone' /\ SomebodyRemoves'
  BY <1>7, <1>8 DEF StaleClose, WillRemove
<1>9. ASSUME NEW p \in Procs, Unlink(p)
      PROVE  StaleIsGone' /\ SomebodyRemoves'
  <2>1. \A q \in Procs : pc'[q] \in {"stale", "staleClose"} => fd'[q] # NoInode
    BY <1>0, <1>9 DEF Unlink, Goto, IInv, TypeOK, OpenLabels
  <2> QED BY <1>9, <2>1 DEF Unlink, StaleIsGone, SomebodyRemoves
<1>10. ASSUME NEW p \in Procs, Unlock(p)
       PROVE  StaleIsGone' /\ SomebodyRemoves'
  <2>1. WillRemove(p) => ~unix
    BY <1>10 DEF Unlock, WillRemove
  <2> QED BY <1>0, <1>1, <1>10, <2>1 DEF Unlock, Goto, WillRemove
<1>11. ASSUME NEW p \in Procs, Close(p)
       PROVE  StaleIsGone' /\ SomebodyRemoves'
  <2>1. WillRemove(p) => ~unix
    BY <1>11 DEF Close, WillRemove
  <2> QED BY <1>7, <1>11, <2>1 DEF Close
\* Whoever keeps the removal from working will remove the file itself.
<1>12. ASSUME NEW p \in Procs, RemoveSidecar(p)
       PROVE  StaleIsGone' /\ SomebodyRemoves'
  <2>1. \A q \in Procs : pc'[q] \in {"stale", "staleClose"} => fd'[q] \notin {NoInode, path}
    BY <1>0, <1>12 DEF RemoveSidecar, Goto, IInv, TypeOK, OpenLabels, LInv, StaleIsGone
  <2>2. StaleIsGone'
    BY <1>12, <2>1 DEF RemoveSidecar, StaleIsGone
  <2>3. CASE path' = NoInode
    BY <2>2, <2>3 DEF SomebodyRemoves
  <2>4. CASE path' # NoInode
    <3>1. PICK q \in Procs : fd[q] = path /\ path' = path /\ path # NoInode
      BY <1>12, <2>4 DEF RemoveSidecar
    <3>2. pc[q] \in {"flock", "stat", "held", "close"}
      BY <1>12, <3>1 DEF RemoveSidecar, IInv, TypeOK, BuildLabels, OpenLabels, LInv, StaleIsGone
    <3>3. q # p /\ ~unix
      BY <1>12, <3>2 DEF RemoveSidecar, IInv, BuildLabels
    <3>4. WillRemove(q)'
      BY <1>0, <1>12, <3>1, <3>2, <3>3 DEF RemoveSidecar, Goto, WillRemove
    <3> QED BY <2>2, <3>4 DEF SomebodyRemoves
  <2> QED BY <2>3, <2>4
<1>13. ASSUME NEW p \in Procs, CallFails(p) \/ StatFails(p) \/ Crash(p)
       PROVE  FALSE
  BY <1>0, <1>13 DEF CallFails, StatFails, Crash
<1>14. CASE UNCHANGED lockVars
  BY <1>14 DEF lockVars, LInv, StaleIsGone, SomebodyRemoves, WillRemove
<1> QED
  BY <1>2, <1>3, <1>4, <1>5, <1>6, <1>8, <1>9, <1>10, <1>11, <1>12, <1>13, <1>14
     DEF LockNext, Step

\* When no call has failed and nobody has crashed, a moment without a caller is a
\* moment without a sidecar, for any number of processes and on both builds
\* (lockmutex.go:11, releaseMutex).
THEOREM NoLeftover == LockSpec => []NoLeftoverSidecar
<1>1. IInv /\ LInv => NoLeftoverSidecar
  BY DEF LInv, SomebodyRemoves, WillRemove, NoLeftoverSidecar
<1>2. IInv /\ LInv /\ [LockNext]_lockVars => LInv'
  BY StepLInv
<1> QED BY <1>1, <1>2, InitLInv, Invariance, PTL DEF LockSpec

-----------------------------------------------------------------------------
(* LockMutex implements the abstract mutex: each step is one of its steps  *)
(* or leaves every caller's phase alone.                                   *)

LEMMA RefineInit == LockInit => Abstract!Init
BY DEF LockInit, Abstract!Init, PhaseOf, WaitingLabels

\* How one process's label moves the phases.
LEMMA GotoPhase ==
  ASSUME NEW p \in Procs, NEW label, pc \in [Procs -> Labels], Goto(p, label)
  PROVE  [q \in Procs |-> PhaseOf(pc'[q])]
           = [[q \in Procs |-> PhaseOf(pc[q])] EXCEPT ![p] = PhaseOf(label)]
BY DEF Goto

LEMMA RefineStep ==
  ASSUME IInv, [LockNext]_lockVars
  PROVE  [Abstract!Next]_([p \in Procs |-> PhaseOf(pc[p])])
<1> DEFINE phase == [p \in Procs |-> PhaseOf(pc[p])]
<1>0. pc \in [Procs -> Labels]
  BY DEF IInv, TypeOK
<1>1. ASSUME NEW p \in Procs, NEW label, Goto(p, label), PhaseOf(label) = PhaseOf(pc[p])
      PROVE  phase' = phase
  BY <1>0, <1>1, GotoPhase
<1>2. ASSUME NEW p \in Procs, NEW label, Goto(p, label), PhaseOf(label) = "idle"
      PROVE  [Abstract!Next]_phase
  <2>1. phase' = [phase EXCEPT ![p] = "idle"]
    BY <1>0, <1>2, GotoPhase
  <2>2. phase[p] \in {"idle", "waiting", "holding"}
    BY DEF PhaseOf, WaitingLabels
  <2>3. CASE phase[p] = "idle"
    BY <2>1, <2>3
  <2>4. CASE phase[p] = "waiting"
    BY <2>1, <2>4 DEF Abstract!Next, Abstract!GiveUp
  <2>5. CASE phase[p] = "holding"
    BY <2>1, <2>5 DEF Abstract!Next, Abstract!Release
  <2> QED BY <2>2, <2>3, <2>4, <2>5
<1>3. ASSUME NEW p \in Procs, Call(p)
      PROVE  [Abstract!Next]_phase
  <2>1. Goto(p, "open") /\ phase[p] = "idle"
    BY <1>3 DEF Call, PhaseOf, WaitingLabels
  <2>2. phase' = [phase EXCEPT ![p] = "waiting"]
    BY <1>0, <2>1, GotoPhase DEF PhaseOf, WaitingLabels
  <2> QED BY <2>1, <2>2 DEF Abstract!Next, Abstract!Request
<1>4. ASSUME NEW p \in Procs, SameFile(p), path = fd[p]
      PROVE  [Abstract!Next]_phase
  <2>1. Goto(p, "held") /\ phase[p] = "waiting"
    BY <1>4 DEF SameFile, PhaseOf, WaitingLabels
  <2>2. phase' = [phase EXCEPT ![p] = "holding"]
    BY <1>0, <2>1, GotoPhase DEF PhaseOf, WaitingLabels
  \* Whoever else held would have the inode p has just locked.
  <2>3. \A q \in Procs : pc[q] # "held"
    BY <1>4 DEF SameFile, IInv, TypeOK, FlockIsExclusive, HeldIsNamed, LockedLabels
  <2>4. \A q \in Procs : phase[q] # "holding"
    BY <2>3 DEF PhaseOf, WaitingLabels
  <2> QED BY <2>1, <2>2, <2>4 DEF Abstract!Next, Abstract!Acquire
<1>5. ASSUME NEW p \in Procs, SameFile(p), path # fd[p]
      PROVE  phase' = phase
  BY <1>1, <1>5 DEF SameFile, PhaseOf, WaitingLabels
<1>6. ASSUME NEW p \in Procs, OpenFile(p) \/ FlockExclusive(p) \/ StaleUnlock(p) \/ StaleClose(p)
      PROVE  phase' = phase
  BY <1>1, <1>6 DEF OpenFile, FlockExclusive, StaleUnlock, StaleClose, PhaseOf, WaitingLabels
<1>7. ASSUME NEW p \in Procs, Unlink(p) \/ Unlock(p) \/ Close(p) \/ RemoveSidecar(p)
      PROVE  [Abstract!Next]_phase
  <2>1. \E label \in {"unlock", "close", "idle", "remove"} : Goto(p, label)
    BY <1>7 DEF Unlink, Unlock, Close, RemoveSidecar
  <2> QED BY <1>2, <2>1 DEF PhaseOf, WaitingLabels
<1>8. ASSUME NEW p \in Procs, CallFails(p) \/ Crash(p)
      PROVE  [Abstract!Next]_phase
  BY <1>2, <1>8 DEF CallFails, Crash, PhaseOf, WaitingLabels
<1>9. ASSUME NEW p \in Procs, StatFails(p)
      PROVE  phase' = phase
  BY <1>1, <1>9 DEF StatFails, PhaseOf, WaitingLabels
<1>10. CASE UNCHANGED lockVars
  BY <1>10 DEF lockVars
<1> QED
  BY <1>3, <1>4, <1>5, <1>6, <1>7, <1>8, <1>9, <1>10 DEF LockNext, Step

\* The sidecar file and its flock implement the abstract mutex, for any number of
\* processes, inodes and faults (lockmutex.go:13-71).
THEOREM Refinement == LockSpec => RefinesMutex
<1>1. LockInit => Abstract!Init
  BY RefineInit
<1>2. IInv /\ [LockNext]_lockVars => [Abstract!Next]_([p \in Procs |-> PhaseOf(pc[p])])
  BY RefineStep
<1> QED
  BY <1>1, <1>2, Invariance, PTL DEF LockSpec, RefinesMutex, Abstract!Spec

Fields == {"version", "schema", "top", "defaults", "targets", "adapters", "modules", "updates"}
Kinds == {"env", "alias", "service"}

-----------------------------------------------------------------------------
(* What is made of a document is a document.                               *)

LEMMA ItemsOf ==
    ASSUME NEW b, IsBundle(b), NEW l \in Lists
    PROVE  /\ b.lists[l].items \in Seq(Items) /\ b.lists[l].nil \in BOOLEAN
           /\ b.lists[l] = [nil |-> b.lists[l].nil, items |-> b.lists[l].items]
           /\ b.lists[l].nil => b.lists[l].items = <<>>
BY DEF IsBundle

LEMMA NothingIs ==
    /\ IsBundle(Nothing) /\ Nothing.named = <<>> /\ DOMAIN Nothing.named = {}
    /\ \A l \in Lists : Nothing.lists[l] = Nil /\ Nothing.lists[l].items = <<>> /\ Nothing.lists[l].nil
<1>1. DOMAIN Nothing.named = {} /\ Nothing.named = <<>>
  BY DEF Nothing
<1>2. Nil \in [nil : BOOLEAN, items : Seq(Items)] /\ Nil.items = <<>> /\ Nil.nil
  BY DEF Nil
<1>3. Nothing.lists = [b \in Lists |-> Nil] /\ DOMAIN Nothing = {"lists", "named"}
  BY DEF Nothing
<1>4. Nothing.named \in [DOMAIN Nothing.named -> Entries]
  BY <1>1
<1> QED BY <1>1, <1>2, <1>3, <1>4 DEF IsBundle

\* A list of packages is put into a bundle.
Packaged(b, s) == [b EXCEPT !.lists["package"] = Listed(s)]

LEMMA PackagedIs ==
    ASSUME NEW b, IsBundle(b), NEW s \in Seq(Items)
    PROVE  /\ IsBundle(Packaged(b, s)) /\ Packaged(b, s).named = b.named
           /\ Packaged(b, s).lists["package"] = Listed(s)
           /\ \A l \in Lists : l # "package" => Packaged(b, s).lists[l] = b.lists[l]
<1>1. /\ DOMAIN Packaged(b, s) = {"lists", "named"} /\ Packaged(b, s).named = b.named
      /\ Packaged(b, s).lists = [b.lists EXCEPT !["package"] = Listed(s)]
  BY DEF Packaged, IsBundle
<1>2. Listed(s) \in [nil : BOOLEAN, items : Seq(Items)] /\ ~Listed(s).nil
  BY DEF Listed
<1> QED BY <1>1, <1>2 DEF IsBundle, Lists

LEMMA WithEntryIs ==
    ASSUME NEW b, IsBundle(b), NEW key \in Kinds \X Texts, NEW e \in Entries, e.hosts = {}
    PROVE  /\ IsBundle(WithEntry(b, key, e)) /\ WithEntry(b, key, e).lists = b.lists
           /\ DOMAIN WithEntry(b, key, e).named = DOMAIN b.named \cup {key}
           /\ WithEntry(b, key, e).named[key] = e
           /\ \A k \in DOMAIN b.named : k # key => WithEntry(b, key, e).named[k] = b.named[k]
<1>1. /\ DOMAIN WithEntry(b, key, e) = {"lists", "named"} /\ WithEntry(b, key, e).lists = b.lists
      /\ WithEntry(b, key, e).named = [k \in DOMAIN b.named \cup {key} |-> IF k = key THEN e ELSE b.named[k]]
  BY DEF WithEntry, IsBundle
<1> DEFINE c == WithEntry(b, key, e)
<1> HIDE DEF c
<1> QED BY <1>1 DEF IsBundle, Kinds, c

LEMMA WithoutEntryIs ==
    ASSUME NEW b, IsBundle(b), NEW key
    PROVE  /\ IsBundle(WithoutEntry(b, key)) /\ WithoutEntry(b, key).lists = b.lists
           /\ DOMAIN WithoutEntry(b, key).named = DOMAIN b.named \ {key}
           /\ \A k \in DOMAIN b.named \ {key} : WithoutEntry(b, key).named[k] = b.named[k]
<1>1. /\ DOMAIN WithoutEntry(b, key) = {"lists", "named"} /\ WithoutEntry(b, key).lists = b.lists
      /\ WithoutEntry(b, key).named = [k \in DOMAIN b.named \ {key} |-> b.named[k]]
  BY DEF WithoutEntry, IsBundle
<1> QED BY <1>1 DEF IsBundle

LEMMA NewIs ==
    /\ IsDocument(New) /\ New.version = 8 /\ New.defaults = Nothing /\ New.top = Nothing
    /\ DOMAIN New.targets = KnownTargets /\ \A t \in KnownTargets : New.targets[t] = Nothing
    /\ ~New.schema /\ ~New.adapters /\ ~New.modules /\ ~New.updates
BY NothingIs DEF New, IsDocument

\* In e, one bundle of the document was replaced.
BundleReplaced(d, t, b, e) ==
    /\ IsDocument(e) /\ BundleFor(e, t) = b /\ DOMAIN e.targets = DOMAIN d.targets
    /\ \A f \in {"version", "schema", "defaults", "adapters", "modules", "updates"} : e[f] = d[f]
    /\ Portable(d) => /\ e.top = d.top
                      /\ \A u \in DOMAIN d.targets : u # t => e.targets[u] = d.targets[u]
    /\ ~Portable(d) => e.targets = d.targets

LEMMA EditedIs ==
    ASSUME NEW d, IsDocument(d), NEW t, Portable(d) => t \in DOMAIN d.targets, NEW b, IsBundle(b)
    PROVE  BundleReplaced(d, t, b, Edited(d, t, b))
<1>1. CASE Portable(d)
  BY <1>1 DEF Edited, IsDocument, Portable, BundleFor, BundleReplaced
<1>2. CASE ~Portable(d)
  BY <1>2 DEF Edited, IsDocument, Portable, BundleFor, BundleReplaced
<1> QED BY <1>1, <1>2

LEMMA WrittenIs ==
    ASSUME NEW b, IsBundle(b)
    PROVE  /\ IsBundle(Written(b)) /\ Written(b).named = b.named
           /\ \A l \in Lists : /\ Written(b).lists[l].items = b.lists[l].items
                               /\ Written(b).lists[l].nil <=> b.lists[l].items = <<>>
<1>1. /\ DOMAIN Written(b) = {"lists", "named"} /\ Written(b).named = b.named
      /\ Written(b).lists = [l \in Lists |-> IF b.lists[l].items = <<>> THEN Nil ELSE b.lists[l]]
  BY DEF Written, IsBundle
<1>2. Nil \in [nil : BOOLEAN, items : Seq(Items)] /\ Nil.items = <<>> /\ Nil.nil
  BY DEF Nil
<1> QED BY <1>1, <1>2 DEF IsBundle

LEMMA MarshalledIs ==
    ASSUME NEW d, IsDocument(d)
    PROVE  /\ IsDocument(Marshalled(d))
           /\ \A f \in {"version", "adapters", "modules", "updates"} : Marshalled(d)[f] = d[f]
           /\ Marshalled(d).defaults = Written(d.defaults)
           /\ DOMAIN Marshalled(d).targets = DOMAIN d.targets
           /\ \A t \in DOMAIN d.targets : Marshalled(d).targets[t] = Written(d.targets[t])
           /\ Portable(d) => Marshalled(d).top = Written(d.top)
           /\ ~Portable(d) => Marshalled(d).top = Packaged(Written(d.top), d.top.lists["package"].items)
<1> DEFINE m == Marshalled(d)
<1>1. /\ DOMAIN m = Fields /\ m.defaults = Written(d.defaults) /\ m.schema = FALSE
      /\ m.version = d.version /\ m.adapters = d.adapters /\ m.modules = d.modules /\ m.updates = d.updates
      /\ m.targets = [t \in DOMAIN d.targets |-> Written(d.targets[t])]
      /\ m.top = IF Portable(d) THEN Written(d.top) ELSE Packaged(Written(d.top), d.top.lists["package"].items)
  BY DEF Marshalled, IsDocument, Fields, Packaged
<1>2. IsBundle(Written(d.defaults)) /\ IsBundle(Written(d.top))
      /\ \A t \in DOMAIN d.targets : IsBundle(Written(d.targets[t]))
  BY WrittenIs DEF IsDocument
<1>3. d.top.lists["package"].items \in Seq(Items)
  BY ItemsOf DEF IsDocument, Lists
<1>4. IsBundle(m.top)
  BY <1>1, <1>2, <1>3, PackagedIs
<1> HIDE DEF m
<1>5. IsDocument(m)
  BY <1>1, <1>2, <1>4 DEF IsDocument, Fields
<1> QED BY <1>1, <1>5 DEF m

\* Of two bundles, the one with the packages of the other.
LEMMA PatchedIs ==
    ASSUME NEW a, IsBundle(a), NEW b, IsBundle(b)
    PROVE  /\ IsBundle(Patched(a, b)) /\ Patched(a, b).named = a.named
           /\ \A l \in Lists : l # "package" => Patched(a, b).lists[l] = a.lists[l]
<1> DEFINE want == b.lists["package"].items
           have == a.lists["package"].items
           At2(p) == CHOOSE i \in DOMAIN have : have[i].key = p.key
           Kept(p) == IF \E i \in DOMAIN have : have[i].key = p.key THEN have[At2(p)] ELSE p
           kept == [i \in DOMAIN want |-> Kept(want[i])]
<1>1. want \in Seq(Items) /\ have \in Seq(Items)
  BY ItemsOf DEF Lists
<1>2. ASSUME NEW p \in Items PROVE Kept(p) \in Items
  <2>1. ASSUME NEW i \in DOMAIN have PROVE have[i] \in Items
    BY <1>1
  <2> QED BY <2>1
<1>3. kept \in Seq(Items)
  <2>1. DOMAIN want = 1..Len(want) /\ Len(want) \in Nat /\ \A i \in 1..Len(want) : want[i] \in Items
    BY <1>1
  <2> HIDE DEF Kept, want
  <2> QED BY <1>2, <2>1
<1>4. Patched(a, b) = a \/ Patched(a, b) = Packaged(a, kept)
  BY DEF Patched, Packaged
<1> HIDE DEF kept
<1> QED BY <1>3, <1>4, PackagedIs

LEMMA InPlaceIs ==
    ASSUME NEW old, IsDocument(old), NEW new, IsDocument(new), DOMAIN old.targets = DOMAIN new.targets
    PROVE  /\ IsDocument(InPlace(old, new))
           /\ \A f \in {"version", "schema", "adapters", "modules", "updates"} : InPlace(old, new)[f] = old[f]
           /\ InPlace(old, new).top = Patched(old.top, new.top)
           /\ InPlace(old, new).defaults = Patched(old.defaults, new.defaults)
           /\ DOMAIN InPlace(old, new).targets = DOMAIN old.targets
           /\ \A t \in DOMAIN old.targets : InPlace(old, new).targets[t] = Patched(old.targets[t], new.targets[t])
<1> DEFINE m == InPlace(old, new)
<1>1. /\ DOMAIN m = Fields /\ m.schema = old.schema
      /\ m.version = old.version /\ m.adapters = old.adapters /\ m.modules = old.modules /\ m.updates = old.updates
      /\ m.top = Patched(old.top, new.top) /\ m.defaults = Patched(old.defaults, new.defaults)
      /\ m.targets = [t \in DOMAIN old.targets |-> Patched(old.targets[t], new.targets[t])]
  BY DEF InPlace, IsDocument, Fields
<1>2. /\ IsBundle(Patched(old.top, new.top)) /\ IsBundle(Patched(old.defaults, new.defaults))
      /\ \A t \in DOMAIN old.targets : IsBundle(Patched(old.targets[t], new.targets[t]))
  BY PatchedIs DEF IsDocument
<1> HIDE DEF m
<1>5. IsDocument(m)
  BY <1>1, <1>2 DEF IsDocument, Fields
<1> QED BY <1>1, <1>5 DEF m

\* Bundles that are equal but for the packages.
LEMMA SameButPackages ==
    ASSUME NEW a, IsBundle(a), NEW b, IsBundle(b), WithoutPackages(a) = WithoutPackages(b)
    PROVE  a.named = b.named /\ \A l \in Lists : l # "package" => a.lists[l] = b.lists[l]
<1>1. \A c : IsBundle(c) => WithoutPackages(c).named = c.named
                             /\ \A l \in Lists : l # "package" => WithoutPackages(c).lists[l] = c.lists[l]
  BY DEF WithoutPackages, IsBundle
<1> QED BY <1>1

LEMMA BundlesEqual ==
    ASSUME NEW a, IsBundle(a), NEW b, IsBundle(b), a.named = b.named,
           \A l \in Lists : a.lists[l] = b.lists[l]
    PROVE  a.lists = b.lists /\ WithoutPackages(a) = WithoutPackages(b)
<1>1. a.lists = b.lists
  BY DEF IsBundle
<1> QED BY <1>1 DEF WithoutPackages, IsBundle

\* What is written in place says, but for "$schema", what was to be written.
LEMMA InPlaceSays ==
    ASSUME NEW old, IsDocument(old), NEW new, IsDocument(new), CanRewriteInPlace(old, new)
    PROVE  LET m == InPlace(old, new) IN
           /\ IsDocument(m) /\ m.version = new.version /\ m.updates = new.updates /\ m.modules = new.modules
           /\ m.top.named = new.top.named /\ m.top.lists = new.top.lists
           /\ m.defaults.named = new.defaults.named /\ m.defaults.lists = new.defaults.lists
           /\ DOMAIN m.targets = DOMAIN new.targets
           /\ \A t \in DOMAIN new.targets : /\ m.targets[t].named = new.targets[t].named
                                            /\ m.targets[t].lists = new.targets[t].lists
<1> DEFINE m == InPlace(old, new)
<1>1. SameNonPackageState(old, new) /\ PackagesMatch(m, new) /\ DOMAIN old.targets = DOMAIN new.targets
  BY DEF CanRewriteInPlace, SameNonPackageState
<1>2. /\ IsDocument(m) /\ m.version = old.version /\ m.updates = old.updates /\ m.modules = old.modules
      /\ m.top = Patched(old.top, new.top) /\ m.defaults = Patched(old.defaults, new.defaults)
      /\ DOMAIN m.targets = DOMAIN old.targets
      /\ \A t \in DOMAIN old.targets : m.targets[t] = Patched(old.targets[t], new.targets[t])
  BY <1>1, InPlaceIs
<1> HIDE DEF m
<1>3. ASSUME NEW a, IsBundle(a), NEW b, IsBundle(b), WithoutPackages(a) = WithoutPackages(b),
             Patched(a, b).lists["package"] = b.lists["package"]
      PROVE  Patched(a, b).named = b.named /\ Patched(a, b).lists = b.lists
  <2>1. /\ IsBundle(Patched(a, b)) /\ Patched(a, b).named = b.named
        /\ \A l \in Lists : Patched(a, b).lists[l] = b.lists[l]
    BY <1>3, PatchedIs, SameButPackages
  <2> QED BY <1>3, <2>1, BundlesEqual
<1>4. /\ WithoutPackages(old.top) = WithoutPackages(new.top)
      /\ WithoutPackages(old.defaults) = WithoutPackages(new.defaults)
      /\ old.version = new.version /\ old.updates = new.updates /\ old.modules = new.modules
      /\ \A t \in DOMAIN old.targets : WithoutPackages(old.targets[t]) = WithoutPackages(new.targets[t])
  BY <1>1 DEF SameNonPackageState
<1>5. /\ m.top.lists["package"] = new.top.lists["package"]
      /\ m.defaults.lists["package"] = new.defaults.lists["package"]
      /\ \A t \in DOMAIN m.targets : m.targets[t].lists["package"] = new.targets[t].lists["package"]
  BY <1>1 DEF PackagesMatch
<1>6. m.top.named = new.top.named /\ m.top.lists = new.top.lists
  BY <1>2, <1>3, <1>4, <1>5 DEF IsDocument
<1>7. m.defaults.named = new.defaults.named /\ m.defaults.lists = new.defaults.lists
  BY <1>2, <1>3, <1>4, <1>5 DEF IsDocument
<1>8. ASSUME NEW t \in DOMAIN new.targets
      PROVE  m.targets[t].named = new.targets[t].named /\ m.targets[t].lists = new.targets[t].lists
  BY <1>1, <1>2, <1>3, <1>4, <1>5 DEF IsDocument
<1> QED BY <1>1, <1>2, <1>4, <1>6, <1>7, <1>8 DEF m

-----------------------------------------------------------------------------
(* What is written says what was to be written.                            *)

SaysBundle(a, b) ==
    a.named = b.named /\ \A l \in Lists : a.lists[l].items = b.lists[l].items
Says(a, b) ==
    /\ a.version = b.version /\ a.updates = b.updates /\ DOMAIN a.targets = DOMAIN b.targets
    /\ SaysBundle(a.top, b.top) /\ SaysBundle(a.defaults, b.defaults)
    /\ \A t \in DOMAIN b.targets :
           /\ SaysBundle(a.targets[t], b.targets[t])
           /\ \A l \in Lists : b.targets[t].lists[l].nil => a.targets[t].lists[l].nil

LEMMA MarshalledSays ==
    ASSUME NEW d, IsDocument(d)
    PROVE  IsDocument(Marshalled(d)) /\ Says(Marshalled(d), d)
<1>1. /\ SaysBundle(Written(d.top), d.top) /\ SaysBundle(Written(d.defaults), d.defaults)
      /\ \A t \in DOMAIN d.targets : SaysBundle(Written(d.targets[t]), d.targets[t])
  BY WrittenIs DEF IsDocument, SaysBundle
<1>3. ASSUME NEW t \in DOMAIN d.targets, NEW l \in Lists, d.targets[t].lists[l].nil
      PROVE  Written(d.targets[t]).lists[l].nil
  <2>1. IsBundle(d.targets[t]) /\ d.targets[t].lists[l].items = <<>>
    BY <1>3, ItemsOf DEF IsDocument
  <2> QED BY <2>1, WrittenIs
<1>2. SaysBundle(Packaged(Written(d.top), d.top.lists["package"].items), d.top)
  <2>1. IsBundle(Written(d.top)) /\ d.top.lists["package"].items \in Seq(Items)
    BY WrittenIs, ItemsOf DEF IsDocument, Lists
  <2>2. Listed(d.top.lists["package"].items).items = d.top.lists["package"].items
    BY DEF Listed
  <2> QED BY <1>1, <2>1, <2>2, PackagedIs DEF SaysBundle
<1> QED BY <1>1, <1>2, <1>3, MarshalledIs DEF Says

LEMMA RewrittenSays ==
    ASSUME NEW old, old = NoSpec \/ IsDocument(old), NEW new, IsDocument(new)
    PROVE  IsDocument(Rewritten(old, new)) /\ Says(Rewritten(old, new), new)
<1>1. CASE CanRewriteInPlace(old, new)
  <2>1. old # NoSpec
    BY <1>1 DEF CanRewriteInPlace
  <2>2. IsDocument(InPlace(old, new)) /\ Says(InPlace(old, new), new)
    BY <1>1, <2>1, InPlaceSays DEF Says, SaysBundle
  <2> QED BY <1>1, <2>2 DEF Rewritten
<1>2. CASE ~CanRewriteInPlace(old, new)
  BY <1>2, MarshalledSays DEF Rewritten
<1> QED BY <1>1, <1>2

\* Environments are equal, but for what cannot be written.
SameEnvironment(a, b, d) ==
    a.named = b.named /\ \A l \in Lists : a.lists[l] = b.lists[l] \/ Inexpressible(d, b, l)

\* The entries and the lists of a target over those of defaults.
NamedOver(a, b) ==
    [k \in (Live(a) \ DOMAIN b) \cup Live(b) |-> IF k \in DOMAIN b THEN b[k] ELSE a[k]]
ListOver(a, b) == IF b.nil THEN a.items ELSE b.items
ListsOver(a, b) == [l \in Lists |-> ListOver(a[l], b[l])]

LEMMA MergeIs ==
    ASSUME NEW d, NEW t \in DOMAIN d.targets
    PROVE  MergeTarget(d, t) = [lists |-> ListsOver(d.defaults.lists, d.targets[t].lists),
                                named |-> NamedOver(d.defaults.named, d.targets[t].named)]
BY DEF MergeTarget, At, ListsOver, ListOver, NamedOver

LEMMA MergeSays ==
    ASSUME NEW d, NEW t \in DOMAIN d.targets
    PROVE  /\ MergeTarget(d, t).named = NamedOver(d.defaults.named, d.targets[t].named)
           /\ MergeTarget(d, t).lists = ListsOver(d.defaults.lists, d.targets[t].lists)
           /\ \A l \in Lists : MergeTarget(d, t).lists[l] = ListOver(d.defaults.lists[l], d.targets[t].lists[l])
BY MergeIs DEF ListsOver

ItemsIn(lists) == [l \in Lists |-> lists[l].items]

LEMMA LegacyEnvironment ==
    ASSUME NEW d, ~Portable(d), NEW t
    PROVE  /\ Environment(d, t) = [lists |-> ItemsIn(d.top.lists), named |-> d.top.named]
           /\ Environment(d, t).named = d.top.named
           /\ \A l \in Lists : Environment(d, t).lists[l] = d.top.lists[l].items
BY DEF Environment, ItemsIn

LEMMA WrittenEnvironment ==
    ASSUME NEW m, IsDocument(m), NEW d, IsDocument(d), Says(m, d), NEW t, Portable(d) => t \in DOMAIN d.targets
    PROVE  SameEnvironment(Environment(m, t), Environment(d, t), d)
<1>1. (Portable(d) => Portable(m)) /\ (~Portable(d) => ~Portable(m))
  BY DEF Portable, Says
<1>2. CASE Portable(d)
  <2>0. t \in DOMAIN d.targets /\ t \in DOMAIN m.targets
    BY <1>2 DEF Says
  <2>1. Environment(m, t) = MergeTarget(m, t) /\ Environment(d, t) = MergeTarget(d, t)
    BY <1>1, <1>2 DEF Environment
  <2>2. SaysBundle(m.defaults, d.defaults) /\ SaysBundle(m.targets[t], d.targets[t])
        /\ IsBundle(m.targets[t]) /\ IsBundle(d.targets[t])
    BY <2>0 DEF Says, IsDocument
  <2>3. MergeTarget(m, t).named = MergeTarget(d, t).named
    BY <2>0, <2>2, MergeSays DEF SaysBundle
  <2>4. ASSUME NEW l \in Lists
        PROVE  MergeTarget(m, t).lists[l] = MergeTarget(d, t).lists[l] \/ Inexpressible(d, MergeTarget(d, t), l)
    <3> DEFINE there == m.targets[t].lists[l]  here == d.targets[t].lists[l]
    <3>1. /\ there.items = here.items /\ (there.nil => there.items = <<>>) /\ (here.nil => here.items = <<>>)
          /\ m.defaults.lists[l].items = d.defaults.lists[l].items /\ (here.nil => there.nil)
      BY <2>0, <2>2, ItemsOf DEF SaysBundle, Says
    <3>2. /\ MergeTarget(m, t).lists[l] = ListOver(m.defaults.lists[l], there)
          /\ MergeTarget(d, t).lists[l] = ListOver(d.defaults.lists[l], here)
      BY <2>0, MergeSays
    <3> HIDE DEF there, here
    <3> QED BY <3>1, <3>2 DEF Inexpressible, ListOver
  <2> QED BY <2>1, <2>3, <2>4 DEF SameEnvironment
<1>3. CASE ~Portable(d)
  <2>1. Environment(m, t).named = m.top.named /\ Environment(d, t).named = d.top.named
    BY <1>1, <1>3, LegacyEnvironment
  <2>2. \A l \in Lists : Environment(m, t).lists[l] = m.top.lists[l].items
    BY <1>1, <1>3, LegacyEnvironment
  <2>3. \A l \in Lists : Environment(d, t).lists[l] = d.top.lists[l].items
    BY <1>1, <1>3, LegacyEnvironment
  <2> QED BY <2>1, <2>2, <2>3 DEF SameEnvironment, Says, SaysBundle
<1> QED BY <1>2, <1>3

-----------------------------------------------------------------------------
(* The edits.                                                              *)

Has(d, t) == Portable(d) => t \in DOMAIN d.targets

Added(d, t, id, val) == WithPackages(d, t, Append(PackagesFor(d, t), Item(id, val)))
Removed(d, t, id) == WithPackages(d, t, WithoutKey(PackagesFor(d, t), id))
SetIn(d, t, kind, name, val) ==
    Raised(Edited(d, t, WithEntry(BundleFor(d, t), <<kind, name>>, Entry(val))), kind, val)

AskedAdd(d, t, new, r) ==
    \E id \in {"p", "q"}, val \in {"plain", "adapter"} :
        /\ \A i \in DOMAIN PackagesFor(d, t) : PackagesFor(d, t)[i].key # id
        /\ KnownManager(d, val)
        /\ new = Added(d, t, id, val) /\ r = Request("add", t, "package", id, val)
AskedRemove(d, t, new, r) ==
    \E id \in {"p", "q"} :
        new = Removed(d, t, id) /\ r = Request("remove", t, "package", id, "")
AskedSet(d, t, new, r) ==
    \E kind \in Kinds, name \in {"x", "web", "db"}, val \in {"plain", "secret", "powershell"} :
        /\ kind = "service" => val = "plain"
        /\ new = SetIn(d, t, kind, name, val) /\ r = Request("set", t, kind, name, val)
AskedUnset(d, t, new, r) ==
    \E kind \in Kinds, name \in {"x", "web", "db"} :
        /\ <<kind, name>> \in DOMAIN BundleFor(d, t).named \/ DefaultHas(d, <<kind, name>>)
        /\ new = UnsetIn(d, t, <<kind, name>>) /\ r = Request("unset", t, kind, name, "")
Asked(d, t, new, r) ==
    AskedAdd(d, t, new, r) \/ AskedRemove(d, t, new, r) \/ AskedSet(d, t, new, r) \/ AskedUnset(d, t, new, r)

Edit == \E t \in Machines : \E new, r :
            /\ Ready(t) /\ Asked(ReadOrNew, t, new, r) /\ Write(new, r)
            /\ spec = NoSpec => AskedAdd(ReadOrNew, t, new, r) \/ AskedSet(ReadOrNew, t, new, r)

LEMMA EditSteps ==
    ASSUME NEW t \in Machines
    PROVE  /\ \A id \in {"p", "q"} : RemovePackage(t, id) => Edit
           /\ \A id \in {"p", "q"}, val \in {"plain", "adapter"} : AddPackage(t, id, val) => Edit
           /\ EnvSet(t) \/ EnvUnset(t) \/ ShellAliasSet(t) \/ ShellAliasUnset(t) => Edit
           /\ ServicePut(t) \/ ServiceRemove(t) => Edit
<1>1. ASSUME NEW id \in {"p", "q"}, RemovePackage(t, id) PROVE Edit
  <2> DEFINE new == Removed(ReadOrNew, t, id)  r == Request("remove", t, "package", id, "")
  <2>1. spec # NoSpec /\ ReadOrNew = spec
    BY <1>1 DEF RemovePackage, ReadOrNew
  <2>2. Ready(t) /\ Write(new, r)
    BY <1>1, <2>1 DEF RemovePackage, Removed
  <2>3. AskedRemove(ReadOrNew, t, new, r)
    BY DEF AskedRemove
  <2> HIDE DEF new, r
  <2> QED BY <2>1, <2>2, <2>3 DEF Edit, Asked
<1>2. ASSUME NEW id \in {"p", "q"}, NEW val \in {"plain", "adapter"}, AddPackage(t, id, val) PROVE Edit
  <2> DEFINE new == Added(ReadOrNew, t, id, val)  r == Request("add", t, "package", id, val)
  <2>1. Ready(t) /\ Write(new, r)
    BY <1>2 DEF AddPackage, Added
  <2>2. AskedAdd(ReadOrNew, t, new, r)
    BY <1>2 DEF AskedAdd, AddPackage
  <2> HIDE DEF new, r
  <2> QED BY <2>1, <2>2 DEF Edit, Asked
<1>3. ASSUME NEW kind \in Kinds, NEW name \in {"x", "web", "db"}, NEW val \in {"plain", "secret", "powershell"},
             kind = "service" => val = "plain", Set(t, kind, name, val)
      PROVE  Edit
  <2> DEFINE new == SetIn(ReadOrNew, t, kind, name, val)  r == Request("set", t, kind, name, val)
  <2>1. Ready(t) /\ Write(new, r)
    BY <1>3 DEF Set, SetIn
  <2>2. AskedSet(ReadOrNew, t, new, r)
    BY <1>3 DEF AskedSet
  <2> HIDE DEF new, r
  <2> QED BY <2>1, <2>2 DEF Edit, Asked
<1>4. ASSUME NEW kind \in Kinds, NEW name \in {"x", "web", "db"}, Unset(t, kind, name)
      PROVE  Edit
  <2> DEFINE new == UnsetIn(ReadOrNew, t, <<kind, name>>)  r == Request("unset", t, kind, name, "")
  <2>1. spec # NoSpec /\ ReadOrNew = spec
    BY <1>4 DEF Unset, ReadOrNew
  <2>2. Ready(t) /\ Write(new, r)
    BY <1>4, <2>1 DEF Unset
  <2>3. AskedUnset(ReadOrNew, t, new, r)
    BY <1>4, <2>1 DEF AskedUnset, Unset
  <2> HIDE DEF new, r
  <2> QED BY <2>1, <2>2, <2>3 DEF Edit, Asked
<1> QED BY <1>1, <1>2, <1>3, <1>4
        DEF EnvSet, EnvUnset, ShellAliasSet, ShellAliasUnset, ServicePut, ServiceRemove, Kinds

LEMMA BundleForIs ==
    ASSUME NEW d, IsDocument(d), NEW t, Has(d, t)
    PROVE  IsBundle(BundleFor(d, t)) /\ PackagesFor(d, t) \in Seq(Items)
<1>1. IsBundle(BundleFor(d, t))
  BY DEF Has, BundleFor, IsDocument
<1>2. d.defaults.lists["package"].items \in Seq(Items)
  BY ItemsOf DEF IsDocument, Lists
<1>3. BundleFor(d, t).lists["package"].items \in Seq(Items)
  BY <1>1, ItemsOf DEF Lists
<1> QED BY <1>1, <1>2, <1>3 DEF PackagesFor

LEMMA EntryIs == ASSUME NEW val \in Texts PROVE Entry(val) \in Entries /\ Entry(val).hosts = {} /\ ~Entry(val).null
                                               /\ Entry(val).val = val
BY DEF Entry, Entries
LEMMA NullIs == Null \in Entries /\ Null.hosts = {} /\ Null.null
BY TextsAssumption DEF Null, Entries

LEMMA NeedsIs ==
    ASSUME NEW kind \in Kinds, NEW val, val # "requires"
    PROVE  Needs(kind, val) \in 2..7
BY DEF Needs, Kinds

LEMMA RaisedIs ==
    ASSUME NEW d, IsDocument(d), NEW kind \in Kinds, NEW val, val # "requires"
    PROVE  /\ IsDocument(Raised(d, kind, val)) /\ \A f \in Fields \ {"version"} : Raised(d, kind, val)[f] = d[f]
           /\ Portable(d) => Raised(d, kind, val) = d
           /\ ~Portable(d) => /\ Raised(d, kind, val).version >= d.version
                              /\ Raised(d, kind, val).version >= Needs(kind, val)
                              /\ Raised(d, kind, val).version = d.version \/ Raised(d, kind, val).version \in 2..7
                              /\ ~Portable(Raised(d, kind, val))
<1> DEFINE n == Needs(kind, val)
<1>1. n \in 2..7
  BY NeedsIs
<1>2. d.version \in Nat /\ DOMAIN d = Fields
  BY DEF IsDocument, Fields
<1> HIDE DEF n
<1>3. CASE Portable(d)
  BY <1>3, <1>2 DEF Raised, Fields
<1>4. CASE ~Portable(d) /\ d.version > n
  <2>1. Raised(d, kind, val) = d
    BY <1>4 DEF Raised, AtLeast, n
  <2> QED BY <1>1, <1>2, <1>4, <2>1 DEF n
<1>5. CASE ~Portable(d) /\ ~(d.version > n)
  <2>1. Raised(d, kind, val) = [d EXCEPT !.version = n]
    BY <1>5 DEF Raised, AtLeast, n
  <2>2. PICK c : c = [d EXCEPT !.version = n]
    OBVIOUS
  <2>3. DOMAIN c = Fields /\ c.version = n /\ \A f \in Fields \ {"version"} : c[f] = d[f]
    BY <1>2, <2>2 DEF Fields
  <2>4. IsDocument(c)
    BY <1>1, <2>3 DEF IsDocument, Fields
  <2>5. ~Portable(c) /\ c.version >= d.version /\ c.version = n
    BY <1>1, <1>2, <1>5, <2>3 DEF Portable
  <2> QED BY <1>1, <1>5, <2>1, <2>2, <2>3, <2>4, <2>5 DEF n
<1> QED BY <1>3, <1>4, <1>5

\* A document in which one target was edited.
OneTarget(d, t, new) ==
    /\ IsDocument(new) /\ DOMAIN new.targets = DOMAIN d.targets
    /\ \A f \in {"schema", "defaults", "adapters", "modules", "updates"} : new[f] = d[f]
    /\ Portable(d) => /\ Portable(new) /\ new.version = d.version /\ new.top = d.top
                      /\ \A u \in DOMAIN d.targets : u # t => new.targets[u] = d.targets[u]
    /\ ~Portable(d) => /\ ~Portable(new) /\ new.targets = d.targets /\ new.version >= d.version
                       /\ new.version = d.version \/ new.version \in 2..7

LEMMA EditedOne ==
    ASSUME NEW d, IsDocument(d), NEW t, Has(d, t), NEW b, IsBundle(b)
    PROVE  /\ OneTarget(d, t, Edited(d, t, b)) /\ Edited(d, t, b).version = d.version
           /\ Portable(d) => Edited(d, t, b).targets[t] = b
           /\ ~Portable(d) => Edited(d, t, b).top = b
<1> DEFINE new == Edited(d, t, b)
<1>1. BundleReplaced(d, t, b, new)
  BY EditedIs DEF Has
<1> HIDE DEF new
<1>2. new.version = d.version /\ d.version \in Nat
      /\ \A f \in {"schema", "defaults", "adapters", "modules", "updates"} : new[f] = d[f]
  BY <1>1 DEF BundleReplaced, IsDocument
<1>3. (Portable(d) => Portable(new)) /\ (~Portable(d) => ~Portable(new))
  BY <1>2 DEF Portable
<1>4. (Portable(d) => new.targets[t] = b) /\ (~Portable(d) => new.top = b)
  BY <1>1, <1>3 DEF BundleFor, BundleReplaced
<1>5. OneTarget(d, t, new)
  BY <1>1, <1>2, <1>3 DEF OneTarget, BundleReplaced
<1> QED BY <1>2, <1>4, <1>5 DEF new

\* What the other targets are told is what they were told.
LEMMA OthersKeep ==
    ASSUME NEW d, IsDocument(d), NEW t, NEW new, OneTarget(d, t, new), Portable(d),
           NEW u \in DOMAIN d.targets, u # t
    PROVE  Environment(new, u) = Environment(d, u)
<1>1. new.defaults = d.defaults /\ new.targets[u] = d.targets[u] /\ Portable(new) /\ u \in DOMAIN new.targets
  BY DEF OneTarget
<1> QED BY <1>1, MergeIs DEF Environment

\* The environment of a target, of its bundle and defaults.
LEMMA EnvironmentIs ==
    ASSUME NEW d, IsDocument(d), NEW t, Has(d, t)
    PROVE  /\ Environment(d, t).named =
                IF Portable(d) THEN NamedOver(d.defaults.named, BundleFor(d, t).named) ELSE BundleFor(d, t).named
           /\ \A l \in Lists : Environment(d, t).lists[l] =
                IF Portable(d) THEN ListOver(d.defaults.lists[l], BundleFor(d, t).lists[l])
                ELSE BundleFor(d, t).lists[l].items
           /\ Environment(d, t).lists["package"] = PackagesFor(d, t)
           /\ DOMAIN Environment(d, t) = {"lists", "named"} /\ DOMAIN Environment(d, t).lists = Lists
<1>1. CASE Portable(d)
  <2>1. t \in DOMAIN d.targets /\ Environment(d, t) = MergeTarget(d, t) /\ BundleFor(d, t) = d.targets[t]
    BY <1>1 DEF Has, Environment, BundleFor
  <2>2. /\ MergeTarget(d, t).named = NamedOver(d.defaults.named, d.targets[t].named)
        /\ \A l \in Lists : MergeTarget(d, t).lists[l] = ListOver(d.defaults.lists[l], d.targets[t].lists[l])
    BY <2>1, MergeSays
  <2>3. MergeTarget(d, t).lists["package"] = PackagesFor(d, t)
    BY <1>1, <2>1, <2>2 DEF PackagesFor, ListOver, Lists
  <2>4. DOMAIN MergeTarget(d, t) = {"lists", "named"} /\ DOMAIN MergeTarget(d, t).lists = Lists
    BY DEF MergeTarget
  <2> QED BY <1>1, <2>1, <2>2, <2>3, <2>4
<1>2. CASE ~Portable(d)
  <2>1. /\ Environment(d, t).named = BundleFor(d, t).named
        /\ \A l \in Lists : Environment(d, t).lists[l] = BundleFor(d, t).lists[l].items
    BY <1>2, LegacyEnvironment DEF BundleFor
  <2>2. PackagesFor(d, t) = BundleFor(d, t).lists["package"].items
    BY <1>2 DEF PackagesFor
  <2>3. DOMAIN Environment(d, t) = {"lists", "named"} /\ DOMAIN Environment(d, t).lists = Lists
    BY <1>2 DEF Environment
  <2> QED BY <1>2, <2>1, <2>2, <2>3 DEF Lists
<1> QED BY <1>1, <1>2

LEMMA PackagesEdited ==
    ASSUME NEW d, IsDocument(d), NEW t, Has(d, t), NEW s \in Seq(Items)
    PROVE  LET new == WithPackages(d, t, s) IN
           /\ OneTarget(d, t, new) /\ new.version = d.version
           /\ BundleFor(new, t) = Packaged(BundleFor(d, t), s)
           /\ Environment(new, t).named = Environment(d, t).named
           /\ Environment(new, t).lists["package"] = s
           /\ \A l \in Lists : l # "package" => Environment(new, t).lists[l] = Environment(d, t).lists[l]
<1> DEFINE new == WithPackages(d, t, s)
           b == Packaged(BundleFor(d, t), s)
<1>1. IsBundle(BundleFor(d, t))
  BY BundleForIs
<1>2. IsBundle(b) /\ b.named = BundleFor(d, t).named /\ b.lists["package"] = Listed(s)
      /\ \A l \in Lists : l # "package" => b.lists[l] = BundleFor(d, t).lists[l]
  BY <1>1, PackagedIs
<1>3. new = Edited(d, t, b)
  BY DEF WithPackages, Packaged
<1> HIDE DEF b, new
<1>4. OneTarget(d, t, new) /\ new.version = d.version
      /\ (Portable(d) => new.targets[t] = b) /\ (~Portable(d) => new.top = b)
  BY <1>2, <1>3, EditedOne
<1>5. IsDocument(new) /\ Has(new, t) /\ new.defaults = d.defaults /\ BundleFor(new, t) = b
      /\ (Portable(d) => Portable(new)) /\ (~Portable(d) => ~Portable(new))
  BY <1>4 DEF OneTarget, Has, BundleFor
<1>6. Environment(new, t).named = Environment(d, t).named
  BY <1>2, <1>5, EnvironmentIs
<1>7. \A l \in Lists : l # "package" => Environment(new, t).lists[l] = Environment(d, t).lists[l]
  BY <1>2, <1>5, EnvironmentIs
<1>8. Environment(new, t).lists["package"] = s
  <2>1. Listed(s).items = s /\ ~Listed(s).nil
    BY DEF Listed
  <2> QED BY <1>2, <1>5, <2>1, EnvironmentIs DEF PackagesFor
<1> QED BY <1>4, <1>5, <1>6, <1>7, <1>8 DEF new, b

LEMMA NamedEdited ==
    ASSUME NEW d, IsDocument(d), NEW t, Has(d, t), NEW b, IsBundle(b), b.lists = BundleFor(d, t).lists
    PROVE  LET new == Edited(d, t, b) IN
           /\ OneTarget(d, t, new) /\ new.version = d.version /\ BundleFor(new, t) = b
           /\ \A l \in Lists : Environment(new, t).lists[l] = Environment(d, t).lists[l]
           /\ Environment(new, t).named = IF Portable(d) THEN NamedOver(d.defaults.named, b.named) ELSE b.named
<1> DEFINE new == Edited(d, t, b)
<1>4. OneTarget(d, t, new) /\ new.version = d.version
      /\ (Portable(d) => new.targets[t] = b) /\ (~Portable(d) => new.top = b)
  BY EditedOne
<1> HIDE DEF new
<1>5. IsDocument(new) /\ Has(new, t) /\ new.defaults = d.defaults /\ BundleFor(new, t) = b
      /\ (Portable(d) => Portable(new)) /\ (~Portable(d) => ~Portable(new))
  BY <1>4 DEF OneTarget, Has, BundleFor
<1>6. Environment(new, t).named = IF Portable(d) THEN NamedOver(d.defaults.named, b.named) ELSE b.named
  BY <1>5, EnvironmentIs
<1>7. \A l \in Lists : Environment(new, t).lists[l] = Environment(d, t).lists[l]
  BY <1>5, EnvironmentIs
<1> QED BY <1>4, <1>5, <1>6, <1>7 DEF new

NamedWith(n, key, e) == [k \in DOMAIN n \cup {key} |-> IF k = key THEN e ELSE n[k]]
NamedWithout(n, key) == [k \in DOMAIN n \ {key} |-> n[k]]

LEMMA LiveWith ==
    ASSUME NEW n, NEW key, NEW e
    PROVE  /\ ~e.null => Live(NamedWith(n, key, e)) = Live(n) \cup {key}
           /\ e.null => Live(NamedWith(n, key, e)) = Live(n) \ {key}
           /\ Live(NamedWithout(n, key)) = Live(n) \ {key}
<1> DEFINE w == NamedWith(n, key, e)
<1>1. DOMAIN w = DOMAIN n \cup {key} /\ \A k \in DOMAIN w : w[k] = IF k = key THEN e ELSE n[k]
  BY DEF NamedWith
<1>2. DOMAIN NamedWithout(n, key) = DOMAIN n \ {key}
      /\ \A k \in DOMAIN n \ {key} : NamedWithout(n, key)[k] = n[k]
  BY DEF NamedWithout
<1> HIDE DEF w
<1>3. ~e.null => Live(w) = Live(n) \cup {key}
  BY <1>1 DEF Live
<1>4. e.null => Live(w) = Live(n) \ {key}
  BY <1>1 DEF Live
<1> QED BY <1>2, <1>3, <1>4 DEF Live, w

LEMMA OverWith ==
    ASSUME NEW a, NEW b, NEW key, NEW e, ~e.null
    PROVE  NamedOver(a, NamedWith(b, key, e)) = NamedWith(NamedOver(a, b), key, e)
<1>1. Live(NamedWith(b, key, e)) = Live(b) \cup {key} /\ DOMAIN NamedWith(b, key, e) = DOMAIN b \cup {key}
      /\ \A k \in DOMAIN b \cup {key} : NamedWith(b, key, e)[k] = IF k = key THEN e ELSE b[k]
  <2>1. DOMAIN NamedWith(b, key, e) = DOMAIN b \cup {key}
        /\ \A k \in DOMAIN b \cup {key} : NamedWith(b, key, e)[k] = IF k = key THEN e ELSE b[k]
    BY DEF NamedWith
  <2> QED BY <2>1, LiveWith
<1>2. PICK w : w = NamedWith(b, key, e)
  OBVIOUS
<1> DEFINE l == NamedOver(a, w)
           r == NamedWith(NamedOver(a, b), key, e)
<1>3. l = [k \in (Live(a) \ (DOMAIN b \cup {key})) \cup (Live(b) \cup {key}) |->
             IF k \in DOMAIN b \cup {key} THEN IF k = key THEN e ELSE b[k] ELSE a[k]]
  BY <1>1, <1>2 DEF NamedOver
<1>4. r = [k \in ((Live(a) \ DOMAIN b) \cup Live(b)) \cup {key} |->
             IF k = key THEN e ELSE IF k \in DOMAIN b THEN b[k] ELSE a[k]]
  BY DEF NamedOver, NamedWith
<1>5. (Live(a) \ (DOMAIN b \cup {key})) \cup (Live(b) \cup {key}) = ((Live(a) \ DOMAIN b) \cup Live(b)) \cup {key}
  OBVIOUS
<1> HIDE DEF l, r
<1>6. l = r
  BY <1>3, <1>4, <1>5
<1> QED BY <1>2, <1>6 DEF l, r

LEMMA OverNull ==
    ASSUME NEW a, NEW b, NEW key, NEW e, e.null
    PROVE  NamedOver(a, NamedWith(b, key, e)) = NamedWithout(NamedOver(a, b), key)
<1>1. Live(NamedWith(b, key, e)) = Live(b) \ {key} /\ DOMAIN NamedWith(b, key, e) = DOMAIN b \cup {key}
      /\ \A k \in DOMAIN b \cup {key} : NamedWith(b, key, e)[k] = IF k = key THEN e ELSE b[k]
  <2>1. DOMAIN NamedWith(b, key, e) = DOMAIN b \cup {key}
        /\ \A k \in DOMAIN b \cup {key} : NamedWith(b, key, e)[k] = IF k = key THEN e ELSE b[k]
    BY DEF NamedWith
  <2> QED BY <2>1, LiveWith
<1>2. PICK w : w = NamedWith(b, key, e)
  OBVIOUS
<1> DEFINE l == NamedOver(a, w)
           r == NamedWithout(NamedOver(a, b), key)
<1>3. l = [k \in (Live(a) \ (DOMAIN b \cup {key})) \cup (Live(b) \ {key}) |->
             IF k \in DOMAIN b \cup {key} THEN IF k = key THEN e ELSE b[k] ELSE a[k]]
  BY <1>1, <1>2 DEF NamedOver
<1>4. r = [k \in ((Live(a) \ DOMAIN b) \cup Live(b)) \ {key} |-> IF k \in DOMAIN b THEN b[k] ELSE a[k]]
  BY DEF NamedOver, NamedWithout
<1>5. (Live(a) \ (DOMAIN b \cup {key})) \cup (Live(b) \ {key}) = ((Live(a) \ DOMAIN b) \cup Live(b)) \ {key}
  OBVIOUS
<1> HIDE DEF l, r
<1>6. l = r
  BY <1>3, <1>4, <1>5
<1> QED BY <1>2, <1>6 DEF l, r

LEMMA OverWithout ==
    ASSUME NEW a, NEW b, NEW key, key \notin Live(a)
    PROVE  NamedOver(a, NamedWithout(b, key)) = NamedWithout(NamedOver(a, b), key)
<1>1. Live(NamedWithout(b, key)) = Live(b) \ {key} /\ DOMAIN NamedWithout(b, key) = DOMAIN b \ {key}
      /\ \A k \in DOMAIN b \ {key} : NamedWithout(b, key)[k] = b[k]
  BY LiveWith DEF NamedWithout
<1>2. PICK w : w = NamedWithout(b, key)
  OBVIOUS
<1> DEFINE l == NamedOver(a, w)
           r == NamedWithout(NamedOver(a, b), key)
<1>3. l = [k \in (Live(a) \ (DOMAIN b \ {key})) \cup (Live(b) \ {key}) |->
             IF k \in DOMAIN b \ {key} THEN b[k] ELSE a[k]]
  BY <1>1, <1>2 DEF NamedOver
<1>4. r = [k \in ((Live(a) \ DOMAIN b) \cup Live(b)) \ {key} |-> IF k \in DOMAIN b THEN b[k] ELSE a[k]]
  BY DEF NamedOver, NamedWithout
<1>5. (Live(a) \ (DOMAIN b \ {key})) \cup (Live(b) \ {key}) = ((Live(a) \ DOMAIN b) \cup Live(b)) \ {key}
  OBVIOUS
<1> HIDE DEF l, r
<1>6. l = r
  BY <1>3, <1>4, <1>5
<1> QED BY <1>2, <1>6 DEF l, r

LEMMA NamedOf ==
    ASSUME NEW b, DOMAIN b = {"lists", "named"}, NEW key, NEW e
    PROVE  /\ WithEntry(b, key, e).named = NamedWith(b.named, key, e)
           /\ WithoutEntry(b, key).named = NamedWithout(b.named, key)
           /\ WithEntry(b, key, e).lists = b.lists /\ WithoutEntry(b, key).lists = b.lists
BY DEF WithEntry, WithoutEntry, NamedWith, NamedWithout

LEMMA WantedAdd ==
    ASSUME NEW env, DOMAIN env = {"lists", "named"}, DOMAIN env.lists = Lists, NEW r, r.cmd = "add"
    PROVE  /\ Wanted(env, r).named = env.named
           /\ Wanted(env, r).lists["package"] = Append(env.lists["package"], Item(r.name, r.val))
           /\ \A l \in Lists : l # "package" => Wanted(env, r).lists[l] = env.lists[l]
<1>1. Wanted(env, r) = [env EXCEPT !.lists["package"] = Append(@, Item(r.name, r.val))]
  BY DEF Wanted
<1> QED BY <1>1 DEF Lists

LEMMA WantedRemove ==
    ASSUME NEW env, DOMAIN env = {"lists", "named"}, DOMAIN env.lists = Lists, NEW r, r.cmd = "remove"
    PROVE  /\ Wanted(env, r).named = env.named
           /\ Wanted(env, r).lists["package"] = WithoutKey(env.lists["package"], r.name)
           /\ \A l \in Lists : l # "package" => Wanted(env, r).lists[l] = env.lists[l]
<1>1. Wanted(env, r) = [env EXCEPT !.lists["package"] = WithoutKey(@, r.name)]
  BY DEF Wanted
<1> QED BY <1>1 DEF Lists

LEMMA WantedSet ==
    ASSUME NEW env, DOMAIN env = {"lists", "named"}, DOMAIN env.lists = Lists, NEW r, r.cmd = "set"
    PROVE  Wanted(env, r).named = NamedWith(env.named, <<r.kind, r.name>>, Entry(r.val)) /\ Wanted(env, r).lists = env.lists
<1>1. Wanted(env, r) = WithEntry(env, <<r.kind, r.name>>, Entry(r.val))
  BY DEF Wanted
<1> QED BY <1>1, NamedOf

LEMMA WantedUnset ==
    ASSUME NEW env, DOMAIN env = {"lists", "named"}, DOMAIN env.lists = Lists, NEW r, r.cmd = "unset"
    PROVE  Wanted(env, r).named = NamedWithout(env.named, <<r.kind, r.name>>) /\ Wanted(env, r).lists = env.lists
<1>1. Wanted(env, r) = WithoutEntry(env, <<r.kind, r.name>>)
  BY DEF Wanted
<1> QED BY <1>1, NamedOf

\* A request for an edit, and the document that does it.
Does(d, t, new, r) ==
    /\ OneTarget(d, t, new)
    /\ Environment(new, t).named = Wanted(Environment(d, t), r).named
    /\ \A l \in Lists : Environment(new, t).lists[l] = Wanted(Environment(d, t), r).lists[l]

LEMMA AddedDoes ==
    ASSUME NEW d, IsDocument(d), NEW t, Has(d, t), NEW new, NEW r, AskedAdd(d, t, new, r)
    PROVE  Does(d, t, new, r) /\ r.cmd = "add" /\ r.target = t
<1>1. PICK id \in {"p", "q"}, val \in {"plain", "adapter"} :
        new = Added(d, t, id, val) /\ r = Request("add", t, "package", id, val)
  BY DEF AskedAdd
<1>2. Item(id, val) \in Items /\ PackagesFor(d, t) \in Seq(Items)
  BY BundleForIs, TextsAssumption DEF Item, Items
<1>3. PICK s : s = Append(PackagesFor(d, t), Item(id, val))
  OBVIOUS
<1>4. s \in Seq(Items) /\ new = WithPackages(d, t, s)
  BY <1>1, <1>2, <1>3 DEF Added
<1>5. /\ OneTarget(d, t, new)
      /\ Environment(new, t).named = Environment(d, t).named
      /\ Environment(new, t).lists["package"] = s
      /\ \A l \in Lists : l # "package" => Environment(new, t).lists[l] = Environment(d, t).lists[l]
  BY <1>4, PackagesEdited
<1>6. r.cmd = "add" /\ r.target = t /\ r.name = id /\ r.val = val
  BY <1>1 DEF Request
<1>7. DOMAIN Environment(d, t) = {"lists", "named"} /\ DOMAIN Environment(d, t).lists = Lists
      /\ Environment(d, t).lists["package"] = PackagesFor(d, t)
  BY EnvironmentIs
<1>8. /\ Wanted(Environment(d, t), r).named = Environment(d, t).named
      /\ Wanted(Environment(d, t), r).lists["package"] = Append(Environment(d, t).lists["package"], Item(r.name, r.val))
      /\ \A l \in Lists : l # "package" => Wanted(Environment(d, t), r).lists[l] = Environment(d, t).lists[l]
  <2>1. DOMAIN Environment(d, t) = {"lists", "named"} /\ DOMAIN Environment(d, t).lists = Lists
    BY <1>7
  <2>2. r.cmd = "add"
    BY <1>6
  <2> QED BY <2>1, <2>2, WantedAdd
<1> QED BY <1>3, <1>5, <1>6, <1>7, <1>8 DEF Does

LEMMA RemovedDoes ==
    ASSUME NEW d, IsDocument(d), NEW t, Has(d, t), NEW new, NEW r, AskedRemove(d, t, new, r)
    PROVE  Does(d, t, new, r) /\ r.cmd = "remove" /\ r.target = t
<1>1. PICK id \in {"p", "q"} : new = Removed(d, t, id) /\ r = Request("remove", t, "package", id, "")
  BY DEF AskedRemove
<1>2. PackagesFor(d, t) \in Seq(Items)
  BY BundleForIs
<1>3. PICK s : s = WithoutKey(PackagesFor(d, t), id)
  OBVIOUS
<1>4. s \in Seq(Items) /\ new = WithPackages(d, t, s)
  BY <1>1, <1>2, <1>3, KeepLemma DEF Removed, WithoutKey
<1>5. /\ OneTarget(d, t, new)
      /\ Environment(new, t).named = Environment(d, t).named
      /\ Environment(new, t).lists["package"] = s
      /\ \A l \in Lists : l # "package" => Environment(new, t).lists[l] = Environment(d, t).lists[l]
  BY <1>4, PackagesEdited
<1>6. r.cmd = "remove" /\ r.target = t /\ r.name = id
  BY <1>1 DEF Request
<1>7. DOMAIN Environment(d, t) = {"lists", "named"} /\ DOMAIN Environment(d, t).lists = Lists
      /\ Environment(d, t).lists["package"] = PackagesFor(d, t)
  BY EnvironmentIs
<1>8. /\ Wanted(Environment(d, t), r).named = Environment(d, t).named
      /\ Wanted(Environment(d, t), r).lists["package"] = WithoutKey(Environment(d, t).lists["package"], r.name)
      /\ \A l \in Lists : l # "package" => Wanted(Environment(d, t), r).lists[l] = Environment(d, t).lists[l]
  <2>1. DOMAIN Environment(d, t) = {"lists", "named"} /\ DOMAIN Environment(d, t).lists = Lists
    BY <1>7
  <2>2. r.cmd = "remove"
    BY <1>6
  <2> QED BY <2>1, <2>2, WantedRemove
<1> QED BY <1>3, <1>5, <1>6, <1>7, <1>8 DEF Does

LEMMA SetDoes ==
    ASSUME NEW d, IsDocument(d), NEW t, Has(d, t), NEW new, NEW r, AskedSet(d, t, new, r)
    PROVE  Does(d, t, new, r) /\ r.cmd = "set" /\ r.target = t
<1>1. PICK kind \in Kinds, name \in {"x", "web", "db"}, val \in {"plain", "secret", "powershell"} :
        new = SetIn(d, t, kind, name, val) /\ r = Request("set", t, kind, name, val)
  BY DEF AskedSet
<1>2. Entry(val) \in Entries /\ Entry(val).hosts = {} /\ ~Entry(val).null /\ <<kind, name>> \in Kinds \X Texts
  BY EntryIs, TextsAssumption
<1>3. PICK b : b = WithEntry(BundleFor(d, t), <<kind, name>>, Entry(val))
  OBVIOUS
<1>4. IsBundle(BundleFor(d, t)) /\ DOMAIN BundleFor(d, t) = {"lists", "named"}
  BY BundleForIs DEF IsBundle
<1>5. IsBundle(b) /\ b.lists = BundleFor(d, t).lists
      /\ b.named = NamedWith(BundleFor(d, t).named, <<kind, name>>, Entry(val))
  <2>1. IsBundle(b)
    BY <1>2, <1>3, <1>4, WithEntryIs
  <2> QED BY <1>3, <1>4, <2>1, NamedOf
<1>6. PICK e : e = Edited(d, t, b)
  OBVIOUS
<1>7. /\ OneTarget(d, t, e) /\ e.version = d.version /\ BundleFor(e, t) = b
      /\ \A l \in Lists : Environment(e, t).lists[l] = Environment(d, t).lists[l]
      /\ Environment(e, t).named = IF Portable(d) THEN NamedOver(d.defaults.named, b.named) ELSE b.named
  BY <1>5, <1>6, NamedEdited
<1>8. new = Raised(e, kind, val)
  BY <1>1, <1>3, <1>6 DEF SetIn
<1>9. IsDocument(e) /\ (Portable(d) => Portable(e)) /\ (~Portable(d) => ~Portable(e)) /\ DOMAIN d = DOMAIN e
  BY <1>7 DEF OneTarget, IsDocument
<1>10. OneTarget(d, t, new) /\ Environment(new, t).named = Environment(e, t).named
       /\ \A l \in Lists : Environment(new, t).lists[l] = Environment(e, t).lists[l]
  <2>1. CASE Portable(d)
    <3>1. new = e
      BY <1>8, <1>9, <2>1, RaisedIs
    <3> QED BY <1>7, <3>1
  <2>2. CASE ~Portable(d)
    <3>1. IsDocument(new) /\ (\A f \in Fields \ {"version"} : new[f] = e[f]) /\ ~Portable(new)
          /\ new.version >= e.version /\ (new.version = e.version \/ new.version \in 2..7)
      BY <1>8, <1>9, <2>2, RaisedIs
    <3>2. OneTarget(d, t, new) /\ new.top = e.top
      BY <1>7, <2>2, <3>1 DEF OneTarget, Fields
    <3> QED BY <1>9, <2>2, <3>1, <3>2, LegacyEnvironment
  <2> QED BY <2>1, <2>2
<1>11. r.cmd = "set" /\ r.target = t /\ r.kind = kind /\ r.name = name /\ r.val = val
  BY <1>1 DEF Request
<1>12. DOMAIN Environment(d, t) = {"lists", "named"} /\ DOMAIN Environment(d, t).lists = Lists
       /\ Environment(d, t).named =
            IF Portable(d) THEN NamedOver(d.defaults.named, BundleFor(d, t).named) ELSE BundleFor(d, t).named
  BY EnvironmentIs
<1>13. Environment(e, t).named = NamedWith(Environment(d, t).named, <<kind, name>>, Entry(val))
  <2>1. NamedOver(d.defaults.named, NamedWith(BundleFor(d, t).named, <<kind, name>>, Entry(val)))
          = NamedWith(NamedOver(d.defaults.named, BundleFor(d, t).named), <<kind, name>>, Entry(val))
    BY <1>2, OverWith
  <2> QED BY <1>5, <1>7, <1>12, <2>1
<1>14. /\ Wanted(Environment(d, t), r).named = NamedWith(Environment(d, t).named, <<r.kind, r.name>>, Entry(r.val))
       /\ Wanted(Environment(d, t), r).lists = Environment(d, t).lists
  <2>1. DOMAIN Environment(d, t) = {"lists", "named"} /\ DOMAIN Environment(d, t).lists = Lists
    BY <1>12
  <2>2. r.cmd = "set"
    BY <1>11
  <2> QED BY <2>1, <2>2, WantedSet
<1> QED BY <1>7, <1>10, <1>11, <1>13, <1>14 DEF Does

LEMMA UnsetDoes ==
    ASSUME NEW d, IsDocument(d), NEW t, Has(d, t), NEW new, NEW r, AskedUnset(d, t, new, r)
    PROVE  Does(d, t, new, r) /\ r.cmd = "unset" /\ r.target = t
<1>1. PICK kind \in Kinds, name \in {"x", "web", "db"} :
        /\ new = UnsetIn(d, t, <<kind, name>>) /\ r = Request("unset", t, kind, name, "")
  BY DEF AskedUnset
<1> DEFINE key == <<kind, name>>
           b == IF DefaultHas(d, key) THEN WithEntry(BundleFor(d, t), key, Null)
                ELSE WithoutEntry(BundleFor(d, t), key)
<1>2. Null \in Entries /\ Null.hosts = {} /\ Null.null /\ key \in Kinds \X Texts
  BY NullIs, TextsAssumption
<1> HIDE DEF key
<1>4. IsBundle(BundleFor(d, t)) /\ DOMAIN BundleFor(d, t) = {"lists", "named"}
  BY BundleForIs DEF IsBundle
<1>5. /\ IsBundle(b) /\ b.lists = BundleFor(d, t).lists
      /\ b.named = IF DefaultHas(d, key) THEN NamedWith(BundleFor(d, t).named, key, Null)
                   ELSE NamedWithout(BundleFor(d, t).named, key)
  <2>1. IsBundle(b)
    BY <1>2, <1>4, WithEntryIs, WithoutEntryIs
  <2> QED BY <1>4, <2>1, NamedOf
<1>6. new = Edited(d, t, b)
  BY <1>1 DEF UnsetIn, key
<1> HIDE DEF b
<1>7. /\ OneTarget(d, t, new)
      /\ \A l \in Lists : Environment(new, t).lists[l] = Environment(d, t).lists[l]
      /\ Environment(new, t).named = IF Portable(d) THEN NamedOver(d.defaults.named, b.named) ELSE b.named
  BY <1>5, <1>6, NamedEdited
<1>11. r.cmd = "unset" /\ r.target = t /\ r.kind = kind /\ r.name = name
  BY <1>1 DEF Request
<1>12. DOMAIN Environment(d, t) = {"lists", "named"} /\ DOMAIN Environment(d, t).lists = Lists
       /\ Environment(d, t).named =
            IF Portable(d) THEN NamedOver(d.defaults.named, BundleFor(d, t).named) ELSE BundleFor(d, t).named
  BY EnvironmentIs
<1>13. Environment(new, t).named = NamedWithout(Environment(d, t).named, key)
  <2>1. NamedOver(d.defaults.named, NamedWith(BundleFor(d, t).named, key, Null))
          = NamedWithout(NamedOver(d.defaults.named, BundleFor(d, t).named), key)
    BY <1>2, OverNull
  <2>2. key \notin Live(d.defaults.named) =>
          NamedOver(d.defaults.named, NamedWithout(BundleFor(d, t).named, key))
            = NamedWithout(NamedOver(d.defaults.named, BundleFor(d, t).named), key)
    BY OverWithout
  <2>3. CASE DefaultHas(d, key)
    BY <1>5, <1>7, <1>12, <2>1, <2>3 DEF DefaultHas
  <2>4. CASE ~DefaultHas(d, key)
    BY <1>5, <1>7, <1>12, <2>2, <2>4 DEF DefaultHas
  <2> QED BY <2>3, <2>4
<1>14. /\ Wanted(Environment(d, t), r).named = NamedWithout(Environment(d, t).named, <<r.kind, r.name>>)
       /\ Wanted(Environment(d, t), r).lists = Environment(d, t).lists
  <2>1. DOMAIN Environment(d, t) = {"lists", "named"} /\ DOMAIN Environment(d, t).lists = Lists
    BY <1>12
  <2>2. r.cmd = "unset"
    BY <1>11
  <2> QED BY <2>1, <2>2, WantedUnset
<1> QED BY <1>7, <1>11, <1>13, <1>14 DEF Does, key

LEMMA AskedDoes ==
    ASSUME NEW d, IsDocument(d), NEW t, Has(d, t), NEW new, NEW r, Asked(d, t, new, r)
    PROVE  Does(d, t, new, r) /\ r.cmd \in Edits /\ r.target = t
BY AddedDoes, RemovedDoes, SetDoes, UnsetDoes DEF Asked, Edits

-----------------------------------------------------------------------------
(* An added package: the document that was asked for is itself written.    *)

LEMMA ProvidedStays ==
    ASSUME NEW d, NEW e, e.defaults.named = d.defaults.named, DOMAIN e.targets = DOMAIN d.targets,
           \A t \in DOMAIN d.targets : e.targets[t].named = d.targets[t].named
    PROVE  Provided(e) = Provided(d)
<1>1. ASSUME NEW a, NEW b, a.named = b.named
      PROVE  {k[2] : k \in Keyed(a, "service")} = {k[2] : k \in Keyed(b, "service")}
  BY <1>1 DEF Keyed
<1> DEFINE S(b) == {k[2] : k \in Keyed(b, "service")}
<1>2. S(e.defaults) = S(d.defaults) /\ \A t \in DOMAIN d.targets : S(e.targets[t]) = S(d.targets[t])
  BY <1>1
<1>3. /\ Provided(d) = UNION {S(b) : b \in {d.defaults} \cup {d.targets[t] : t \in DOMAIN d.targets}}
      /\ Provided(e) = UNION {S(b) : b \in {e.defaults} \cup {e.targets[t] : t \in DOMAIN e.targets}}
  BY DEF Provided
<1> HIDE DEF S
<1>4. /\ Provided(d) = S(d.defaults) \cup UNION {S(d.targets[t]) : t \in DOMAIN d.targets}
      /\ Provided(e) = S(e.defaults) \cup UNION {S(e.targets[t]) : t \in DOMAIN e.targets}
  BY <1>3
<1> QED BY <1>2, <1>4

\* But for the packages, a bundle stays as valid as it was.
LEMMA BundleStaysOk ==
    ASSUME NEW d, NEW e, e.version = d.version, Provided(e) = Provided(d),
           NEW a, NEW b, NEW tombstones, BundleOk(d, a, tombstones), a.named = b.named,
           \A l \in Lists : l # "package" => a.lists[l] = b.lists[l],
           PackagesOk(e, b.lists["package"].items)
    PROVE  BundleOk(e, b, tombstones)
<1>1. EnvOk(e, b, tombstones)
  BY DEF BundleOk, EnvOk, Keyed
<1>2. AliasesOk(e, b, tombstones)
  BY DEF BundleOk, AliasesOk, Keyed
<1>3. ServicesOk(e, b, tombstones)
  BY DEF BundleOk, ServicesOk, Keyed
<1>4. FilesOk(e, b) /\ HooksOk(e, b)
  BY DEF BundleOk, FilesOk, HooksOk, Lists
<1> QED BY <1>1, <1>2, <1>3, <1>4 DEF BundleOk

LEMMA AppendedOk ==
    ASSUME NEW d, NEW e, e.version = d.version, e.adapters = d.adapters,
           NEW s \in Seq(Items), PackagesOk(d, s), NEW id \in Texts, NEW val \in Texts,
           \A i \in DOMAIN s : s[i].key # id, KnownManager(d, val), val # "recipe"
    PROVE  PackagesOk(e, Append(s, Item(id, val)))
<1> DEFINE x == Item(id, val)
           a == Append(s, x)
<1>1. x.key = id /\ x.val = val
  BY DEF Item
<1> HIDE DEF x
<1>2. /\ DOMAIN s = 1..Len(s) /\ Len(s) \in Nat /\ DOMAIN a = 1..(Len(s) + 1)
      /\ a[Len(s) + 1] = x /\ \A i \in 1..Len(s) : a[i] = s[i]
  OBVIOUS
<1> HIDE DEF a
<1>3. \A v : KnownManager(e, v) <=> KnownManager(d, v)
  BY DEF KnownManager
<1>4. \A i \in 1..(Len(s) + 1) : i \in 1..Len(s) \/ i = Len(s) + 1
  BY <1>2
<1>5. \A i \in DOMAIN a : KnownManager(e, a[i].val) /\ (a[i].val = "recipe" => e.version >= 9)
  BY <1>1, <1>2, <1>3, <1>4 DEF PackagesOk
<1>6. \A i, j \in DOMAIN a : a[i].key = a[j].key => i = j
  BY <1>1, <1>2, <1>4 DEF PackagesOk
<1> QED BY <1>5, <1>6 DEF PackagesOk, x, a

\* Patched with its own packages, a bundle is what it was.
LEMMA PatchedSame ==
    ASSUME NEW a PROVE Patched(a, a) = a
BY DEF Patched

LEMMA PatchedAppended ==
    ASSUME NEW a, IsBundle(a), NEW s \in Seq(Items), s # <<>>,
           \A i, j \in DOMAIN a.lists["package"].items :
               a.lists["package"].items[i].key = a.lists["package"].items[j].key => i = j,
           \A i \in DOMAIN s, j \in DOMAIN a.lists["package"].items :
               s[i].key = a.lists["package"].items[j].key => s[i] = a.lists["package"].items[j]
    PROVE  Patched(a, Packaged(a, s)).lists["package"] = Listed(s)
<1> DEFINE have == a.lists["package"].items
           At2(p) == CHOOSE i \in DOMAIN have : have[i].key = p.key
           Kept(p) == IF \E i \in DOMAIN have : have[i].key = p.key THEN have[At2(p)] ELSE p
           kept == [i \in DOMAIN s |-> Kept(s[i])]
<1>1. Packaged(a, s).lists["package"] = Listed(s) /\ Listed(s).items = s
  BY PackagedIs DEF Listed
<1>2. ASSUME NEW i \in DOMAIN s PROVE Kept(s[i]) = s[i]
  <2>1. CASE \E j \in DOMAIN have : have[j].key = s[i].key
    <3>1. At2(s[i]) \in DOMAIN have /\ have[At2(s[i])].key = s[i].key
      BY <2>1
    <3>2. have[At2(s[i])] = s[i]
      BY <3>1
    <3> QED BY <2>1, <3>2
  <2>2. CASE ~\E j \in DOMAIN have : have[j].key = s[i].key
    BY <2>2
  <2> QED BY <2>1, <2>2
<1>3. kept = s
  <2> HIDE DEF Kept
  <2>1. DOMAIN kept = DOMAIN s /\ \A i \in DOMAIN s : kept[i] = s[i]
    BY <1>2
  <2>2. s = [i \in DOMAIN s |-> s[i]]
    OBVIOUS
  <2> QED BY <1>2, <2>2
<1>4. Patched(a, Packaged(a, s)) = IF (a.lists["package"].nil /\ s = <<>>) \/ a.lists["package"] = Listed(s) THEN a
                                   ELSE [a EXCEPT !.lists["package"] = Listed(kept)]
  <2> DEFINE want == Packaged(a, s).lists["package"]
  <2>1. Patched(a, Packaged(a, s)) = IF (a.lists["package"].nil /\ want.items = <<>>) \/ a.lists["package"] = want THEN a
                                   ELSE [a EXCEPT !.lists["package"] = Listed([i \in DOMAIN want.items |-> Kept(want.items[i])])]
    BY DEF Patched
  <2>2. want = Listed(s) /\ want.items = s
    BY <1>1
  <2> HIDE DEF want, Kept
  <2> QED BY <2>1, <2>2
<1>5. [a EXCEPT !.lists["package"] = Listed(s)].lists["package"] = Listed(s)
  BY DEF IsBundle, Lists
<1> HIDE DEF kept
<1> QED BY <1>3, <1>4, <1>5

LEMMA SameWithout ==
    ASSUME NEW a, IsBundle(a), NEW b, IsBundle(b), a.named = b.named,
           \A l \in Lists : l # "package" => a.lists[l] = b.lists[l]
    PROVE  WithoutPackages(a) = WithoutPackages(b)
<1>1. DOMAIN a = {"lists", "named"} /\ DOMAIN b = {"lists", "named"}
      /\ DOMAIN a.lists = Lists /\ DOMAIN b.lists = Lists
  BY DEF IsBundle
<1>2. [a.lists EXCEPT !["package"] = Nil] = [b.lists EXCEPT !["package"] = Nil]
  BY <1>1 DEF Lists
<1> QED BY <1>1, <1>2 DEF WithoutPackages

\* The document that an add asks for is valid, and is written as it is.
LEMMA AddedWritten ==
    ASSUME NEW d, IsDocument(d), d # NoSpec, Valid(d), NEW t, Has(d, t), NEW new, NEW r, AskedAdd(d, t, new, r)
    PROVE  /\ CanRewriteInPlace(d, new) /\ new.schema = d.schema
           /\ WithoutPackages(InPlace(d, new).top) = WithoutPackages(d.top)
           /\ WithoutPackages(InPlace(d, new).defaults) = WithoutPackages(d.defaults)
           /\ \A u \in DOMAIN d.targets : WithoutPackages(InPlace(d, new).targets[u]) = WithoutPackages(d.targets[u])
<1>1. PICK id \in {"p", "q"}, val \in {"plain", "adapter"} :
        /\ \A i \in DOMAIN PackagesFor(d, t) : PackagesFor(d, t)[i].key # id
        /\ KnownManager(d, val)
        /\ new = Added(d, t, id, val)
  BY DEF AskedAdd
<1>2. PackagesFor(d, t) \in Seq(Items) /\ IsBundle(BundleFor(d, t)) /\ id \in Texts /\ val \in Texts
  BY BundleForIs, TextsAssumption
<1>3. PICK s : s = Append(PackagesFor(d, t), Item(id, val))
  OBVIOUS
<1>4. Item(id, val) \in Items /\ Item(id, val).key = id
  BY <1>2 DEF Item, Items
<1>5. s \in Seq(Items) /\ s # <<>>
  <2> HIDE DEF Items
  <2> QED BY <1>2, <1>3, <1>4
<1>6. new = WithPackages(d, t, s)
  BY <1>1, <1>3 DEF Added
<1>7. OneTarget(d, t, new) /\ new.version = d.version /\ BundleFor(new, t) = Packaged(BundleFor(d, t), s)
  BY <1>5, <1>6, PackagesEdited
<1>8. IsDocument(new) /\ DOMAIN new.targets = DOMAIN d.targets /\ new.defaults = d.defaults
      /\ new.schema = d.schema /\ new.adapters = d.adapters /\ new.updates = d.updates /\ new.modules = d.modules
  BY <1>7 DEF OneTarget
<1>9. PICK m : m = InPlace(d, new)
  OBVIOUS
<1>10. /\ IsDocument(m) /\ m.version = d.version /\ m.adapters = d.adapters /\ m.updates = d.updates
       /\ m.top = Patched(d.top, new.top) /\ m.defaults = Patched(d.defaults, new.defaults)
       /\ DOMAIN m.targets = DOMAIN d.targets
       /\ \A u \in DOMAIN d.targets : m.targets[u] = Patched(d.targets[u], new.targets[u])
  BY <1>8, <1>9, InPlaceIs
<1>11. PackagesOk(d, PackagesFor(d, t))
  BY DEF Valid, PortableOk, LegacyOk, BundleOk, PackagesFor, BundleFor, Has
<1>12. \A i, j \in DOMAIN PackagesFor(d, t) : PackagesFor(d, t)[i].key = PackagesFor(d, t)[j].key => i = j
  BY <1>11 DEF PackagesOk
<1>13. \A e : e.version = d.version /\ e.adapters = d.adapters => PackagesOk(e, s)
  BY <1>1, <1>2, <1>3, <1>11, AppendedOk
<1>14. Patched(BundleFor(d, t), Packaged(BundleFor(d, t), s)).lists["package"] = Listed(s)
  <2> DEFINE a == BundleFor(d, t)
             have == a.lists["package"].items
  <2>1. have = <<>> \/ have = PackagesFor(d, t)
    <3>1. a.lists["package"].nil => have = <<>>
      BY <1>2, ItemsOf DEF Lists
    <3> QED BY <3>1 DEF PackagesFor
  <2>2. have \in Seq(Items)
    BY <1>2, ItemsOf DEF Lists
  <2> HIDE DEF a, have
  <2>3. \A i, j \in DOMAIN have : have[i].key = have[j].key => i = j
    BY <1>12, <2>1
  <2>4. \A i \in DOMAIN s, j \in DOMAIN have : s[i].key = have[j].key => s[i] = have[j]
    <3>1. CASE have = <<>>
      BY <3>1
    <3>2. CASE have = PackagesFor(d, t)
      <4>1. /\ DOMAIN have = 1..Len(have) /\ Len(have) \in Nat /\ DOMAIN s = 1..(Len(have) + 1)
            /\ s[Len(have) + 1] = Item(id, val) /\ \A i \in 1..Len(have) : s[i] = have[i]
        <5> HIDE DEF Items
        <5> QED BY <1>2, <1>3, <1>4, <2>2, <3>2
      <4>2. \A i \in 1..(Len(have) + 1) : i \in 1..Len(have) \/ i = Len(have) + 1
        BY <4>1
      <4> QED BY <1>1, <1>4, <2>3, <3>2, <4>1, <4>2
    <3> QED BY <2>1, <3>1, <3>2
  <2> QED BY <1>2, <1>5, <2>3, <2>4, PatchedAppended DEF a, have
<1>15. \A x : PackagesOk(d, x) => PackagesOk(m, x)
  BY <1>10 DEF PackagesOk, KnownManager
<1>16. PackagesOk(m, s)
  BY <1>10, <1>13
<1> DEFINE P == Patched(BundleFor(d, t), Packaged(BundleFor(d, t), s))
<1>17. /\ IsBundle(P) /\ P.named = BundleFor(d, t).named /\ P.lists["package"] = Listed(s)
       /\ \A l \in Lists : l # "package" => P.lists[l] = BundleFor(d, t).lists[l]
       /\ IsBundle(Packaged(BundleFor(d, t), s)) /\ Packaged(BundleFor(d, t), s).lists["package"] = Listed(s)
       /\ Packaged(BundleFor(d, t), s).named = BundleFor(d, t).named
       /\ \A l \in Lists : l # "package" => Packaged(BundleFor(d, t), s).lists[l] = BundleFor(d, t).lists[l]
  BY <1>2, <1>5, <1>14, PackagedIs, PatchedIs
<1>18. Listed(s).items = s /\ ~Listed(s).nil
  BY DEF Listed
<1> HIDE DEF P
<1>19. /\ m.defaults = d.defaults
       /\ Portable(d) => /\ m.top = d.top /\ new.top = d.top
                         /\ m.targets[t] = P /\ new.targets[t] = Packaged(BundleFor(d, t), s)
                         /\ \A u \in DOMAIN d.targets : u # t => m.targets[u] = d.targets[u] /\ new.targets[u] = d.targets[u]
       /\ ~Portable(d) => /\ m.top = P /\ new.top = Packaged(BundleFor(d, t), s)
                          /\ \A u \in DOMAIN d.targets : m.targets[u] = d.targets[u] /\ new.targets[u] = d.targets[u]
  <2>1. m.defaults = d.defaults
    BY <1>8, <1>10, PatchedSame
  <2>2. CASE Portable(d)
    <3>1. BundleFor(d, t) = d.targets[t] /\ t \in DOMAIN d.targets /\ BundleFor(new, t) = new.targets[t]
      BY <1>7, <2>2 DEF BundleFor, Has, OneTarget
    <3>2. new.top = d.top /\ \A u \in DOMAIN d.targets : u # t => new.targets[u] = d.targets[u]
      BY <1>7, <2>2 DEF OneTarget
    <3>3. m.top = d.top /\ \A u \in DOMAIN d.targets : u # t => m.targets[u] = d.targets[u]
      BY <1>10, <3>2, PatchedSame
    <3>4. m.targets[t] = P
      BY <1>7, <1>10, <3>1 DEF P
    <3> QED BY <1>7, <2>1, <2>2, <3>1, <3>2, <3>3, <3>4
  <2>3. CASE ~Portable(d)
    <3>1. BundleFor(d, t) = d.top /\ BundleFor(new, t) = new.top /\ new.targets = d.targets
      BY <1>7, <2>3 DEF BundleFor, OneTarget
    <3>2. m.top = P
      BY <1>7, <1>10, <3>1 DEF P
    <3>3. \A u \in DOMAIN d.targets : m.targets[u] = d.targets[u]
      BY <1>10, <3>1, PatchedSame
    <3> QED BY <1>7, <2>1, <2>3, <3>1, <3>2, <3>3
  <2> QED BY <2>2, <2>3
<1>20. Provided(m) = Provided(d)
  <2>1. \A u \in DOMAIN d.targets : m.targets[u].named = d.targets[u].named
    BY <1>17, <1>19 DEF BundleFor
  <2> QED BY <1>10, <1>19, <2>1, ProvidedStays
<1>21. ASSUME NEW tombstones, BundleOk(d, BundleFor(d, t), tombstones) PROVE BundleOk(m, P, tombstones)
  BY <1>10, <1>16, <1>17, <1>18, <1>20, <1>21, BundleStaysOk
<1>22. ASSUME NEW b, NEW tombstones, BundleOk(d, b, tombstones) PROVE BundleOk(m, b, tombstones)
  <2>1. PackagesOk(m, b.lists["package"].items)
    BY <1>15, <1>22 DEF BundleOk
  <2> QED BY <1>10, <1>20, <1>22, <2>1, BundleStaysOk
<1>23. Valid(m)
  <2>1. d.version \in 1..10 /\ UpdatesOk(d) /\ (Portable(d) => PortableOk(d)) /\ (~Portable(d) => LegacyOk(d))
    BY DEF Valid
  <2>2. m.version \in 1..10 /\ UpdatesOk(m)
    BY <1>10, <2>1 DEF UpdatesOk
  <2>3. CASE Portable(d)
    <3>1. Portable(m) /\ BundleFor(d, t) = d.targets[t] /\ t \in DOMAIN d.targets /\ PortableOk(d)
      BY <1>10, <2>1, <2>3 DEF Portable, BundleFor, Has
    <3>2. NoHosts(P)
      <4>1. NoHosts(d.targets[t]) /\ NoHosts(d.defaults)
        BY <3>1 DEF PortableOk
      <4>2. \A i \in DOMAIN PackagesFor(d, t) : PackagesFor(d, t)[i].hosts = {}
        BY <3>1, <4>1 DEF PackagesFor, NoHosts, Lists
      <4>3. \A i \in DOMAIN s : s[i].hosts = {}
        <5>1. /\ DOMAIN PackagesFor(d, t) = 1..Len(PackagesFor(d, t)) /\ Len(PackagesFor(d, t)) \in Nat
              /\ DOMAIN s = 1..(Len(PackagesFor(d, t)) + 1)
              /\ s[Len(PackagesFor(d, t)) + 1] = Item(id, val)
              /\ \A i \in 1..Len(PackagesFor(d, t)) : s[i] = PackagesFor(d, t)[i]
          <6> HIDE DEF Items
          <6> QED BY <1>2, <1>3, <1>4
        <5>2. Item(id, val).hosts = {}
          BY DEF Item
        <5>3. \A i \in 1..(Len(PackagesFor(d, t)) + 1) : i \in 1..Len(PackagesFor(d, t)) \/ i = Len(PackagesFor(d, t)) + 1
          BY <5>1
        <5> QED BY <4>2, <5>1, <5>2, <5>3
      <4>4. \A l \in Lists : \A i \in DOMAIN P.lists[l].items : P.lists[l].items[i].hosts = {}
        BY <1>17, <1>18, <3>1, <4>1, <4>3 DEF NoHosts
      <4> QED BY <1>17, <3>1, <4>1, <4>4 DEF NoHosts
    <3>3. KnownTombstones(m, P)
      BY <1>17, <1>19, <3>1 DEF KnownTombstones, PortableOk
    <3>4. BundleOk(m, m.defaults, FALSE) /\ NoHosts(m.defaults)
      BY <1>19, <1>22, <3>1 DEF PortableOk
    <3>5. ASSUME NEW u \in DOMAIN m.targets
          PROVE  BundleOk(m, m.targets[u], TRUE) /\ NoHosts(m.targets[u]) /\ KnownTombstones(m, m.targets[u])
      <4>1. BundleOk(d, d.targets[u], TRUE) /\ NoHosts(d.targets[u]) /\ KnownTombstones(d, d.targets[u])
        BY <1>10, <3>1 DEF PortableOk
      <4>2. CASE u = t
        BY <1>19, <1>21, <2>3, <3>1, <3>2, <3>3, <4>1, <4>2
      <4>3. CASE u # t
        <5>1. m.targets[u] = d.targets[u]
          BY <1>10, <1>19, <2>3, <4>3
        <5>2. KnownTombstones(m, d.targets[u])
          BY <1>19, <4>1 DEF KnownTombstones
        <5> QED BY <1>22, <4>1, <5>1, <5>2
      <4> QED BY <4>2, <4>3
    <3>6. PortableOk(m)
      <4>1. m.top = d.top /\ DOMAIN m.targets # {}
        BY <1>10, <1>19, <2>3, <3>1
      <4> QED BY <3>1, <3>4, <3>5, <4>1 DEF PortableOk
    <3> QED BY <2>2, <3>1, <3>6 DEF Valid
  <2>4. CASE ~Portable(d)
    <3>1. ~Portable(m) /\ BundleFor(d, t) = d.top /\ LegacyOk(d) /\ m.top = P
      BY <1>10, <1>19, <2>1, <2>4 DEF Portable, BundleFor
    <3>2. BundleOk(m, m.top, FALSE)
      BY <1>21, <3>1 DEF LegacyOk
    <3>3. LegacyOk(m)
      BY <1>10, <1>17, <1>18, <3>1, <3>2 DEF LegacyOk
    <3> QED BY <2>2, <3>1, <3>3 DEF Valid
  <2> QED BY <2>3, <2>4
<1>24. WithoutPackages(P) = WithoutPackages(BundleFor(d, t))
  BY <1>2, <1>17, SameWithout
<1>25. WithoutPackages(Packaged(BundleFor(d, t), s)) = WithoutPackages(BundleFor(d, t))
  BY <1>2, <1>17, SameWithout
<1>26. /\ WithoutPackages(m.top) = WithoutPackages(d.top) /\ WithoutPackages(new.top) = WithoutPackages(d.top)
       /\ WithoutPackages(m.defaults) = WithoutPackages(d.defaults)
       /\ WithoutPackages(new.defaults) = WithoutPackages(d.defaults)
       /\ \A u \in DOMAIN d.targets : /\ WithoutPackages(m.targets[u]) = WithoutPackages(d.targets[u])
                                      /\ WithoutPackages(new.targets[u]) = WithoutPackages(d.targets[u])
  BY <1>8, <1>19, <1>24, <1>25 DEF BundleFor
<1>27. SameNonPackageState(d, new)
  BY <1>7, <1>8, <1>26 DEF SameNonPackageState
<1>28. PackagesMatch(m, new)
  BY <1>8, <1>10, <1>17, <1>19 DEF PackagesMatch
<1>29. CanRewriteInPlace(d, new)
  BY <1>9, <1>23, <1>27, <1>28 DEF CanRewriteInPlace
<1> QED BY <1>8, <1>9, <1>26, <1>29

-----------------------------------------------------------------------------
(* A legacy document is never refused.                                     *)

LEMMA LegacyFacts ==
    ASSUME NEW d, IsDocument(d), Valid(d), ~Portable(d)
    PROVE  /\ d.version \in 1..7 /\ LegacyOk(d) /\ UpdatesOk(d) /\ BundleOk(d, d.top, FALSE) /\ ~d.adapters
           /\ \A k \in DOMAIN d.top.named : k[1] \in Kinds /\ ~d.top.named[k].null
                                             /\ d.version >= Needs(k[1], d.top.named[k].val)
                                             /\ ~(k[1] = "service" /\ d.top.named[k].val = "requires")
<1>1. d.version \in 1..7 /\ LegacyOk(d) /\ UpdatesOk(d)
  BY DEF Valid, Portable
<1>2. BundleOk(d, d.top, FALSE) /\ ~d.adapters
  BY <1>1 DEF LegacyOk
<1>3. ASSUME NEW k \in DOMAIN d.top.named
      PROVE  k[1] \in Kinds /\ ~d.top.named[k].null /\ d.version >= Needs(k[1], d.top.named[k].val)
             /\ ~(k[1] = "service" /\ d.top.named[k].val = "requires")
  <2>1. k[1] \in Kinds
    BY DEF IsDocument, IsBundle, Kinds
  <2>2. CASE k[1] = "env"
    BY <1>2, <2>2 DEF BundleOk, EnvOk, Keyed, Kinds
  <2>3. CASE k[1] = "alias"
    BY <1>2, <2>3 DEF BundleOk, AliasesOk, Keyed, Kinds
  <2>4. CASE k[1] = "service"
    <3>1. ~d.top.named[k].null /\ d.version >= Needs("service", d.top.named[k].val)
      BY <1>2, <2>4 DEF BundleOk, ServicesOk, Keyed
    <3>2. d.top.named[k].val # "requires"
      BY <1>1, <3>1 DEF Needs
    <3> QED BY <2>1, <2>4, <3>1, <3>2
  <2> QED BY <2>1, <2>2, <2>3, <2>4 DEF Kinds
<1> QED BY <1>1, <1>2, <1>3

LEMMA LegacyMarshalled ==
    ASSUME NEW d, IsDocument(d), Valid(d), ~Portable(d), NEW t, NEW new, OneTarget(d, t, new),
           \A l \in Lists : l # "package" => new.top.lists[l].items = d.top.lists[l].items,
           PackagesOk(new, new.top.lists["package"].items),
           \A k \in DOMAIN new.top.named :
               \/ k \in DOMAIN d.top.named /\ new.top.named[k] = d.top.named[k]
               \/ /\ ~new.top.named[k].null /\ new.top.named[k].val # "requires"
                  /\ new.version >= Needs(k[1], new.top.named[k].val)
    PROVE  Valid(Marshalled(new))
<1>1. PICK m : m = Marshalled(new)
  OBVIOUS
<1>2. IsDocument(new) /\ ~Portable(new) /\ new.adapters = d.adapters /\ new.updates = d.updates
      /\ new.version >= d.version /\ new.version \in 1..7
      /\ d.version \in 1..7 /\ LegacyOk(d) /\ UpdatesOk(d) /\ BundleOk(d, d.top, FALSE) /\ ~d.adapters
  <2>1. d.version \in 1..7 /\ LegacyOk(d) /\ UpdatesOk(d) /\ BundleOk(d, d.top, FALSE) /\ ~d.adapters
    BY LegacyFacts
  <2>2. IsDocument(new) /\ ~Portable(new) /\ new.version >= d.version
        /\ (new.version = d.version \/ new.version \in 2..7)
    BY DEF OneTarget
  <2>3. new.adapters = d.adapters /\ new.updates = d.updates
    BY DEF OneTarget
  <2>4. new.version \in 1..7
    BY <2>1, <2>2
  <2> QED BY <2>1, <2>2, <2>3, <2>4
<1>3. /\ IsDocument(m) /\ m.version = new.version /\ m.adapters = new.adapters /\ m.updates = new.updates
      /\ m.top = Packaged(Written(new.top), new.top.lists["package"].items)
  BY <1>1, <1>2, MarshalledIs
<1>4. /\ IsBundle(new.top) /\ IsBundle(Written(new.top)) /\ Written(new.top).named = new.top.named
      /\ \A l \in Lists : /\ Written(new.top).lists[l].items = new.top.lists[l].items
                          /\ Written(new.top).lists[l].nil <=> new.top.lists[l].items = <<>>
      /\ new.top.lists["package"].items \in Seq(Items)
  <2>1. IsBundle(new.top)
    BY <1>2 DEF IsDocument
  <2>2. new.top.lists["package"].items \in Seq(Items)
    BY <2>1, ItemsOf DEF Lists
  <2>3. IsBundle(Written(new.top)) /\ Written(new.top).named = new.top.named
    BY <2>1, WrittenIs
  <2>4. ASSUME NEW l \in Lists
        PROVE  /\ Written(new.top).lists[l].items = new.top.lists[l].items
               /\ Written(new.top).lists[l].nil <=> new.top.lists[l].items = <<>>
    BY <2>1, WrittenIs
  <2> QED BY <2>1, <2>2, <2>3, <2>4
<1>5. /\ m.top.named = new.top.named /\ m.top.lists["package"] = Listed(new.top.lists["package"].items)
      /\ \A l \in Lists : l # "package" => m.top.lists[l] = Written(new.top).lists[l]
  BY <1>3, <1>4, PackagedIs
<1>6. m.top.lists["package"].items = new.top.lists["package"].items /\ ~m.top.lists["package"].nil
  BY <1>5 DEF Listed
<1>7. \A l \in Lists : l # "package" => /\ m.top.lists[l].items = d.top.lists[l].items
                                        /\ m.top.lists[l].nil <=> d.top.lists[l].items = <<>>
  BY <1>4, <1>5
<1>8. ASSUME NEW l \in Lists, d.top.lists[l].nil PROVE d.top.lists[l].items = <<>>
  BY <1>8, ItemsOf DEF IsDocument
<1>9. m.version >= d.version /\ m.version \in 1..7 /\ d.version \in Nat
  BY <1>2, <1>3
<1>10. FilesOk(m, m.top)
  <2>1. FilesOk(d, d.top) /\ "file" \in Lists /\ "file" # "package"
    BY <1>2 DEF BundleOk, Lists
  <2> QED BY <1>7, <1>8, <1>9, <2>1 DEF FilesOk
<1>11. HooksOk(m, m.top)
  <2>1. HooksOk(d, d.top) /\ "hook" \in Lists /\ "hook" # "package"
    BY <1>2 DEF BundleOk, Lists
  <2> QED BY <1>7, <1>8, <1>9, <2>1 DEF HooksOk
<1>12. PackagesOk(m, m.top.lists["package"].items)
  BY <1>3, <1>6 DEF PackagesOk, KnownManager
<1>13. ASSUME NEW k \in DOMAIN m.top.named
       PROVE  ~m.top.named[k].null /\ m.version >= Needs(k[1], m.top.named[k].val)
              /\ ~(k[1] = "service" /\ m.top.named[k].val = "requires")
  <2>1. k[1] \in Kinds
    BY <1>3 DEF IsDocument, IsBundle, Kinds
  <2>2. CASE k \in DOMAIN d.top.named /\ m.top.named[k] = d.top.named[k]
    <3>1. ~d.top.named[k].null /\ d.version >= Needs(k[1], d.top.named[k].val)
          /\ ~(k[1] = "service" /\ d.top.named[k].val = "requires")
      BY <2>2, LegacyFacts
    <3>2. Needs(k[1], d.top.named[k].val) \in Nat
      BY <2>1 DEF Needs, Kinds
    <3> QED BY <1>9, <2>2, <3>1, <3>2
  <2>3. CASE ~(k \in DOMAIN d.top.named /\ m.top.named[k] = d.top.named[k])
    BY <1>3, <1>5, <2>3
  <2> QED BY <2>2, <2>3
<1>14. EnvOk(m, m.top, FALSE) /\ AliasesOk(m, m.top, FALSE)
  BY <1>13 DEF EnvOk, AliasesOk, Keyed
<1>15. ServicesOk(m, m.top, FALSE)
  BY <1>13 DEF ServicesOk, Keyed
<1>16. LegacyOk(m)
  BY <1>2, <1>3, <1>6, <1>10, <1>11, <1>12, <1>14, <1>15 DEF LegacyOk, BundleOk
<1>17. UpdatesOk(m) /\ m.version \in 1..10 /\ ~Portable(m)
  BY <1>2, <1>3, <1>9 DEF UpdatesOk, Portable
<1> QED BY <1>1, <1>16, <1>17 DEF Valid

LEMMA KeptPackagesOk ==
    ASSUME NEW d, NEW s \in Seq(Items), NEW S, PackagesOk(d, s)
    PROVE  PackagesOk(d, Keep(s, S))
<1>1. PICK k : k = Keep(s, S)
  OBVIOUS
<1>2. DOMAIN s = 1..Len(s) /\ \A i, j \in DOMAIN s : s[i].key = s[j].key => i = j
  BY DEF PackagesOk
<1>3. IsInjective(s)
  BY <1>2 DEF IsInjective
<1>4. k \in Seq(Items) /\ ToSet(k) = ToSet(s) \cap S
  BY <1>1, KeepLemma
<1>5. \A i, j \in DOMAIN k : k[i] = k[j] => i = j
  <2>1. IsInjective(k)
    BY <1>1, <1>3, KeepOnce
  <2> QED BY <2>1 DEF IsInjective
<1>6. ASSUME NEW i \in DOMAIN k PROVE \E a \in DOMAIN s : s[a] = k[i]
  <2>1. k[i] \in ToSet(k)
    BY DEF ToSet
  <2>2. k[i] \in ToSet(s)
    BY <1>4, <2>1
  <2> QED BY <2>2 DEF ToSet
<1>7. ASSUME NEW i \in DOMAIN k, NEW j \in DOMAIN k, k[i].key = k[j].key PROVE i = j
  <2>1. PICK a \in DOMAIN s : s[a] = k[i]
    BY <1>6
  <2>2. PICK b \in DOMAIN s : s[b] = k[j]
    BY <1>6
  <2>3. a = b
    BY <1>2, <1>7, <2>1, <2>2
  <2> QED BY <1>5, <2>1, <2>2, <2>3
<1>8. ASSUME NEW i \in DOMAIN k PROVE KnownManager(d, k[i].val) /\ (k[i].val = "recipe" => d.version >= 9)
  <2>1. PICK a \in DOMAIN s : s[a] = k[i]
    BY <1>6
  <2>2. KnownManager(d, s[a].val) /\ (s[a].val = "recipe" => d.version >= 9)
    BY DEF PackagesOk
  <2> QED BY <2>1, <2>2
<1> QED BY <1>1, <1>7, <1>8 DEF PackagesOk

LEMMA LegacyWritten ==
    ASSUME NEW d, IsDocument(d), d # NoSpec, Valid(d), ~Portable(d), NEW t, Has(d, t),
           NEW new, NEW r, Asked(d, t, new, r)
    PROVE  Valid(Rewritten(d, new))
<1>1. CASE AskedAdd(d, t, new, r)
  <2>1. CanRewriteInPlace(d, new)
    BY <1>1, AddedWritten
  <2> QED BY <2>1 DEF Rewritten, CanRewriteInPlace
<1>2. ASSUME Valid(Marshalled(new)) PROVE Valid(Rewritten(d, new))
  BY <1>2 DEF Rewritten, CanRewriteInPlace
<1>3. Does(d, t, new, r) /\ OneTarget(d, t, new) /\ ~Portable(new)
  <2>1. Does(d, t, new, r)
    BY AskedDoes
  <2> QED BY <2>1 DEF Does, OneTarget
<1>4. /\ Environment(new, t).named = new.top.named /\ Environment(d, t).named = d.top.named
      /\ \A l \in Lists : Environment(new, t).lists[l] = new.top.lists[l].items
      /\ \A l \in Lists : Environment(d, t).lists[l] = d.top.lists[l].items
  BY <1>3, LegacyEnvironment
<1>5. DOMAIN Environment(d, t) = {"lists", "named"} /\ DOMAIN Environment(d, t).lists = Lists
      /\ Environment(d, t).lists["package"] = PackagesFor(d, t)
  BY EnvironmentIs
<1>6. new.top.named = Wanted(Environment(d, t), r).named
      /\ \A l \in Lists : new.top.lists[l].items = Wanted(Environment(d, t), r).lists[l]
  BY <1>3, <1>4 DEF Does
<1>7. BundleOk(d, d.top, FALSE) /\ d.version \in 1..7
  BY LegacyFacts
<1>8. d.top.lists["package"].items \in Seq(Items) /\ PackagesOk(d, d.top.lists["package"].items)
  BY <1>7, ItemsOf DEF BundleOk, IsDocument, Lists
<1>9. ASSUME NEW s, PackagesOk(d, s) PROVE PackagesOk(new, s)
  <2>1. new.adapters = d.adapters /\ new.version >= d.version /\ new.version \in Nat
    BY <1>3 DEF OneTarget, IsDocument
  <2>2. \A v : KnownManager(d, v) => KnownManager(new, v)
    BY <2>1 DEF KnownManager
  <2> QED BY <1>7, <1>9, <2>1, <2>2 DEF PackagesOk
<1>10. CASE AskedRemove(d, t, new, r)
  <2>1. PICK id \in {"p", "q"} : r = Request("remove", t, "package", id, "")
    BY <1>10 DEF AskedRemove
  <2>2. r.cmd = "remove" /\ r.name = id
    BY <2>1 DEF Request
  <2>3. /\ Wanted(Environment(d, t), r).named = Environment(d, t).named
        /\ Wanted(Environment(d, t), r).lists["package"] = WithoutKey(Environment(d, t).lists["package"], r.name)
        /\ \A l \in Lists : l # "package" => Wanted(Environment(d, t), r).lists[l] = Environment(d, t).lists[l]
    BY <1>5, <2>2, WantedRemove
  <2>4. new.top.named = d.top.named
    BY <1>4, <1>6, <2>3
  <2>5. \A l \in Lists : l # "package" => new.top.lists[l].items = d.top.lists[l].items
    BY <1>4, <1>6, <2>3
  <2>6. new.top.lists["package"].items = WithoutKey(d.top.lists["package"].items, r.name)
    BY <1>4, <1>6, <2>3 DEF Lists
  <2>7. PackagesOk(d, new.top.lists["package"].items)
    BY <1>8, <2>6, KeptPackagesOk DEF WithoutKey
  <2>8. PackagesOk(new, new.top.lists["package"].items)
    BY <1>9, <2>7
  <2>9. Valid(Marshalled(new))
    BY <1>3, <2>4, <2>5, <2>8, LegacyMarshalled
  <2> QED BY <1>2, <2>9
<1>11. CASE AskedSet(d, t, new, r)
  <2>1. PICK kind \in Kinds, name \in {"x", "web", "db"}, val \in {"plain", "secret", "powershell"} :
          new = SetIn(d, t, kind, name, val) /\ r = Request("set", t, kind, name, val)
    BY <1>11 DEF AskedSet
  <2>2. r.cmd = "set" /\ r.kind = kind /\ r.name = name /\ r.val = val
    BY <2>1 DEF Request
  <2>3. /\ Wanted(Environment(d, t), r).named = NamedWith(Environment(d, t).named, <<r.kind, r.name>>, Entry(r.val))
        /\ Wanted(Environment(d, t), r).lists = Environment(d, t).lists
    BY <1>5, <2>2, WantedSet
  <2>4. new.top.named = NamedWith(d.top.named, <<kind, name>>, Entry(val))
    BY <1>4, <1>6, <2>2, <2>3
  <2>5. \A l \in Lists : new.top.lists[l].items = d.top.lists[l].items
    BY <1>4, <1>6, <2>3
  <2>6. PackagesOk(new, new.top.lists["package"].items)
    BY <1>8, <1>9, <2>5 DEF Lists
  <2>7. new.version >= Needs(kind, val)
    <3>1. PICK e : e = Edited(d, t, WithEntry(BundleFor(d, t), <<kind, name>>, Entry(val)))
      OBVIOUS
    <3>2. new = Raised(e, kind, val)
      BY <2>1, <3>1 DEF SetIn
    <3>3. IsBundle(WithEntry(BundleFor(d, t), <<kind, name>>, Entry(val)))
      <4>1. Entry(val) \in Entries /\ Entry(val).hosts = {} /\ <<kind, name>> \in Kinds \X Texts
        BY EntryIs, TextsAssumption
      <4> QED BY <4>1, BundleForIs, WithEntryIs
    <3>4. IsDocument(e) /\ ~Portable(e)
      BY <3>1, <3>3, EditedOne DEF OneTarget
    <3> QED BY <3>2, <3>4, RaisedIs
  <2>8. ASSUME NEW k \in DOMAIN new.top.named
        PROVE  \/ k \in DOMAIN d.top.named /\ new.top.named[k] = d.top.named[k]
               \/ /\ ~new.top.named[k].null /\ new.top.named[k].val # "requires"
                  /\ new.version >= Needs(k[1], new.top.named[k].val)
    <3>1. CASE k = <<kind, name>>
      <4>1. new.top.named[k] = Entry(val) /\ k[1] = kind
        BY <2>4, <3>1 DEF NamedWith
      <4>2. ~Entry(val).null /\ Entry(val).val = val
        BY DEF Entry
      <4> QED BY <2>7, <4>1, <4>2
    <3>2. CASE k # <<kind, name>>
      BY <2>4, <3>2 DEF NamedWith
    <3> QED BY <3>1, <3>2
  <2>9. Valid(Marshalled(new))
    BY <1>3, <2>5, <2>6, <2>8, LegacyMarshalled
  <2> QED BY <1>2, <2>9
<1>12. CASE AskedUnset(d, t, new, r)
  <2>1. PICK kind \in Kinds, name \in {"x", "web", "db"} : r = Request("unset", t, kind, name, "")
    BY <1>12 DEF AskedUnset
  <2>2. r.cmd = "unset" /\ r.kind = kind /\ r.name = name
    BY <2>1 DEF Request
  <2>3. /\ Wanted(Environment(d, t), r).named = NamedWithout(Environment(d, t).named, <<r.kind, r.name>>)
        /\ Wanted(Environment(d, t), r).lists = Environment(d, t).lists
    BY <1>5, <2>2, WantedUnset
  <2>4. new.top.named = NamedWithout(d.top.named, <<kind, name>>)
    BY <1>4, <1>6, <2>2, <2>3
  <2>5. \A l \in Lists : new.top.lists[l].items = d.top.lists[l].items
    BY <1>4, <1>6, <2>3
  <2>6. PackagesOk(new, new.top.lists["package"].items)
    BY <1>8, <1>9, <2>5 DEF Lists
  <2>7. \A k \in DOMAIN new.top.named : k \in DOMAIN d.top.named /\ new.top.named[k] = d.top.named[k]
    BY <2>4 DEF NamedWithout
  <2>8. Valid(Marshalled(new))
    BY <1>3, <2>5, <2>6, <2>7, LegacyMarshalled
  <2> QED BY <1>2, <2>8
<1> QED BY <1>1, <1>10, <1>11, <1>12 DEF Asked

-----------------------------------------------------------------------------
(* migrate.                                                                *)

IsFor(i, t) == i.hosts = {} \/ t \in TargetsOf(i.hosts)
Scoped(s, t) == Keep(s, {i \in ToSet(s) : IsFor(i, t)})
Bare(s) == [i \in DOMAIN s |-> [s[i] EXCEPT !.hosts = {}]]
AsList(s) == IF s = <<>> THEN Nil ELSE Listed(s)
ScopedServices(d, t) ==
    [k \in {j \in DOMAIN d.top.named : IsService(j) /\ IsFor(d.top.named[j], t)} |->
        [d.top.named[k] EXCEPT !.hosts = {}]]
Unscoped(d) == [k \in {j \in DOMAIN d.top.named : ~IsService(j)} |-> d.top.named[k]]
ListsFor(d, t) == [l \in Lists |-> AsList(Bare(Scoped(d.top.lists[l].items, t)))]

LEMMA BucketedIs ==
    ASSUME NEW d, NEW t
    PROVE  Bucketed(d, t) = [lists |-> ListsFor(d, t), named |-> ScopedServices(d, t)]
BY DEF Bucketed, ListsFor, AsList, Bare, Scoped, IsFor, ScopedServices

LEMMA BareIs ==
    ASSUME NEW s \in Seq(Items)
    PROVE  /\ Bare(s) \in Seq(Items) /\ DOMAIN Bare(s) = DOMAIN s
           /\ \A i \in DOMAIN s : Bare(s)[i].hosts = {} /\ Bare(s)[i].key = s[i].key /\ Bare(s)[i].val = s[i].val
<1>1. DOMAIN s = 1..Len(s) /\ Len(s) \in Nat /\ \A i \in DOMAIN s : s[i] \in Items
  OBVIOUS
<1>2. \A i \in DOMAIN s : LET x == [s[i] EXCEPT !.hosts = {}] IN
         x \in Items /\ x.hosts = {} /\ x.key = s[i].key /\ x.val = s[i].val
  BY <1>1 DEF Items
<1>3. DOMAIN Bare(s) = 1..Len(s) /\ \A i \in 1..Len(s) : Bare(s)[i] = [s[i] EXCEPT !.hosts = {}]
  BY <1>1 DEF Bare
<1>4. Bare(s) \in [1..Len(s) -> Items]
  <2> HIDE DEF Items
  <2> QED BY <1>1, <1>2, <1>3 DEF Bare
<1>5. Bare(s) \in Seq(Items)
  <2> HIDE DEF Items
  <2> QED BY <1>1, <1>4
<1> QED BY <1>1, <1>2, <1>3, <1>5

LEMMA AsListIs ==
    ASSUME NEW s \in Seq(Items)
    PROVE  AsList(s) \in [nil : BOOLEAN, items : Seq(Items)] /\ AsList(s).items = s
           /\ (AsList(s).nil => s = <<>>)
<1>1. <<>> \in Seq(Items)
  OBVIOUS
<1> QED BY <1>1 DEF AsList, Nil, Listed

LEMMA BucketedBundle ==
    ASSUME NEW d, IsDocument(d), NEW t
    PROVE  /\ IsBundle(Bucketed(d, t)) /\ Bucketed(d, t).named = ScopedServices(d, t)
           /\ \A l \in Lists : /\ Bucketed(d, t).lists[l].items = Bare(Scoped(d.top.lists[l].items, t))
                               /\ Bare(Scoped(d.top.lists[l].items, t)) \in Seq(Items)
<1>1. PICK b : b = Bucketed(d, t)
  OBVIOUS
<1>2. DOMAIN b = {"lists", "named"} /\ b.lists = ListsFor(d, t) /\ b.named = ScopedServices(d, t)
  BY <1>1, BucketedIs
<1>3. ASSUME NEW l \in Lists
      PROVE  /\ Bare(Scoped(d.top.lists[l].items, t)) \in Seq(Items)
             /\ b.lists[l] \in [nil : BOOLEAN, items : Seq(Items)]
             /\ b.lists[l].items = Bare(Scoped(d.top.lists[l].items, t))
             /\ b.lists[l].nil => b.lists[l].items = <<>>
  <2>1. d.top.lists[l].items \in Seq(Items)
    BY ItemsOf DEF IsDocument
  <2>2. Scoped(d.top.lists[l].items, t) \in Seq(Items)
    BY <2>1, KeepLemma DEF Scoped
  <2>3. Bare(Scoped(d.top.lists[l].items, t)) \in Seq(Items)
    BY <2>2, BareIs
  <2>4. b.lists[l] = AsList(Bare(Scoped(d.top.lists[l].items, t)))
    BY <1>2 DEF ListsFor
  <2> QED BY <2>3, <2>4, AsListIs
<1>4. b.lists \in [Lists -> [nil : BOOLEAN, items : Seq(Items)]]
  BY <1>2, <1>3 DEF ListsFor
<1>5. DOMAIN d.top.named \subseteq {"env", "alias", "service"} \X Texts
      /\ \A k \in DOMAIN d.top.named : d.top.named[k] \in Entries
  BY DEF IsDocument, IsBundle
<1>6. DOMAIN b.named \subseteq DOMAIN d.top.named
      /\ b.named \in [DOMAIN b.named -> Entries] /\ \A k \in DOMAIN b.named : b.named[k].hosts = {}
  <2>1. \A e \in Entries : [e EXCEPT !.hosts = {}] \in Entries /\ [e EXCEPT !.hosts = {}].hosts = {}
    BY DEF Entries
  <2>2. DOMAIN b.named \subseteq DOMAIN d.top.named
        /\ \A k \in DOMAIN b.named : b.named[k] = [d.top.named[k] EXCEPT !.hosts = {}]
    <3> DEFINE S == {j \in DOMAIN d.top.named : IsService(j) /\ IsFor(d.top.named[j], t)}
    <3>1. b.named = [k \in S |-> [d.top.named[k] EXCEPT !.hosts = {}]]
      BY <1>2 DEF ScopedServices
    <3>2. S \subseteq DOMAIN d.top.named
      OBVIOUS
    <3> HIDE DEF S
    <3> QED BY <3>1, <3>2
  <2>3. ASSUME NEW k \in DOMAIN b.named PROVE b.named[k] \in Entries /\ b.named[k].hosts = {}
    <3>1. PICK e \in Entries : e = d.top.named[k]
      BY <1>5, <2>2
    <3>2. b.named[k] = [e EXCEPT !.hosts = {}]
      BY <2>2, <3>1
    <3> QED BY <2>1, <3>2
  <2> QED BY <1>2, <2>2, <2>3 DEF ScopedServices
<1>7. IsBundle(b)
  BY <1>2, <1>3, <1>4, <1>5, <1>6 DEF IsBundle
<1> QED BY <1>1, <1>2, <1>3, <1>7

LEMMA ToV8Is ==
    ASSUME NEW d, IsDocument(d)
    PROVE  /\ IsDocument(ToV8(d)) /\ ToV8(d).version = 8 /\ ToV8(d).top = Nothing
           /\ ToV8(d).defaults.lists = Nothing.lists /\ ToV8(d).defaults.named = Unscoped(d)
           /\ ToV8(d).updates = d.updates /\ ~ToV8(d).adapters /\ ~ToV8(d).modules
           /\ DOMAIN ToV8(d).targets = ObservedTargets(d)
           /\ \A t \in ObservedTargets(d) : ToV8(d).targets[t] = Bucketed(d, t)
<1>1. PICK m : m = ToV8(d)
  OBVIOUS
<1>2. /\ DOMAIN m = Fields /\ m.version = 8 /\ m.top = Nothing /\ m.schema = FALSE
      /\ m.adapters = FALSE /\ m.modules = FALSE /\ m.updates = d.updates
      /\ m.defaults = [Nothing EXCEPT !.named = Unscoped(d)]
      /\ m.targets = [t \in ObservedTargets(d) |-> Bucketed(d, t)]
  BY <1>1 DEF ToV8, New, Fields, Unscoped
<1>3. /\ DOMAIN m.defaults = {"lists", "named"} /\ m.defaults.lists = Nothing.lists
      /\ m.defaults.named = Unscoped(d)
  <2>1. DOMAIN Nothing = {"lists", "named"}
    BY DEF Nothing
  <2> QED BY <1>2, <2>1
<1>4. /\ DOMAIN m.defaults.named \subseteq {"env", "alias", "service"} \X Texts
      /\ m.defaults.named \in [DOMAIN m.defaults.named -> Entries]
      /\ \A k \in DOMAIN m.defaults.named : m.defaults.named[k].hosts = {}
  <2> DEFINE S == {j \in DOMAIN d.top.named : ~IsService(j)}
  <2>1. m.defaults.named = [k \in S |-> d.top.named[k]]
    BY <1>3 DEF Unscoped
  <2>2. S \subseteq DOMAIN d.top.named /\ \A k \in S : k[1] # "service"
    BY DEF IsService
  <2>3. /\ DOMAIN d.top.named \subseteq {"env", "alias", "service"} \X Texts
        /\ \A k \in DOMAIN d.top.named : d.top.named[k] \in Entries
        /\ \A k \in DOMAIN d.top.named : k[1] # "service" => d.top.named[k].hosts = {}
    BY DEF IsDocument, IsBundle
  <2> HIDE DEF S
  <2> QED BY <2>1, <2>2, <2>3
<1>5. IsBundle(m.defaults)
  BY <1>3, <1>4, NothingIs DEF IsBundle
<1>6. IsDocument(m)
  <2>1. IsBundle(m.top) /\ \A t \in DOMAIN m.targets : IsBundle(m.targets[t])
    BY <1>2, NothingIs, BucketedBundle
  <2>2. m.version \in Nat /\ {m.schema, m.adapters, m.modules, m.updates} \subseteq BOOLEAN
    <3>1. d.updates \in BOOLEAN
      BY DEF IsDocument
    <3>2. m.version \in Nat
      BY <1>2
    <3>3. m.schema \in BOOLEAN /\ m.adapters \in BOOLEAN /\ m.modules \in BOOLEAN /\ m.updates \in BOOLEAN
      BY <1>2, <3>1, Zenon
    <3> QED BY <3>2, <3>3
  <2>3. DOMAIN m = {"version", "schema", "top", "defaults", "targets", "adapters", "modules", "updates"}
    BY <1>2 DEF Fields
  <2> HIDE DEF Fields
  <2> QED BY <1>5, <2>1, <2>2, <2>3 DEF IsDocument
<1> QED BY <1>1, <1>2, <1>3, <1>6

\* What is moved to a target of a list of packages is a list that a target may have.
LEMMA BarePackagesOk ==
    ASSUME NEW d, NEW e, NEW s \in Seq(Items), PackagesOk(d, s), d.version \in 1..7, d.adapters => e.adapters
    PROVE  PackagesOk(e, Bare(s))
<1>1. DOMAIN Bare(s) = DOMAIN s
      /\ \A i \in DOMAIN s : Bare(s)[i].key = s[i].key /\ Bare(s)[i].val = s[i].val
  BY BareIs
<1>2. \A v : KnownManager(d, v) => KnownManager(e, v)
  BY DEF KnownManager
<1>3. \A i \in DOMAIN s : s[i].val # "recipe"
  BY DEF PackagesOk
<1> QED BY <1>1, <1>2, <1>3 DEF PackagesOk

\* What is written of a migrated document.
LEMMA MarshalledV8 ==
    ASSUME NEW d, IsDocument(d)
    PROVE  LET m == Marshalled(ToV8(d)) IN
           /\ IsDocument(m) /\ m.version = 8 /\ m.updates = d.updates /\ ~m.adapters
           /\ m.top.named = <<>> /\ m.defaults.named = Unscoped(d) /\ DOMAIN m.targets = ObservedTargets(d)
           /\ \A l \in Lists : /\ m.top.lists[l].items = <<>> /\ m.top.lists[l].nil
                               /\ m.defaults.lists[l].items = <<>> /\ m.defaults.lists[l].nil
           /\ \A t \in ObservedTargets(d) :
                  /\ m.targets[t].named = ScopedServices(d, t)
                  /\ \A l \in Lists : m.targets[t].lists[l].items = Bare(Scoped(d.top.lists[l].items, t))
<1>1. PICK v : v = ToV8(d)
  OBVIOUS
<1>2. /\ IsDocument(v) /\ v.version = 8 /\ v.top = Nothing /\ v.updates = d.updates
      /\ v.defaults.lists = Nothing.lists /\ v.defaults.named = Unscoped(d) /\ ~v.adapters
      /\ DOMAIN v.targets = ObservedTargets(d)
      /\ \A t \in ObservedTargets(d) : v.targets[t] = Bucketed(d, t)
  BY <1>1, ToV8Is
<1>3. PICK m : m = Marshalled(v)
  OBVIOUS
<1>4. Portable(v)
  BY <1>2 DEF Portable
<1>5. /\ IsDocument(m) /\ m.version = v.version /\ m.adapters = v.adapters /\ m.updates = v.updates
      /\ m.defaults = Written(v.defaults) /\ m.top = Written(v.top)
      /\ DOMAIN m.targets = DOMAIN v.targets
      /\ \A t \in DOMAIN v.targets : m.targets[t] = Written(v.targets[t])
  BY <1>2, <1>3, <1>4, MarshalledIs
<1>6. IsBundle(v.top) /\ IsBundle(v.defaults) /\ \A t \in DOMAIN v.targets : IsBundle(v.targets[t])
  BY <1>2 DEF IsDocument
<1>7. ASSUME NEW l \in Lists
      PROVE  /\ m.top.lists[l].items = <<>> /\ m.top.lists[l].nil
             /\ m.defaults.lists[l].items = <<>> /\ m.defaults.lists[l].nil
  <2>1. v.top.lists[l].items = <<>> /\ v.defaults.lists[l].items = <<>>
    BY <1>2, NothingIs
  <2> QED BY <1>5, <1>6, <2>1, WrittenIs
<1>8. m.top.named = <<>> /\ m.defaults.named = Unscoped(d)
  BY <1>2, <1>5, <1>6, WrittenIs, NothingIs
<1>9. ASSUME NEW t \in ObservedTargets(d)
      PROVE  /\ m.targets[t].named = ScopedServices(d, t)
             /\ \A l \in Lists : m.targets[t].lists[l].items = Bare(Scoped(d.top.lists[l].items, t))
  <2>1. m.targets[t] = Written(Bucketed(d, t)) /\ IsBundle(Bucketed(d, t))
    BY <1>2, <1>5, <1>6
  <2>2. m.targets[t].named = Bucketed(d, t).named
        /\ \A l \in Lists : m.targets[t].lists[l].items = Bucketed(d, t).lists[l].items
    BY <2>1, WrittenIs
  <2> QED BY <2>2, BucketedBundle
<1> QED BY <1>1, <1>2, <1>3, <1>5, <1>7, <1>8, <1>9

LEMMA ObservedIs ==
    ASSUME NEW d, TargetsOf(UNION HostsOf(d)) \subseteq KnownTargets
    PROVE  ObservedTargets(d) # {} /\ ObservedTargets(d) \subseteq KnownTargets
<1>1. CASE UNION HostsOf(d) = {}
  BY <1>1 DEF ObservedTargets, KnownTargets
<1>2. CASE UNION HostsOf(d) # {}
  <2>1. TargetsOf(UNION HostsOf(d)) # {}
    BY <1>2 DEF TargetsOf
  <2> QED BY <1>2, <2>1 DEF ObservedTargets
<1> QED BY <1>1, <1>2

LEMMA MigratedValid ==
    ASSUME NEW d, IsDocument(d), Valid(d), ~Portable(d), TargetsOf(UNION HostsOf(d)) \subseteq KnownTargets
    PROVE  Rewritten(d, ToV8(d)) = Marshalled(ToV8(d)) /\ Valid(Marshalled(ToV8(d)))
<1>1. ~CanRewriteInPlace(d, ToV8(d))
  <2>1. d.version # 8 /\ ToV8(d).version = 8
    BY ToV8Is DEF Portable
  <2> QED BY <2>1 DEF CanRewriteInPlace, SameNonPackageState
<1>2. PICK m : m = Marshalled(ToV8(d))
  OBVIOUS
<1>3. /\ IsDocument(m) /\ m.version = 8 /\ m.updates = d.updates /\ ~m.adapters
      /\ m.top.named = <<>> /\ m.defaults.named = Unscoped(d) /\ DOMAIN m.targets = ObservedTargets(d)
      /\ \A l \in Lists : /\ m.top.lists[l].items = <<>> /\ m.top.lists[l].nil
                          /\ m.defaults.lists[l].items = <<>> /\ m.defaults.lists[l].nil
      /\ \A t \in ObservedTargets(d) :
             /\ m.targets[t].named = ScopedServices(d, t)
             /\ \A l \in Lists : m.targets[t].lists[l].items = Bare(Scoped(d.top.lists[l].items, t))
  BY <1>2, MarshalledV8
<1>4. /\ d.version \in 1..7 /\ BundleOk(d, d.top, FALSE) /\ ~d.adapters
      /\ \A k \in DOMAIN d.top.named : k[1] \in Kinds /\ ~d.top.named[k].null
                                        /\ ~(k[1] = "service" /\ d.top.named[k].val = "requires")
  BY LegacyFacts
<1>5. \A k \in DOMAIN d.top.named : k[1] # "service" => d.top.named[k].hosts = {}
  BY DEF IsDocument, IsBundle
<1>6. /\ DOMAIN Unscoped(d) \subseteq DOMAIN d.top.named
      /\ \A k \in DOMAIN Unscoped(d) : Unscoped(d)[k] = d.top.named[k] /\ k[1] # "service"
  BY DEF Unscoped, IsService
<1>7. /\ \A val : m.version >= Needs("env", val) /\ m.version >= Needs("alias", val)
      /\ \A val : val # "requires" => m.version >= Needs("service", val)
  <2>1. m.version = 8
    BY <1>3
  <2>2. ASSUME NEW val PROVE m.version >= Needs("env", val) /\ m.version >= Needs("alias", val)
    BY <2>1 DEF Needs
  <2>3. ASSUME NEW val, val # "requires" PROVE m.version >= Needs("service", val)
    BY <2>1, <2>3 DEF Needs
  <2> QED BY <2>2, <2>3
<1>8. BundleOk(m, m.defaults, FALSE) /\ NoHosts(m.defaults)
  <2>1. PackagesOk(m, m.defaults.lists["package"].items)
    BY <1>3 DEF PackagesOk, Lists
  <2>2. EnvOk(m, m.defaults, FALSE) /\ AliasesOk(m, m.defaults, FALSE)
    <3>1. ASSUME NEW k \in DOMAIN m.defaults.named
          PROVE  ~m.defaults.named[k].null /\ \A val : m.version >= Needs("env", val) /\ m.version >= Needs("alias", val)
      <4>1. ~m.defaults.named[k].null
        BY <1>3, <1>4, <1>6
      <4>2. \A val : m.version >= Needs("env", val) /\ m.version >= Needs("alias", val)
        BY <1>7
      <4> QED BY <4>1, <4>2
    <3> QED BY <3>1 DEF EnvOk, AliasesOk, Keyed
  <2>3. ServicesOk(m, m.defaults, FALSE)
    BY <1>3, <1>6 DEF ServicesOk, Keyed
  <2>4. FilesOk(m, m.defaults) /\ HooksOk(m, m.defaults)
    BY <1>3 DEF FilesOk, HooksOk, Lists
  <2>5. NoHosts(m.defaults)
    BY <1>3, <1>5, <1>6 DEF NoHosts
  <2> QED BY <2>1, <2>2, <2>3, <2>4, <2>5 DEF BundleOk
<1>9. ASSUME NEW t \in DOMAIN m.targets
      PROVE  BundleOk(m, m.targets[t], TRUE) /\ NoHosts(m.targets[t]) /\ KnownTombstones(m, m.targets[t])
  <2>1. PICK b : b = m.targets[t]
    OBVIOUS
  <2>2. b.named = ScopedServices(d, t) /\ t \in ObservedTargets(d)
        /\ \A l \in Lists : b.lists[l].items = Bare(Scoped(d.top.lists[l].items, t))
    BY <1>3, <2>1
  <2>3. ASSUME NEW k \in DOMAIN b.named
        PROVE  k \in DOMAIN d.top.named /\ k[1] = "service" /\ b.named[k].null = d.top.named[k].null
               /\ b.named[k].val = d.top.named[k].val /\ b.named[k].hosts = {}
    <3>1. k \in DOMAIN d.top.named /\ k[1] = "service" /\ b.named[k] = [d.top.named[k] EXCEPT !.hosts = {}]
      BY <2>2 DEF ScopedServices, IsService
    <3>2. PICK e \in Entries : e = d.top.named[k]
      BY <3>1 DEF IsDocument, IsBundle
    <3>3. b.named[k] = [e EXCEPT !.hosts = {}]
      BY <3>1, <3>2
    <3> QED BY <3>1, <3>2, <3>3 DEF Entries
  <2>4. ASSUME NEW l \in Lists
        PROVE  /\ d.top.lists[l].items \in Seq(Items) /\ Scoped(d.top.lists[l].items, t) \in Seq(Items)
               /\ \A i \in DOMAIN b.lists[l].items : b.lists[l].items[i].hosts = {}
    <3>1. d.top.lists[l].items \in Seq(Items)
      BY ItemsOf DEF IsDocument
    <3>2. Scoped(d.top.lists[l].items, t) \in Seq(Items)
      BY <3>1, KeepLemma DEF Scoped
    <3>3. \A i \in DOMAIN b.lists[l].items : b.lists[l].items[i].hosts = {}
      BY <2>2, <3>2, BareIs
    <3> QED BY <3>1, <3>2, <3>3
  <2>5. PackagesOk(m, b.lists["package"].items)
    <3>1. PackagesOk(d, d.top.lists["package"].items)
      BY <1>4 DEF BundleOk
    <3>2. PackagesOk(d, Scoped(d.top.lists["package"].items, t))
      BY <2>4, <3>1, KeptPackagesOk DEF Scoped, Lists
    <3>3. PackagesOk(m, Bare(Scoped(d.top.lists["package"].items, t)))
      BY <1>4, <2>4, <3>2, BarePackagesOk DEF Lists
    <3> QED BY <2>2, <3>3 DEF Lists
  <2>6. EnvOk(m, b, TRUE) /\ AliasesOk(m, b, TRUE)
    BY <2>3 DEF EnvOk, AliasesOk, Keyed
  <2>7. ServicesOk(m, b, TRUE)
    <3>1. ASSUME NEW k \in DOMAIN b.named
          PROVE  ~b.named[k].null /\ b.named[k].val # "requires" /\ m.version >= Needs("service", b.named[k].val)
      <4>1. ~b.named[k].null /\ b.named[k].val # "requires"
        BY <1>4, <2>3
      <4>2. m.version >= Needs("service", b.named[k].val)
        BY <1>7, <4>1
      <4> QED BY <4>1, <4>2
    <3> QED BY <3>1 DEF ServicesOk, Keyed
  <2>8. FilesOk(m, b) /\ HooksOk(m, b)
    BY <1>3 DEF FilesOk, HooksOk
  <2>9. NoHosts(b) /\ KnownTombstones(m, b)
    BY <1>4, <2>3, <2>4 DEF NoHosts, KnownTombstones
  <2> QED BY <2>1, <2>5, <2>6, <2>7, <2>8, <2>9 DEF BundleOk
<1>10. PortableOk(m)
  <2>1. DOMAIN m.targets # {}
    BY <1>3, ObservedIs
  <2> QED BY <1>3, <1>8, <1>9, <2>1 DEF PortableOk, Lists
<1>11. UpdatesOk(m) /\ m.version \in 1..10 /\ Portable(m)
  BY <1>3 DEF UpdatesOk, Portable
<1> QED BY <1>1, <1>2, <1>10, <1>11 DEF Valid, Rewritten

Known(t) == IF t = "wsl-arch" THEN {t, "wsl2"} ELSE {t}
Matching(s, here) == Keep(s, {i \in ToSet(s) : Match(i.hosts, here)})
MatchingNamed(d, here) ==
    [k \in {j \in DOMAIN d.top.named : Match(d.top.named[j].hosts, here)} |-> [d.top.named[k] EXCEPT !.hosts = {}]]
MatchingLists(d, here) == [l \in Lists |-> Bare(Matching(d.top.lists[l].items, here))]

LEMMA FilteredIs ==
    ASSUME NEW d, NEW here
    PROVE  WithoutHosts(FilterForHost(d, here)) =
             [lists |-> MatchingLists(d, here), named |-> MatchingNamed(d, here)]
<1> DEFINE f == FilterForHost(d, here)
<1>1. /\ f.lists = [l \in Lists |-> Matching(d.top.lists[l].items, here)]
      /\ f.named = [k \in {j \in DOMAIN d.top.named : Match(d.top.named[j].hosts, here)} |-> d.top.named[k]]
  BY DEF FilterForHost, Matching
<1> HIDE DEF f
<1>2. [l \in Lists |-> [i \in DOMAIN f.lists[l] |-> [f.lists[l][i] EXCEPT !.hosts = {}]]] = MatchingLists(d, here)
  <2>1. \A l \in Lists : [i \in DOMAIN f.lists[l] |-> [f.lists[l][i] EXCEPT !.hosts = {}]] = Bare(Matching(d.top.lists[l].items, here))
    BY <1>1 DEF Bare
  <2> QED BY <2>1 DEF MatchingLists
<1>3. [k \in DOMAIN f.named |-> [f.named[k] EXCEPT !.hosts = {}]] = MatchingNamed(d, here)
  <2> DEFINE S == {j \in DOMAIN d.top.named : Match(d.top.named[j].hosts, here)}
  <2>1. f.named = [k \in S |-> d.top.named[k]] /\ MatchingNamed(d, here) = [k \in S |-> [d.top.named[k] EXCEPT !.hosts = {}]]
    BY <1>1 DEF MatchingNamed
  <2> HIDE DEF S
  <2> QED BY <2>1
<1>4. DOMAIN f.lists = Lists
  BY <1>1
<1>5. WithoutHosts(f) = [lists |-> [l \in Lists |-> [i \in DOMAIN f.lists[l] |-> [f.lists[l][i] EXCEPT !.hosts = {}]]],
                         named |-> [k \in DOMAIN f.named |-> [f.named[k] EXCEPT !.hosts = {}]]]
  BY DEF WithoutHosts
<1> QED BY <1>2, <1>3, <1>5 DEF f

LEMMA ForIsMatch ==
    ASSUME NEW t \in KnownTargets, NEW i
    PROVE  (IsFor(i, t) => Match(i.hosts, Known(t))) /\ (Match(i.hosts, Known(t)) => IsFor(i, t))
<1>1. t \in TargetsOf(i.hosts) => i.hosts \cap Known(t) # {}
  BY DEF TargetsOf, Known
<1>2. i.hosts \cap Known(t) # {} => t \in TargetsOf(i.hosts)
  BY DEF TargetsOf, Known, KnownTargets
<1> QED BY <1>1, <1>2 DEF IsFor, Match

LEMMA ScopedIsMatching ==
    ASSUME NEW t \in KnownTargets, NEW s
    PROVE  Scoped(s, t) = Matching(s, Known(t))
<1>1. {i \in ToSet(s) : IsFor(i, t)} = {i \in ToSet(s) : Match(i.hosts, Known(t))}
  BY ForIsMatch
<1> QED BY <1>1 DEF Scoped, Matching

LEMMA MigratedNamed ==
    ASSUME NEW d, IsDocument(d), Valid(d), ~Portable(d), NEW t \in KnownTargets
    PROVE  NamedOver(Unscoped(d), ScopedServices(d, t)) = MatchingNamed(d, Known(t))
<1> DEFINE N == d.top.named
           A == {j \in DOMAIN N : ~IsService(j)}
           B == {j \in DOMAIN N : IsService(j) /\ IsFor(N[j], t)}
           C == {j \in DOMAIN N : Match(N[j].hosts, Known(t))}
           bare == [k \in DOMAIN N |-> [N[k] EXCEPT !.hosts = {}]]
<1>1. \A k \in DOMAIN N : N[k] \in Entries /\ ~N[k].null /\ (~IsService(k) => N[k].hosts = {})
  <2>1. \A k \in DOMAIN N : N[k] \in Entries /\ (~IsService(k) => N[k].hosts = {})
    BY DEF IsDocument, IsBundle, IsService
  <2> QED BY <2>1, LegacyFacts
<1>2. ASSUME NEW k \in DOMAIN N PROVE ~bare[k].null /\ (~IsService(k) => bare[k] = N[k])
  <2>1. PICK e \in Entries : e = N[k] /\ ~e.null /\ (~IsService(k) => e.hosts = {})
    BY <1>1
  <2>2. bare[k] = [e EXCEPT !.hosts = {}]
    BY <2>1
  <2>3. ~[e EXCEPT !.hosts = {}].null /\ (e.hosts = {} => [e EXCEPT !.hosts = {}] = e)
    BY <2>1 DEF Entries
  <2> QED BY <2>1, <2>2, <2>3
<1>3. /\ Unscoped(d) = [k \in A |-> N[k]] /\ ScopedServices(d, t) = [k \in B |-> [N[k] EXCEPT !.hosts = {}]]
      /\ MatchingNamed(d, Known(t)) = [k \in C |-> [N[k] EXCEPT !.hosts = {}]]
  BY DEF Unscoped, ScopedServices, MatchingNamed
<1>4. \A k \in DOMAIN N : bare[k] = [N[k] EXCEPT !.hosts = {}]
  OBVIOUS
<1>5. A \subseteq DOMAIN N /\ B \subseteq DOMAIN N /\ C \subseteq DOMAIN N /\ C = A \cup B /\ A \cap B = {}
  <2>1. \A k \in DOMAIN N : k \in C => k \in A \cup B
    BY ForIsMatch
  <2>2. \A k \in DOMAIN N : k \in B => k \in C
    BY ForIsMatch
  <2>3. \A k \in DOMAIN N : k \in A => k \in C
    BY <1>1 DEF Match
  <2> QED BY <2>1, <2>2, <2>3
<1> HIDE DEF A, B, C, bare
<1>6. PICK a, b, c : a = Unscoped(d) /\ b = ScopedServices(d, t) /\ c = MatchingNamed(d, Known(t))
  OBVIOUS
<1>7. /\ a = [k \in A |-> N[k]] /\ b = [k \in B |-> bare[k]] /\ c = [k \in C |-> bare[k]]
  BY <1>3, <1>4, <1>5, <1>6
<1> HIDE DEF N
<1>8. Live(a) = A
  BY <1>1, <1>5, <1>7 DEF Live
<1>9. Live(b) = B /\ DOMAIN b = B
  BY <1>2, <1>5, <1>7 DEF Live
<1>10. NamedOver(a, b) = [k \in (A \ B) \cup B |-> IF k \in B THEN bare[k] ELSE N[k]]
  BY <1>5, <1>7, <1>8, <1>9 DEF NamedOver
<1>11. \A k \in (A \ B) \cup B : (IF k \in B THEN bare[k] ELSE N[k]) = bare[k]
  <2>1. \A k \in A : ~IsService(k)
    BY DEF A
  <2> QED BY <1>2, <1>5, <2>1
<1>12. NamedOver(a, b) = c
  BY <1>5, <1>7, <1>10, <1>11
<1> QED BY <1>6, <1>12

\* What a machine was told by the predicates it is told by its target.
LEMMA MigratedSays ==
    ASSUME NEW d, IsDocument(d), Valid(d), ~Portable(d), TargetsOf(UNION HostsOf(d)) \subseteq KnownTargets,
           NEW t \in ObservedTargets(d)
    PROVE  MergeTarget(Marshalled(ToV8(d)), t) = WithoutHosts(FilterForHost(d, Known(t)))
<1>1. PICK m : m = Marshalled(ToV8(d))
  OBVIOUS
<1>2. /\ IsDocument(m) /\ m.defaults.named = Unscoped(d) /\ t \in DOMAIN m.targets
      /\ \A l \in Lists : m.defaults.lists[l].items = <<>>
      /\ m.targets[t].named = ScopedServices(d, t)
      /\ \A l \in Lists : m.targets[t].lists[l].items = Bare(Scoped(d.top.lists[l].items, t))
  BY <1>1, MarshalledV8
<1>3. t \in KnownTargets
  BY ObservedIs
<1>4. MergeTarget(m, t) = [lists |-> ListsOver(m.defaults.lists, m.targets[t].lists),
                           named |-> NamedOver(m.defaults.named, m.targets[t].named)]
  BY <1>2, MergeIs
<1>5. ASSUME NEW l \in Lists
      PROVE  ListOver(m.defaults.lists[l], m.targets[t].lists[l]) = Bare(Matching(d.top.lists[l].items, Known(t)))
  <2>1. m.targets[t].lists[l].nil => m.targets[t].lists[l].items = <<>>
    BY <1>2, ItemsOf DEF IsDocument
  <2>2. ListOver(m.defaults.lists[l], m.targets[t].lists[l]) = Bare(Scoped(d.top.lists[l].items, t))
    BY <1>2, <2>1 DEF ListOver
  <2> QED BY <1>3, <2>2, ScopedIsMatching
<1>6. ListsOver(m.defaults.lists, m.targets[t].lists) = MatchingLists(d, Known(t))
  BY <1>5 DEF ListsOver, MatchingLists
<1>7. NamedOver(m.defaults.named, m.targets[t].named) = MatchingNamed(d, Known(t))
  BY <1>2, <1>3, MigratedNamed
<1> QED BY <1>1, <1>4, <1>6, <1>7, FilteredIs

-----------------------------------------------------------------------------
(* export.                                                                 *)

NotSecret(named) == {k \in DOMAIN named : ~(k[1] = "env" /\ named[k].val = "secret")}
Public(named) == [k \in NotSecret(named) |-> named[k]]
AsLists(lists) == [l \in Lists |-> IF lists[l] = <<>> THEN Nil ELSE Listed(lists[l])]

LEMMA ExportedIs ==
    ASSUME NEW d, NEW t
    PROVE  ExportedBundle(d, t) = [lists |-> AsLists(MergeTarget(d, t).lists), named |-> Public(MergeTarget(d, t).named)]
<1> DEFINE e == MergeTarget(d, t)
<1>1. DOMAIN e = {"lists", "named"}
  BY DEF MergeTarget
<1> HIDE DEF e
<1>2. PICK f : f = [e EXCEPT !.named = Public(e.named)]
  OBVIOUS
<1>3. f.lists = e.lists /\ f.named = Public(e.named)
  BY <1>1, <1>2
<1>4. BundleFromFlat(e) = AsBundle(f)
  BY <1>2 DEF BundleFromFlat, Public, NotSecret
<1>5. AsBundle(f) = [lists |-> AsLists(f.lists), named |-> f.named]
  BY DEF AsBundle, AsLists
<1> QED BY <1>3, <1>4, <1>5 DEF ExportedBundle, e

LEMMA MergedIsLive ==
    ASSUME NEW a, NEW b
    PROVE  Live(NamedOver(a, b)) = DOMAIN NamedOver(a, b)
<1>1. DOMAIN NamedOver(a, b) = (Live(a) \ DOMAIN b) \cup Live(b)
      /\ \A k \in DOMAIN NamedOver(a, b) : NamedOver(a, b)[k] = IF k \in DOMAIN b THEN b[k] ELSE a[k]
  BY DEF NamedOver
<1>2. Live(b) \subseteq DOMAIN b
  BY DEF Live
<1>3. ASSUME NEW k \in DOMAIN NamedOver(a, b) PROVE ~NamedOver(a, b)[k].null
  BY <1>1, <1>2 DEF Live
<1> QED BY <1>3 DEF Live

LEMMA MergeTargetIs ==
    ASSUME NEW d, NEW t
    PROVE  MergeTarget(d, t) = [lists |-> ListsOver(d.defaults.lists, At(d, t).lists),
                                named |-> NamedOver(d.defaults.named, At(d, t).named)]
BY DEF MergeTarget, ListsOver, ListOver, NamedOver

\* The snapshot of a target tells what the target is told.
LEMMA SnapshotSays ==
    ASSUME NEW d, NEW t
    PROVE  LET s == Snapshot(d, t, ExportedBundle(d, t))
               secret == {k \in DOMAIN MergeTarget(d, t).named : k[1] = "env" /\ MergeTarget(d, t).named[k].val = "secret"}
           IN /\ s # NoSpec /\ DOMAIN s.targets = {t} /\ s.targets[t] = ExportedBundle(d, t)
              /\ (CHOOSE u \in DOMAIN s.targets : TRUE) = t
              /\ MergeTarget(s, t).lists = MergeTarget(d, t).lists
              /\ MergeTarget(s, t).named =
                   [k \in DOMAIN MergeTarget(d, t).named \ secret |-> MergeTarget(d, t).named[k]]
<1> DEFINE e == MergeTarget(d, t)
           s == Snapshot(d, t, ExportedBundle(d, t))
           secret == {k \in DOMAIN e.named : k[1] = "env" /\ e.named[k].val = "secret"}
<1>1. /\ e.lists = ListsOver(d.defaults.lists, At(d, t).lists)
      /\ e.named = NamedOver(d.defaults.named, At(d, t).named)
  BY MergeTargetIs
<1>2. Live(e.named) = DOMAIN e.named
  BY <1>1, MergedIsLive
<1>3. ExportedBundle(d, t) = [lists |-> AsLists(e.lists), named |-> Public(e.named)]
  BY ExportedIs
<1>4. /\ s.targets = [u \in {t} |-> ExportedBundle(d, t)] /\ s.defaults = Nothing
      /\ s # NoSpec
  <2>1. DOMAIN s = Fields
    BY DEF Snapshot, New, Fields
  <2>2. DOMAIN NoSpec = {"version"}
    BY DEF NoSpec
  <2>3. s # NoSpec
    BY <2>1, <2>2 DEF Fields
  <2>4. s.targets = [u \in {t} |-> ExportedBundle(d, t)] /\ s.defaults = Nothing
    BY DEF Snapshot, New
  <2> QED BY <2>3, <2>4
<1>5. NotSecret(e.named) = DOMAIN e.named \ secret
  BY DEF NotSecret
<1> HIDE DEF e, s
<1>6. At(s, t) = ExportedBundle(d, t)
  BY <1>4 DEF At
<1>7. /\ MergeTarget(s, t).lists = ListsOver(s.defaults.lists, At(s, t).lists)
      /\ MergeTarget(s, t).named = NamedOver(s.defaults.named, At(s, t).named)
  BY MergeTargetIs
<1>8. /\ At(s, t).lists = AsLists(e.lists) /\ At(s, t).named = Public(e.named)
      /\ s.defaults.lists = Nothing.lists /\ s.defaults.named = Nothing.named
  BY <1>3, <1>4, <1>6
<1>9. MergeTarget(s, t).lists = e.lists
  <2>1. ASSUME NEW l \in Lists PROVE ListOver(Nothing.lists[l], AsLists(e.lists)[l]) = e.lists[l]
    <3>1. CASE e.lists[l] = <<>>
      <4>1. AsLists(e.lists)[l] = Nil
        BY <3>1 DEF AsLists
      <4> QED BY <3>1, <4>1, NothingIs DEF ListOver, Nil
    <3>2. CASE e.lists[l] # <<>>
      <4>1. AsLists(e.lists)[l] = Listed(e.lists[l])
        BY <3>2 DEF AsLists
      <4> QED BY <4>1 DEF ListOver, Listed
    <3> QED BY <3>1, <3>2
  <2>2. MergeTarget(s, t).lists = [l \in Lists |-> e.lists[l]]
    BY <1>7, <1>8, <2>1 DEF ListsOver
  <2>3. e.lists = [l \in Lists |-> e.lists[l]]
    BY <1>1 DEF ListsOver
  <2> QED BY <2>2, <2>3
<1>10. MergeTarget(s, t).named = Public(e.named)
  <2>1. PICK p : p = Public(e.named)
    OBVIOUS
  <2>2. p = [k \in NotSecret(e.named) |-> e.named[k]] /\ NotSecret(e.named) \subseteq DOMAIN e.named
    BY <2>1 DEF Public, NotSecret
  <2>3. Live(p) = DOMAIN p
    BY <1>2, <2>2 DEF Live
  <2>4. Live(Nothing.named) = {}
    BY NothingIs DEF Live
  <2>5. NamedOver(Nothing.named, p) = [k \in DOMAIN p |-> p[k]]
    BY <2>3, <2>4 DEF NamedOver
  <2>6. NamedOver(Nothing.named, p) = p
    BY <2>2, <2>5
  <2> QED BY <1>7, <1>8, <2>1, <2>6
<1>11. Public(e.named) = [k \in DOMAIN e.named \ secret |-> e.named[k]]
  BY <1>5 DEF Public
<1>12. DOMAIN s.targets = {t} /\ s.targets[t] = ExportedBundle(d, t) /\ (CHOOSE u \in DOMAIN s.targets : TRUE) = t
  BY <1>4
<1> QED BY <1>4, <1>9, <1>10, <1>11, <1>12 DEF e, s

Complete(o) ==
    o.snapshot # NoSpec => Relative(o.snapshot.targets[CHOOSE t \in DOMAIN o.snapshot.targets : TRUE]) \subseteq o.assets
IsTheTarget(o) ==
    o.snapshot # NoSpec =>
        LET there == MergeTarget(o.snapshot, CHOOSE t \in DOMAIN o.snapshot.targets : TRUE)
            secret == {k \in DOMAIN o.of.named : k[1] = "env" /\ o.of.named[k].val = "secret"}
        IN /\ Valid(o.snapshot)
           /\ there.lists = o.of.lists
           /\ there.named = [k \in DOMAIN o.of.named \ secret |-> o.of.named[k]]

LEMMA SaidOfOut == (Complete(out) => SnapshotIsComplete) /\ (IsTheTarget(out) => SnapshotIsTheTarget)
BY DEF Complete, IsTheTarget, SnapshotIsComplete, SnapshotIsTheTarget, SnapshotTarget

\* An export under way: what is no longer to do is done.
Exports(x, assets) ==
    /\ DOMAIN x = {"step", "target", "doc", "bundle", "todo"}
    /\ x.bundle = ExportedBundle(x.doc, x.target)
    /\ Relative(x.bundle) \ x.todo \subseteq assets
ExportInv ==
    /\ DOMAIN out = {"snapshot", "of", "assets", "report"}
    /\ exporting = Idle \/ Exports(exporting, out.assets)
    /\ Complete(out) /\ IsTheTarget(out)

LEMMA ExportInit == Init => ExportInv
<1> SUFFICES ASSUME Init PROVE ExportInv
  OBVIOUS
<1>1. out = [snapshot |-> NoSpec, of |-> Nothing, assets |-> {}, report |-> FALSE] /\ exporting = Idle
  BY DEF Init
<1> QED BY <1>1 DEF ExportInv, Complete, IsTheTarget

ExportSteps == CopyAsset \/ WriteSnapshot \/ WriteReport \/ ExportFails \/ \E d, t : ExportFrom(d, t)

LEMMA ExportKept == ExportInv /\ (ExportSteps \/ UNCHANGED <<out, exporting>>) => ExportInv'
<1> SUFFICES ASSUME ExportInv, ExportSteps \/ UNCHANGED <<out, exporting>> PROVE ExportInv'
  OBVIOUS
<1>0. /\ DOMAIN out = {"snapshot", "of", "assets", "report"} /\ (exporting = Idle \/ Exports(exporting, out.assets))
      /\ Complete(out) /\ IsTheTarget(out)
  BY DEF ExportInv
<1>1. CASE UNCHANGED <<out, exporting>>
  BY <1>0, <1>1 DEF ExportInv
<1>2. ASSUME exporting' = Idle, out' = out PROVE ExportInv'
  BY <1>0, <1>2 DEF ExportInv
<1>3. CASE ExportFails
  BY <1>2, <1>3 DEF ExportFails, ExportEnds
<1>4. CASE CopyAsset
  <2>1. PICK x : x = (CHOOSE k \in exporting.todo : TRUE)
    OBVIOUS
  <2>2. exporting.step = "assets" /\ exporting.todo # {}
    BY <1>4 DEF CopyAsset
  <2>3. Exports(exporting, out.assets)
    BY <1>0, <2>2 DEF Idle
  <2>4. CASE x \in Missing(exporting.bundle)
    BY <1>2, <1>4, <2>1, <2>4 DEF CopyAsset, ExportEnds
  <2>5. CASE x \notin Missing(exporting.bundle)
    <3>1. /\ out' = [out EXCEPT !.assets = @ \cup {x}]
          /\ exporting' = [exporting EXCEPT !.todo = @ \ {x}]
      BY <1>4, <2>1, <2>5 DEF CopyAsset
    <3>2. /\ DOMAIN out' = {"snapshot", "of", "assets", "report"} /\ out'.assets = out.assets \cup {x}
          /\ out'.snapshot = out.snapshot /\ out'.of = out.of
      BY <1>0, <3>1
    <3>3. Exports(exporting', out'.assets)
      <4>1. /\ DOMAIN exporting' = {"step", "target", "doc", "bundle", "todo"}
            /\ exporting'.target = exporting.target /\ exporting'.doc = exporting.doc
            /\ exporting'.bundle = exporting.bundle /\ exporting'.todo = exporting.todo \ {x}
        BY <2>3, <3>1 DEF Exports
      <4>2. Relative(exporting.bundle) \ (exporting.todo \ {x}) \subseteq out.assets \cup {x}
        BY <2>3 DEF Exports
      <4>3. exporting.bundle = ExportedBundle(exporting.doc, exporting.target)
        BY <2>3 DEF Exports
      <4>4. exporting'.bundle = ExportedBundle(exporting'.doc, exporting'.target)
        BY <4>1, <4>3, Zenon
      <4>5. Relative(exporting'.bundle) \ exporting'.todo \subseteq out'.assets
        BY <3>2, <4>1, <4>2, Zenon
      <4> QED BY <4>1, <4>4, <4>5 DEF Exports
    <3>4. Complete(out')
      BY <1>0, <3>2 DEF Complete
    <3>5. IsTheTarget(out')
      BY <1>0, <3>2 DEF IsTheTarget
    <3> QED BY <3>2, <3>3, <3>4, <3>5 DEF ExportInv
  <2> QED BY <2>4, <2>5
<1>5. CASE WriteSnapshot
  <2>1. exporting.step = "assets" /\ exporting.todo = {}
        /\ SaveSnapshot(Snapshot(exporting.doc, exporting.target, exporting.bundle))
    BY <1>5 DEF WriteSnapshot
  <2>2. Exports(exporting, out.assets)
    BY <1>0, <2>1 DEF Idle
  <2>3. PICK d, t : d = exporting.doc /\ t = exporting.target
    OBVIOUS
  <2>4. PICK s : s = Snapshot(d, t, ExportedBundle(d, t))
    OBVIOUS
  <2>5. SaveSnapshot(s) /\ exporting.bundle = ExportedBundle(d, t)
    BY <2>1, <2>2, <2>3, <2>4 DEF Exports
  <2>6. CASE ~Valid(s)
    BY <1>2, <2>5, <2>6 DEF SaveSnapshot, ExportEnds
  <2>7. CASE Valid(s)
    <3>1. /\ out' = [out EXCEPT !.snapshot = s, !.of = MergeTarget(d, t)]
          /\ exporting' = [exporting EXCEPT !.step = "report"]
      BY <2>3, <2>5, <2>7 DEF SaveSnapshot
    <3>2. /\ DOMAIN out' = {"snapshot", "of", "assets", "report"} /\ out'.assets = out.assets
          /\ out'.snapshot = s /\ out'.of = MergeTarget(d, t)
      BY <1>0, <3>1
    <3>3. Exports(exporting', out'.assets)
      <4>1. /\ DOMAIN exporting' = {"step", "target", "doc", "bundle", "todo"}
            /\ exporting'.target = exporting.target /\ exporting'.doc = exporting.doc
            /\ exporting'.bundle = exporting.bundle /\ exporting'.todo = exporting.todo
        BY <2>2, <3>1 DEF Exports
      <4> QED BY <2>2, <3>2, <4>1 DEF Exports
    <3>4. Complete(out')
      <4>1. Relative(ExportedBundle(d, t)) \subseteq out'.assets
        BY <2>1, <2>2, <2>5, <3>2 DEF Exports
      <4>2. DOMAIN s.targets = {t} /\ s.targets[t] = ExportedBundle(d, t)
        BY <2>4 DEF Snapshot, New
      <4>3. (CHOOSE u \in DOMAIN s.targets : TRUE) = t
        BY <4>2
      <4> QED BY <3>2, <4>1, <4>2, <4>3 DEF Complete
    <3>5. IsTheTarget(out')
      BY <2>4, <2>7, <3>2, SnapshotSays DEF IsTheTarget
    <3> QED BY <3>2, <3>3, <3>4, <3>5 DEF ExportInv
  <2> QED BY <2>6, <2>7
<1>6. CASE WriteReport
  <2>1. out' = [out EXCEPT !.report = TRUE] /\ exporting' = Idle
    BY <1>6 DEF WriteReport, ExportEnds
  <2>2. /\ DOMAIN out' = {"snapshot", "of", "assets", "report"} /\ out'.assets = out.assets
        /\ out'.snapshot = out.snapshot /\ out'.of = out.of
    BY <1>0, <2>1
  <2>3. Complete(out') /\ IsTheTarget(out')
    BY <1>0, <2>2 DEF Complete, IsTheTarget
  <2> QED BY <2>1, <2>2, <2>3 DEF ExportInv
<1>7. ASSUME NEW d, NEW t, ExportFrom(d, t) PROVE ExportInv'
  <2>1. /\ exporting' = [step |-> "assets", target |-> t, doc |-> d,
                         bundle |-> ExportedBundle(d, t), todo |-> Relative(ExportedBundle(d, t))]
        /\ out' = out
    BY <1>7 DEF ExportFrom
  <2>2. Exports(exporting', out'.assets)
    BY <2>1 DEF Exports
  <2> QED BY <1>0, <2>1, <2>2 DEF ExportInv
<1> QED BY <1>1, <1>3, <1>4, <1>5, <1>6, <1>7 DEF ExportSteps

\* The last item with a key.
LEMMA LastOfIs ==
    ASSUME NEW s \in Seq(Items), NEW k, k \in ToSet(Keys(s))
    PROVE  \E i \in DOMAIN s : LastOf(s, k) = s[i] /\ s[i].key = k
<1>1. DOMAIN s = 1..Len(s) /\ Len(s) \in Nat
  OBVIOUS
<1> DEFINE S == {i \in 1..Len(s) : s[i].key = k}
<1>2. S # {}
  BY <1>1 DEF Keys, ToSet
<1>3. Max(S) \in S /\ \A y \in S : Max(S) >= y
  BY <1>1, <1>2, MaxLemma
<1>4. PICK x \in S : \A y \in S : y <= x
  BY <1>1, <1>3
<1>5. \E i \in DOMAIN s : s[i].key = k /\ \A j \in DOMAIN s : s[j].key = k => j <= i
  BY <1>1, <1>4
<1> DEFINE c == CHOOSE i \in DOMAIN s : s[i].key = k /\ \A j \in DOMAIN s : s[j].key = k => j <= i
<1>6. c \in DOMAIN s /\ s[c].key = k
  BY <1>5
<1>7. LastOf(s, k) = s[c]
  BY DEF LastOf
<1> HIDE DEF c
<1> QED BY <1>6, <1>7

LEMMA KeysIs ==
    ASSUME NEW s \in Seq(Items)
    PROVE  /\ Keys(s) \in Seq(Texts) /\ DOMAIN Keys(s) = DOMAIN s
           /\ \A i \in DOMAIN s : Keys(s)[i] = s[i].key
           /\ ToSet(Keys(s)) = {s[i].key : i \in DOMAIN s}
<1>1. DOMAIN s = 1..Len(s) /\ Len(s) \in Nat /\ \A i \in DOMAIN s : s[i] \in Items
  OBVIOUS
<1>2. \A x \in Items : x.key \in Texts
  BY DEF Items
<1>3. Keys(s) = [i \in 1..Len(s) |-> s[i].key]
  BY <1>1 DEF Keys
<1>4. \A i \in 1..Len(s) : s[i].key \in Texts
  BY <1>1, <1>2
<1>5. Keys(s) \in Seq(Texts)
  <2>1. [i \in 1..Len(s) |-> s[i].key] \in [1..Len(s) -> Texts]
    BY <1>4
  <2> QED BY <1>1, <1>3, <2>1
<1> QED BY <1>1, <1>3, <1>5 DEF ToSet

\* The overlaid list: each key once if the base has none twice, and with it
\* the profile's item or, if it has none, the base's.
Order(base, over) ==
    Keys(base) \o Distinct(Keep(Keys(over), ToSet(Keys(over)) \ ToSet(Keys(base))))

LEMMA OrderIs ==
    ASSUME NEW base \in Seq(Items), NEW over \in Seq(Items)
    PROVE  /\ Order(base, over) \in Seq(Texts)
           /\ ToSet(Order(base, over)) = ToSet(Keys(base)) \cup ToSet(Keys(over))
           /\ IsInjective(Keys(base)) => IsInjective(Order(base, over))
<1> DEFINE kb == Keys(base)
           ko == Keys(over)
           new == Distinct(Keep(ko, ToSet(ko) \ ToSet(kb)))
<1>1. kb \in Seq(Texts) /\ ko \in Seq(Texts)
  BY KeysIs
<1> HIDE DEF kb, ko
<1>2. PICK kept : kept = Keep(ko, ToSet(ko) \ ToSet(kb))
  OBVIOUS
<1>3. kept \in Seq(Texts) /\ ToSet(kept) = ToSet(ko) \cap (ToSet(ko) \ ToSet(kb))
  BY <1>1, <1>2, KeepLemma
<1>4. new \in Seq(Texts) /\ ToSet(new) = ToSet(kept) /\ IsInjective(new)
  BY <1>2, <1>3, DistinctLemma, DistinctOnce
<1> HIDE DEF new
<1>5. kb \o new \in Seq(Texts) /\ ToSet(kb \o new) = ToSet(kb) \cup ToSet(new)
  BY <1>1, <1>4, ToSetConcat
<1>6. IsInjective(kb) => IsInjective(kb \o new)
  <2>1. ToSet(kb) \cap ToSet(new) = {}
    BY <1>3, <1>4
  <2> QED BY <1>1, <1>4, <2>1, ConcatOnce
<1>7. Order(base, over) = kb \o new
  BY DEF Order, kb, ko, new
<1> QED BY <1>3, <1>4, <1>5, <1>6, <1>7 DEF kb, ko

\* What comes after the base's keys is the profile's.
LEMMA FromOver ==
    ASSUME NEW base \in Seq(Items), NEW over \in Seq(Items), NEW i \in DOMAIN Order(base, over), i \notin DOMAIN base
    PROVE  Order(base, over)[i] \in ToSet(Keys(over))
<1> DEFINE new == Distinct(Keep(Keys(over), ToSet(Keys(over)) \ ToSet(Keys(base))))
<1>1. PICK k : k = Keys(base)
  OBVIOUS
<1>2. k \in Seq(Texts) /\ DOMAIN k = DOMAIN base
  BY <1>1, KeysIs
<1>3. PICK kept : kept = Keep(Keys(over), ToSet(Keys(over)) \ ToSet(Keys(base)))
  OBVIOUS
<1>4. kept \in Seq(Texts) /\ ToSet(kept) \subseteq ToSet(Keys(over))
  BY <1>3, KeysIs, KeepLemma
<1>5. new \in Seq(Texts) /\ ToSet(new) = ToSet(kept)
  BY <1>3, <1>4, DistinctLemma
<1>6. Order(base, over) = k \o new
  BY <1>1 DEF Order
<1> HIDE DEF new
<1>7. i \in DOMAIN (k \o new) /\ i \notin DOMAIN k
  BY <1>2, <1>6
<1>8. i - Len(k) \in DOMAIN new /\ (k \o new)[i] = new[i - Len(k)]
  BY <1>2, <1>5, <1>7
<1>9. new[i - Len(k)] \in ToSet(new)
  BY <1>8 DEF ToSet
<1> QED BY <1>4, <1>5, <1>6, <1>8, <1>9

\* Items of which no two have a key.
KeysOnce(s) == \A i, j \in DOMAIN s : s[i].key = s[j].key => i = j

LEMMA OverlaidIs ==
    ASSUME NEW base \in Seq(Items), NEW over \in Seq(Items)
    PROVE  LET r == Overlaid(base, over) IN
           /\ r \in Seq(Items) /\ DOMAIN r = DOMAIN Order(base, over)
           /\ \A i \in DOMAIN r :
                  /\ r[i].key = Order(base, over)[i]
                  /\ (\E j \in DOMAIN over : r[i] = over[j]) \/ (\E j \in DOMAIN base : r[i] = base[j])
                  /\ KeysOnce(base) /\ r[i].key \in ToSet(Keys(over)) => \E j \in DOMAIN over : r[i] = over[j]
                  /\ r[i].key \notin ToSet(Keys(over)) => \E j \in DOMAIN base : r[i] = base[j]
<1> DEFINE o == Order(base, over)
           r == [i \in DOMAIN o |-> IF i \in DOMAIN base /\ Stays(base, over, i) THEN base[i] ELSE LastOf(over, o[i])]
<1>1. Overlaid(base, over) = r
  BY DEF Overlaid, Order
<1>2. o \in Seq(Texts) /\ ToSet(o) = ToSet(Keys(base)) \cup ToSet(Keys(over))
  BY OrderIs
<1>3. DOMAIN base \subseteq DOMAIN o /\ \A i \in DOMAIN base : o[i] = base[i].key
  <2> DEFINE new == Distinct(Keep(Keys(over), ToSet(Keys(over)) \ ToSet(Keys(base))))
  <2>1. /\ Keys(base) \in Seq(Texts) /\ DOMAIN Keys(base) = DOMAIN base
        /\ \A i \in DOMAIN base : Keys(base)[i] = base[i].key
    BY KeysIs
  <2>2. new \in Seq(Texts)
    BY KeysIs, KeepLemma, DistinctLemma
  <2>3. o = Keys(base) \o new
    BY DEF Order
  <2>4. PICK k : k = Keys(base)
    OBVIOUS
  <2> HIDE DEF o, new
  <2>5. DOMAIN k \subseteq DOMAIN o /\ \A i \in DOMAIN k : o[i] = k[i]
    BY <2>1, <2>2, <2>3, <2>4
  <2> QED BY <2>1, <2>4, <2>5
<1> HIDE DEF o
<1>4. DOMAIN o = 1..Len(o) /\ Len(o) \in Nat /\ \A i \in DOMAIN o : o[i] \in ToSet(o)
  BY <1>2 DEF ToSet
<1>5. ToSet(Keys(base)) = {base[i].key : i \in DOMAIN base} /\ \A j \in DOMAIN base : base[j] \in Items
  BY KeysIs
<1>6. ASSUME NEW i \in DOMAIN o
      PROVE  /\ r[i] \in Items /\ r[i].key = o[i]
             /\ (\E j \in DOMAIN over : r[i] = over[j]) \/ (\E j \in DOMAIN base : r[i] = base[j])
             /\ KeysOnce(base) /\ o[i] \in ToSet(Keys(over)) => \E j \in DOMAIN over : r[i] = over[j]
             /\ o[i] \notin ToSet(Keys(over)) => \E j \in DOMAIN base : r[i] = base[j]
  <2>1. CASE i \in DOMAIN base /\ Stays(base, over, i)
    <3>1. r[i] = base[i] /\ o[i] = base[i].key
      BY <1>3, <2>1
    <3> HIDE DEF r
    <3>2. KeysOnce(base) => o[i] \notin ToSet(Keys(over))
      <4> SUFFICES ASSUME KeysOnce(base), NEW j \in DOMAIN base, j > i, base[j].key = base[i].key PROVE FALSE
        BY <2>1, <3>1 DEF Stays
      <4>1. j = i
        BY <2>1 DEF KeysOnce
      <4> QED BY <1>3, <1>4, <4>1
    <3> QED BY <1>5, <2>1, <3>1, <3>2
  <2>2. CASE ~(i \in DOMAIN base /\ Stays(base, over, i))
    <3>1. r[i] = LastOf(over, o[i])
      BY <2>2
    <3>2. o[i] \in ToSet(Keys(over))
      <4>1. CASE i \in DOMAIN base
        BY <1>3, <2>2, <4>1 DEF Stays
      <4>2. CASE i \notin DOMAIN base
        BY <1>2, <1>4, <4>2, FromOver DEF o
      <4> QED BY <4>1, <4>2
    <3>3. \E j \in DOMAIN over : LastOf(over, o[i]) = over[j] /\ over[j].key = o[i]
      BY <3>2, LastOfIs
    <3> HIDE DEF r
    <3>4. \A j \in DOMAIN over : over[j] \in Items
      OBVIOUS
    <3> QED BY <3>1, <3>2, <3>3, <3>4
  <2> QED BY <2>1, <2>2
<1>7. DOMAIN r = 1..Len(o) /\ r = [i \in 1..Len(o) |-> r[i]]
  BY <1>4
<1> HIDE DEF r
<1>8. r \in [1..Len(o) -> Items]
  BY <1>4, <1>6, <1>7
<1>9. r \in Seq(Items)
  <2> HIDE DEF Items
  <2> QED BY <1>4, <1>8
<1> QED BY <1>1, <1>4, <1>6, <1>7, <1>9 DEF o

LEMMA OverlaidOnce ==
    ASSUME NEW base \in Seq(Items), NEW over \in Seq(Items), KeysOnce(base)
    PROVE  KeysOnce(Overlaid(base, over))
<1>1. IsInjective(Keys(base))
  BY KeysIs DEF KeysOnce, IsInjective
<1>2. IsInjective(Order(base, over))
  BY <1>1, OrderIs
<1>3. PICK r : r = Overlaid(base, over)
  OBVIOUS
<1>4. DOMAIN r = DOMAIN Order(base, over) /\ \A i \in DOMAIN r : r[i].key = Order(base, over)[i]
  BY <1>3, OverlaidIs
<1> QED BY <1>2, <1>3, <1>4 DEF KeysOnce, IsInjective

JoinedList(a, o, l) ==
    IF l = "hook" THEN a.top.lists[l].items \o o.top.lists[l].items
    ELSE Overlaid(a.top.lists[l].items, o.top.lists[l].items)
NamedUnder(a, o) == [k \in DOMAIN a \cup DOMAIN o |-> IF k \in DOMAIN o THEN o[k] ELSE a[k]]

LEMMA MergedDocument ==
    ASSUME NEW a, IsDocument(a), NEW o, IsDocument(o)
    PROVE  /\ IsDocument(Merge(a, o)) /\ Merge(a, o).adapters = a.adapters
           /\ Merge(a, o).version = (IF o.version > a.version THEN o.version ELSE a.version)
           /\ Merge(a, o).updates = (a.updates \/ o.updates)
           /\ Merge(a, o).top.named = NamedUnder(a.top.named, o.top.named)
           /\ \A l \in Lists : Merge(a, o).top.lists[l].items = JoinedList(a, o, l)
<1> DEFINE lists == [l \in Lists |-> AsList(JoinedList(a, o, l))]
<1>1. PICK m : m = Merge(a, o)
  OBVIOUS
<1>2. DOMAIN a = Fields /\ DOMAIN a.top = {"lists", "named"} /\ a.version \in Nat /\ o.version \in Nat
      /\ IsBundle(a.top) /\ IsBundle(o.top) /\ IsBundle(a.defaults)
      /\ \A t \in DOMAIN a.targets : IsBundle(a.targets[t])
  BY DEF IsDocument, IsBundle, Fields
<1>3. m = [a EXCEPT !.version = IF o.version > a.version THEN o.version ELSE a.version,
                    !.schema = FALSE, !.updates = a.updates \/ o.updates,
                    !.top.lists = lists, !.top.named = NamedUnder(a.top.named, o.top.named)]
  BY <1>1 DEF Merge, JoinedList, AsList, NamedUnder
<1> HIDE DEF lists
<1>4. /\ DOMAIN m = Fields /\ m.version = (IF o.version > a.version THEN o.version ELSE a.version)
      /\ m.schema = FALSE /\ m.updates = (a.updates \/ o.updates) /\ m.adapters = a.adapters /\ m.modules = a.modules
      /\ m.defaults = a.defaults /\ m.targets = a.targets
      /\ DOMAIN m.top = {"lists", "named"} /\ m.top.lists = lists
      /\ m.top.named = NamedUnder(a.top.named, o.top.named)
  BY <1>2, <1>3 DEF Fields
<1>5. ASSUME NEW l \in Lists
      PROVE  /\ JoinedList(a, o, l) \in Seq(Items) /\ lists[l].items = JoinedList(a, o, l)
             /\ lists[l] \in [nil : BOOLEAN, items : Seq(Items)] /\ (lists[l].nil => lists[l].items = <<>>)
  <2>1. a.top.lists[l].items \in Seq(Items) /\ o.top.lists[l].items \in Seq(Items)
    BY <1>2, ItemsOf
  <2>2. JoinedList(a, o, l) \in Seq(Items)
    <3>1. Overlaid(a.top.lists[l].items, o.top.lists[l].items) \in Seq(Items)
      BY <2>1, OverlaidIs
    <3>2. a.top.lists[l].items \o o.top.lists[l].items \in Seq(Items)
      <4> HIDE DEF Items
      <4> QED BY <2>1
    <3> QED BY <3>1, <3>2 DEF JoinedList
  <2>3. lists[l] = AsList(JoinedList(a, o, l))
    BY DEF lists
  <2> QED BY <2>2, <2>3, AsListIs
<1>6. /\ DOMAIN m.top.named \subseteq {"env", "alias", "service"} \X Texts
      /\ m.top.named \in [DOMAIN m.top.named -> Entries]
      /\ \A k \in DOMAIN m.top.named : k[1] # "service" => m.top.named[k].hosts = {}
  <2> DEFINE A == a.top.named
             O == o.top.named
             n == NamedUnder(A, O)
  <2>1. /\ DOMAIN A \subseteq {"env", "alias", "service"} \X Texts /\ \A k \in DOMAIN A : A[k] \in Entries
        /\ \A k \in DOMAIN A : k[1] # "service" => A[k].hosts = {}
    BY <1>2 DEF IsBundle
  <2>2. /\ DOMAIN O \subseteq {"env", "alias", "service"} \X Texts /\ \A k \in DOMAIN O : O[k] \in Entries
        /\ \A k \in DOMAIN O : k[1] # "service" => O[k].hosts = {}
    BY <1>2 DEF IsBundle
  <2> HIDE DEF A, O
  <2>3. n = [k \in DOMAIN A \cup DOMAIN O |-> IF k \in DOMAIN O THEN O[k] ELSE A[k]]
    BY DEF NamedUnder
  <2>4. \A k \in DOMAIN n : n[k] \in Entries /\ (k[1] # "service" => n[k].hosts = {})
    BY <2>1, <2>2, <2>3
  <2>5. n \in [DOMAIN n -> Entries]
    BY <2>3, <2>4
  <2> HIDE DEF n
  <2>6. DOMAIN n = DOMAIN A \cup DOMAIN O
    BY <2>3
  <2>7. m.top.named = n
    BY <1>4 DEF n, A, O
  <2> QED BY <2>1, <2>2, <2>4, <2>5, <2>6, <2>7
<1>7. IsBundle(m.top)
  <2>1. DOMAIN lists = Lists
    BY DEF lists
  <2>2. lists \in [Lists -> [nil : BOOLEAN, items : Seq(Items)]]
    <3>1. lists = [l \in Lists |-> lists[l]]
      BY DEF lists
    <3> QED BY <1>5, <3>1
  <2> QED BY <1>4, <1>5, <1>6, <2>2 DEF IsBundle
<1>8. IsDocument(m)
  <2>1. {m.schema, m.adapters, m.modules, m.updates} \subseteq BOOLEAN
    <3>1. a.adapters \in BOOLEAN /\ a.modules \in BOOLEAN
      BY DEF IsDocument
    <3>2. m.schema \in BOOLEAN /\ m.updates \in BOOLEAN
      BY <1>4, Zenon
    <3>3. m.adapters \in BOOLEAN /\ m.modules \in BOOLEAN
      BY <1>4, <3>1, Zenon
    <3> QED BY <3>2, <3>3
  <2>2. m.version \in Nat
    BY <1>2, <1>4
  <2>3. DOMAIN m = {"version", "schema", "top", "defaults", "targets", "adapters", "modules", "updates"}
    BY <1>4 DEF Fields
  <2>4. IsBundle(m.defaults) /\ \A t \in DOMAIN m.targets : IsBundle(m.targets[t])
    BY <1>2, <1>4
  <2> HIDE DEF Fields
  <2> QED BY <1>7, <2>1, <2>2, <2>3, <2>4 DEF IsDocument
<1> QED BY <1>1, <1>4, <1>5, <1>8

\* A legacy document and a profile make a legacy document.
LEMMA MergedValid ==
    ASSUME NEW a, IsDocument(a), Valid(a), ~Portable(a), NEW o, IsDocument(o), Valid(o), ~Portable(o)
    PROVE  Valid(Marshalled(Merge(a, o)))
<1>1. PICK m : m = Merge(a, o)
  OBVIOUS
<1>2. /\ IsDocument(m) /\ m.adapters = a.adapters /\ m.updates = (a.updates \/ o.updates)
      /\ m.version = (IF o.version > a.version THEN o.version ELSE a.version)
      /\ m.top.named = NamedUnder(a.top.named, o.top.named)
      /\ \A l \in Lists : m.top.lists[l].items = JoinedList(a, o, l)
  BY <1>1, MergedDocument
<1>3. /\ a.version \in 1..7 /\ UpdatesOk(a) /\ BundleOk(a, a.top, FALSE) /\ ~a.adapters
      /\ o.version \in 1..7 /\ UpdatesOk(o) /\ BundleOk(o, o.top, FALSE) /\ ~o.adapters
  BY LegacyFacts
<1>4. m.version \in 1..7 /\ m.version >= a.version /\ m.version >= o.version
  BY <1>2, <1>3
<1>5. ~Portable(m)
  BY <1>4 DEF Portable
<1>6. PICK w : w = Marshalled(m)
  OBVIOUS
<1>7. /\ IsDocument(w) /\ w.version = m.version /\ w.adapters = m.adapters /\ w.updates = m.updates
      /\ w.top = Packaged(Written(m.top), m.top.lists["package"].items)
  BY <1>2, <1>5, <1>6, MarshalledIs
<1>8. /\ IsBundle(m.top) /\ IsBundle(Written(m.top)) /\ Written(m.top).named = m.top.named
      /\ \A l \in Lists : /\ Written(m.top).lists[l].items = m.top.lists[l].items
                          /\ Written(m.top).lists[l].nil <=> m.top.lists[l].items = <<>>
      /\ m.top.lists["package"].items \in Seq(Items)
  <2>1. IsBundle(m.top)
    BY <1>2 DEF IsDocument
  <2>2. m.top.lists["package"].items \in Seq(Items)
    BY <2>1, ItemsOf DEF Lists
  <2>3. IsBundle(Written(m.top)) /\ Written(m.top).named = m.top.named
    BY <2>1, WrittenIs
  <2>4. ASSUME NEW l \in Lists
        PROVE  /\ Written(m.top).lists[l].items = m.top.lists[l].items
               /\ Written(m.top).lists[l].nil <=> m.top.lists[l].items = <<>>
    BY <2>1, WrittenIs
  <2> QED BY <2>1, <2>2, <2>3, <2>4
<1>9. /\ w.top.named = m.top.named /\ w.top.lists["package"] = Listed(m.top.lists["package"].items)
      /\ \A l \in Lists : l # "package" => w.top.lists[l] = Written(m.top).lists[l]
  BY <1>7, <1>8, PackagedIs
<1>10. w.top.lists["package"].items = m.top.lists["package"].items /\ ~w.top.lists["package"].nil
  BY <1>9 DEF Listed
<1>11. ASSUME NEW l \in Lists
       PROVE  /\ a.top.lists[l].items \in Seq(Items) /\ o.top.lists[l].items \in Seq(Items)
              /\ (a.top.lists[l].nil => a.top.lists[l].items = <<>>)
              /\ (o.top.lists[l].nil => o.top.lists[l].items = <<>>)
  BY ItemsOf DEF IsDocument
<1>12. PackagesOk(w, w.top.lists["package"].items)
  <2> DEFINE s == a.top.lists["package"].items
             t == o.top.lists["package"].items
             r == Overlaid(s, t)
  <2>1. s \in Seq(Items) /\ t \in Seq(Items)
    BY <1>11 DEF Lists
  <2>2. w.top.lists["package"].items = r
    BY <1>2, <1>10 DEF JoinedList, Lists
  <2>3. PackagesOk(a, s) /\ PackagesOk(o, t)
    BY <1>3 DEF BundleOk
  <2> HIDE DEF s, t
  <2>4. KeysOnce(s)
    BY <2>3 DEF PackagesOk, KeysOnce
  <2>5. KeysOnce(r)
    BY <2>1, <2>4, OverlaidOnce
  <2>6. \A i \in DOMAIN r : (\E j \in DOMAIN t : r[i] = t[j]) \/ \E j \in DOMAIN s : r[i] = s[j]
    BY <2>1, OverlaidIs
  <2> HIDE DEF r
  <2>7. \A j \in DOMAIN s : s[j].val # "adapter" /\ s[j].val # "recipe"
    BY <1>3, <2>3 DEF PackagesOk, KnownManager
  <2>8. \A j \in DOMAIN t : t[j].val # "adapter" /\ t[j].val # "recipe"
    BY <1>3, <2>3 DEF PackagesOk, KnownManager
  <2>9. \A i \in DOMAIN r : r[i].val # "adapter" /\ r[i].val # "recipe"
    BY <2>6, <2>7, <2>8
  <2> QED BY <2>2, <2>5, <2>9 DEF PackagesOk, KeysOnce, KnownManager
<1>13. FilesOk(w, w.top)
  <2> SUFFICES ASSUME ~w.top.lists["file"].nil PROVE w.version >= 5
    BY DEF FilesOk
  <2> DEFINE s == a.top.lists["file"].items
             t == o.top.lists["file"].items
  <2>1. JoinedList(a, o, "file") = Overlaid(s, t) /\ JoinedList(a, o, "file") # <<>>
    BY <1>2, <1>8, <1>9 DEF JoinedList, Lists
  <2>2. s \in Seq(Items) /\ t \in Seq(Items)
    BY <1>11 DEF Lists
  <2> HIDE DEF s, t
  <2>3. s # <<>> \/ t # <<>>
    <3> DEFINE r == Overlaid(s, t)
    <3>0. \A e \in DOMAIN r : (\E j \in DOMAIN t : r[e] = t[j]) \/ \E j \in DOMAIN s : r[e] = s[j]
      BY <2>2, OverlaidIs
    <3> SUFFICES ASSUME s = <<>>, t = <<>> PROVE FALSE
      OBVIOUS
    <3>1. \A i \in DOMAIN Overlaid(s, t) : FALSE
      <4> SUFFICES ASSUME NEW i \in DOMAIN Overlaid(s, t) PROVE FALSE
        OBVIOUS
      <4>2. (\E j \in DOMAIN t : r[i] = t[j]) \/ \E j \in DOMAIN s : r[i] = s[j]
        BY <3>0
      <4>3. DOMAIN s = {} /\ DOMAIN t = {}
        OBVIOUS
      <4> QED BY <4>2, <4>3
    <3>2. Overlaid(s, t) \in Seq(Items)
      BY <2>2, OverlaidIs
    <3>3. PICK q \in Seq(Items) : q = Overlaid(s, t)
      BY <3>2
    <3>4. DOMAIN q = {} /\ q # <<>>
      BY <2>1, <3>1, <3>3
    <3> HIDE DEF Items
    <3> QED BY <3>4
  <2>4. ~a.top.lists["file"].nil \/ ~o.top.lists["file"].nil
    BY <1>11, <2>3 DEF Lists, s, t
  <2> QED BY <1>3, <1>4, <1>7, <2>4 DEF BundleOk, FilesOk
<1>14. HooksOk(w, w.top)
  <2> DEFINE s == a.top.lists["hook"].items
             t == o.top.lists["hook"].items
  <2>1. w.top.lists["hook"].items = s \o t /\ (w.top.lists["hook"].nil <=> s \o t = <<>>)
    BY <1>2, <1>8, <1>9 DEF JoinedList, Lists
  <2>2. s \in Seq(Items) /\ t \in Seq(Items)
    BY <1>11 DEF Lists
  <2>3. /\ (s = <<>> \/ a.version >= 5) /\ (t = <<>> \/ o.version >= 5)
        /\ \A i \in DOMAIN s : s[i].val = "script" => a.version >= 6
        /\ \A i \in DOMAIN t : t[i].val = "script" => o.version >= 6
    BY <1>3, <1>11 DEF BundleOk, HooksOk, Lists
  <2> HIDE DEF s, t, Items
  <2>4. w.top.lists["hook"].nil \/ w.version >= 5
    <3>1. CASE s = <<>> /\ t = <<>>
      <4>1. s \o t = <<>>
        BY <2>2, <3>1
      <4> QED BY <2>1, <4>1
    <3>2. CASE s # <<>> \/ t # <<>>
      BY <1>3, <1>4, <1>7, <2>3, <3>2
    <3> QED BY <3>1, <3>2
  <2>5. \A i \in DOMAIN (s \o t) : (s \o t)[i].val = "script" => w.version >= 6
    <3> SUFFICES ASSUME NEW i \in DOMAIN (s \o t), (s \o t)[i].val = "script" PROVE w.version >= 6
      OBVIOUS
    <3>1. (i \in DOMAIN s /\ (s \o t)[i] = s[i]) \/ (i - Len(s) \in DOMAIN t /\ (s \o t)[i] = t[i - Len(s)])
      BY <2>2
    <3>2. a.version >= 6 \/ o.version >= 6
      BY <2>3, <3>1
    <3> QED BY <1>3, <1>4, <1>7, <3>2
  <2> QED BY <2>1, <2>4, <2>5 DEF HooksOk
<1>15. ASSUME NEW k \in DOMAIN w.top.named
       PROVE  ~w.top.named[k].null /\ w.version >= Needs(k[1], w.top.named[k].val)
              /\ ~(k[1] = "service" /\ w.top.named[k].val = "requires")
  <2>1. k[1] \in Kinds
    BY <1>7 DEF IsDocument, IsBundle, Kinds
  <2>2. \A v : Needs(k[1], v) \in Nat
    BY <2>1 DEF Needs, Kinds
  <2>3. (k \in DOMAIN o.top.named /\ w.top.named[k] = o.top.named[k])
        \/ (k \in DOMAIN a.top.named /\ w.top.named[k] = a.top.named[k])
    BY <1>2, <1>9 DEF NamedUnder
  <2>4. k \in DOMAIN o.top.named => /\ ~o.top.named[k].null /\ o.version >= Needs(k[1], o.top.named[k].val)
                                    /\ ~(k[1] = "service" /\ o.top.named[k].val = "requires")
    BY LegacyFacts
  <2>5. k \in DOMAIN a.top.named => /\ ~a.top.named[k].null /\ a.version >= Needs(k[1], a.top.named[k].val)
                                    /\ ~(k[1] = "service" /\ a.top.named[k].val = "requires")
    BY LegacyFacts
  <2>6. w.version >= a.version /\ w.version >= o.version /\ w.version \in Nat /\ a.version \in Nat /\ o.version \in Nat
    BY <1>3, <1>4, <1>7
  <2>7. CASE k \in DOMAIN o.top.named /\ w.top.named[k] = o.top.named[k]
    BY <2>2, <2>4, <2>6, <2>7
  <2>8. CASE k \in DOMAIN a.top.named /\ w.top.named[k] = a.top.named[k]
    BY <2>2, <2>5, <2>6, <2>8
  <2> QED BY <2>3, <2>7, <2>8
<1>16. EnvOk(w, w.top, FALSE) /\ AliasesOk(w, w.top, FALSE)
  BY <1>15 DEF EnvOk, AliasesOk, Keyed
<1>17. ServicesOk(w, w.top, FALSE)
  BY <1>15 DEF ServicesOk, Keyed
<1>18. LegacyOk(w)
  BY <1>2, <1>3, <1>7, <1>10, <1>12, <1>13, <1>14, <1>16, <1>17 DEF LegacyOk, BundleOk
<1>19. UpdatesOk(w) /\ w.version \in 1..10 /\ ~Portable(w)
  <2>1. w.updates => a.updates \/ o.updates
    BY <1>2, <1>7
  <2>2. (a.updates => a.version >= 6) /\ (o.updates => o.version >= 6)
    BY <1>3 DEF UpdatesOk
  <2>3. w.updates => w.version >= 6
    BY <1>3, <1>4, <1>7, <2>1, <2>2
  <2> QED BY <1>4, <1>5, <1>7, <2>3 DEF UpdatesOk, Portable
<1> QED BY <1>1, <1>6, <1>18, <1>19 DEF Valid

LEMMA MatchingIs ==
    ASSUME NEW s \in Seq(Items), NEW here
    PROVE  /\ Matching(s, here) \in Seq(Items)
           /\ ToSet(Matching(s, here)) = {i \in ToSet(s) : Match(i.hosts, here)}
<1> DEFINE S == {i \in ToSet(s) : Match(i.hosts, here)}
<1>1. Matching(s, here) = Keep(s, S)
  BY DEF Matching
<1>2. S \subseteq ToSet(s)
  OBVIOUS
<1> HIDE DEF S, Items
<1>3. Keep(s, S) \in Seq(Items) /\ ToSet(Keep(s, S)) = ToSet(s) \cap S
  BY KeepLemma
<1> QED BY <1>1, <1>2, <1>3 DEF S

\* The items of a list laid over another: those of the upper one, and of the lower
\* one those whose key the upper one has not.
LEMMA OverlaidSet ==
    ASSUME NEW base \in Seq(Items), NEW over \in Seq(Items), KeysOnce(base), KeysOnce(over)
    PROVE  ToSet(Overlaid(base, over)) = ToSet(over) \cup {i \in ToSet(base) : \A j \in ToSet(over) : j.key # i.key}
<1>1. PICK r : r = Overlaid(base, over)
  OBVIOUS
<1>2. /\ r \in Seq(Items) /\ DOMAIN r = DOMAIN Order(base, over)
      /\ \A i \in DOMAIN r :
             /\ r[i].key = Order(base, over)[i]
             /\ r[i].key \in ToSet(Keys(over)) => \E j \in DOMAIN over : r[i] = over[j]
             /\ r[i].key \notin ToSet(Keys(over)) => \E j \in DOMAIN base : r[i] = base[j]
  BY <1>1, OverlaidIs
<1>3. /\ ToSet(Order(base, over)) = ToSet(Keys(base)) \cup ToSet(Keys(over))
      /\ Order(base, over) \in Seq(Texts)
  BY OrderIs
<1>4. ToSet(Keys(base)) = {base[i].key : i \in DOMAIN base} /\ ToSet(Keys(over)) = {over[i].key : i \in DOMAIN over}
  BY KeysIs
<1>5. \A k \in ToSet(Keys(base)) \cup ToSet(Keys(over)) : \E i \in DOMAIN r : r[i].key = k
  <2>1. PICK o : o = Order(base, over)
    OBVIOUS
  <2>2. ToSet(o) = {o[i] : i \in DOMAIN o}
    BY DEF ToSet
  <2>3. DOMAIN r = DOMAIN o /\ \A i \in DOMAIN r : r[i].key = o[i]
    BY <1>2, <2>1
  <2>4. ToSet(o) = ToSet(Keys(base)) \cup ToSet(Keys(over))
    BY <1>3, <2>1
  <2> HIDE DEF Items
  <2> QED BY <2>2, <2>3, <2>4
<1>6. /\ ToSet(over) = {over[i] : i \in DOMAIN over} /\ ToSet(base) = {base[i] : i \in DOMAIN base}
      /\ ToSet(r) = {r[i] : i \in DOMAIN r}
  BY DEF ToSet
<1> DEFINE rest == {i \in ToSet(base) : \A j \in ToSet(over) : j.key # i.key}
<1>7. ASSUME NEW x \in ToSet(r) PROVE x \in ToSet(over) \cup rest
  <2>1. PICK i \in DOMAIN r : x = r[i]
    BY <1>6
  <2>2. CASE r[i].key \in ToSet(Keys(over))
    BY <1>2, <1>6, <2>1, <2>2
  <2>3. CASE r[i].key \notin ToSet(Keys(over))
    BY <1>2, <1>4, <1>6, <2>1, <2>3
  <2> QED BY <2>2, <2>3
<1>8. ASSUME NEW x \in ToSet(over) PROVE x \in ToSet(r)
  <2>1. PICK j \in DOMAIN over : x = over[j]
    BY <1>6
  <2>2. over[j].key \in ToSet(Keys(over))
    BY <1>4, <2>1
  <2>3. PICK i \in DOMAIN r : r[i].key = over[j].key
    BY <1>5, <2>2
  <2>4. PICK m \in DOMAIN over : r[i] = over[m]
    BY <1>2, <2>2, <2>3
  <2>5. m = j
    BY <2>3, <2>4 DEF KeysOnce
  <2> QED BY <1>6, <2>1, <2>4, <2>5
<1>9. ASSUME NEW x \in rest PROVE x \in ToSet(r)
  <2>1. PICK j \in DOMAIN base : x = base[j]
    BY <1>6
  <2>2. base[j].key \in ToSet(Keys(base)) /\ base[j].key \notin ToSet(Keys(over))
    BY <1>4, <1>6, <2>1
  <2>3. PICK i \in DOMAIN r : r[i].key = base[j].key
    BY <1>5, <2>2
  <2>4. PICK m \in DOMAIN base : r[i] = base[m]
    BY <1>2, <2>2, <2>3
  <2>5. m = j
    BY <2>3, <2>4 DEF KeysOnce
  <2> QED BY <1>6, <2>1, <2>4, <2>5
<1> QED BY <1>1, <1>7, <1>8, <1>9

IsOverlay(base, mine, got) ==
    /\ ToSet(got) = mine \cup {i \in base : \A j \in mine : j.key # i.key}
    /\ Len(got) = Cardinality(ToSet(got))

\* The same of what a machine is shown of them, when the two agree on who a key is for.
LEMMA OverlaidHere ==
    ASSUME NEW base \in Seq(Items), NEW over \in Seq(Items), KeysOnce(base), KeysOnce(over), NEW here,
           \A i \in ToSet(Matching(base, here)) \cup ToSet(Matching(over, here)) :
               \A x \in DOMAIN base, y \in DOMAIN over :
                   base[x].key = i.key /\ over[y].key = i.key => base[x].hosts = over[y].hosts
    PROVE  IsOverlay(ToSet(Matching(base, here)), ToSet(Matching(over, here)), Matching(Overlaid(base, over), here))
<1>1. PICK r : r = Overlaid(base, over)
  OBVIOUS
<1>2. r \in Seq(Items) /\ KeysOnce(r)
  BY <1>1, OverlaidIs, OverlaidOnce
<1>3. ToSet(r) = ToSet(over) \cup {i \in ToSet(base) : \A j \in ToSet(over) : j.key # i.key}
  BY <1>1, OverlaidSet
<1>4. PICK got : got = Matching(r, here)
  OBVIOUS
<1> DEFINE mine == {i \in ToSet(over) : Match(i.hosts, here)}
           theirs == {i \in ToSet(base) : Match(i.hosts, here)}
<1>5. ToSet(Matching(over, here)) = mine /\ ToSet(Matching(base, here)) = theirs
  BY MatchingIs
<1>6. got \in Seq(Items) /\ ToSet(got) = {i \in ToSet(r) : Match(i.hosts, here)}
  BY <1>2, <1>4, MatchingIs
<1>7. \A x \in ToSet(base), y \in ToSet(over) :
          x.key = y.key /\ (x \in theirs \/ y \in mine) => x.hosts = y.hosts
  <2>1. ToSet(over) = {over[i] : i \in DOMAIN over} /\ ToSet(base) = {base[i] : i \in DOMAIN base}
    BY DEF ToSet
  <2> QED BY <1>5, <2>1
<1>8. ToSet(got) = mine \cup {i \in theirs : \A j \in mine : j.key # i.key}
  <2>1. ASSUME NEW x \in ToSet(got) PROVE x \in mine \cup {i \in theirs : \A j \in mine : j.key # i.key}
    BY <1>3, <1>6
  <2>2. ASSUME NEW x \in mine PROVE x \in ToSet(got)
    BY <1>3, <1>6
  <2>3. ASSUME NEW x \in theirs, \A j \in mine : j.key # x.key PROVE x \in ToSet(got)
    <3>1. ASSUME NEW y \in ToSet(over), y.key = x.key PROVE FALSE
      <4>1. x.hosts = y.hosts
        BY <1>7, <2>3, <3>1
      <4>2. y \in mine
        BY <2>3, <4>1
      <4> QED BY <2>3, <3>1, <4>2
    <3> QED BY <1>3, <1>6, <2>3, <3>1
  <2> QED BY <2>1, <2>2, <2>3
<1>9. IsInjective(got)
  <2>1. IsInjective(r)
    BY <1>2 DEF KeysOnce, IsInjective
  <2>2. got = Keep(r, {i \in ToSet(r) : Match(i.hosts, here)})
    BY <1>4 DEF Matching
  <2> HIDE DEF Items
  <2> QED BY <1>2, <2>1, <2>2, KeepOnce
<1>10. Len(got) = Cardinality(ToSet(got))
  <2> HIDE DEF Items
  <2> QED BY <1>6, <1>9, OnceLength
<1> HIDE DEF mine, theirs
<1> QED BY <1>1, <1>4, <1>5, <1>8, <1>10 DEF IsOverlay

LEMMA FilteredList ==
    ASSUME NEW d, NEW here, NEW l \in Lists
    PROVE  FilterForHost(d, here).lists[l] = Matching(d.top.lists[l].items, here)
BY DEF FilterForHost, Matching

LEMMA Overlays ==
    ASSUME spec # NoSpec => IsDocument(spec), profile # NoSpec => IsDocument(profile)
    PROVE  ProfileOverlays
<1> SUFFICES ASSUME Merged, NEW h \in KnownTargets, NEW b \in {"package", "file"}, Once(spec, b), Once(profile, b),
                    \A i \in ToSet(FilterForHost(spec, {h}).lists[b]) \cup ToSet(FilterForHost(profile, {h}).lists[b]) :
                        SameMachines(i.key, b)
             PROVE  LET mine == ToSet(FilterForHost(profile, {h}).lists[b])
                        base == ToSet(FilterForHost(spec, {h}).lists[b])
                        got == FilterForHost(Merge(spec, profile), {h}).lists[b]
                    IN /\ ToSet(got) = mine \cup {i \in base : \A j \in mine : j.key # i.key}
                       /\ Len(got) = Cardinality(ToSet(got))
  BY DEF ProfileOverlays
<1>1. IsDocument(spec) /\ IsDocument(profile)
  BY DEF Merged
<1>2. b \in Lists
  BY DEF Lists
<1>3. PICK base, over : base = spec.top.lists[b].items /\ over = profile.top.lists[b].items
  OBVIOUS
<1>4. base \in Seq(Items) /\ over \in Seq(Items)
  BY <1>1, <1>2, <1>3, ItemsOf DEF IsDocument
<1>5. Merge(spec, profile).top.lists[b].items = Overlaid(base, over)
  <2>1. Merge(spec, profile).top.lists[b].items = JoinedList(spec, profile, b)
    BY <1>1, <1>2, MergedDocument
  <2> QED BY <1>3, <2>1 DEF JoinedList
<1>6. /\ FilterForHost(profile, {h}).lists[b] = Matching(over, {h})
      /\ FilterForHost(spec, {h}).lists[b] = Matching(base, {h})
      /\ FilterForHost(Merge(spec, profile), {h}).lists[b] = Matching(Overlaid(base, over), {h})
  BY <1>2, <1>3, <1>5, FilteredList
<1>7. KeysOnce(base) /\ KeysOnce(over)
  BY <1>3 DEF Once, KeysOnce
<1>8. \A i \in ToSet(Matching(base, {h})) \cup ToSet(Matching(over, {h})) :
          \A x \in DOMAIN base, y \in DOMAIN over :
              base[x].key = i.key /\ over[y].key = i.key => base[x].hosts = over[y].hosts
  <2> SUFFICES ASSUME NEW i \in ToSet(Matching(base, {h})) \cup ToSet(Matching(over, {h})),
                      NEW x \in DOMAIN base, NEW y \in DOMAIN over, base[x].key = i.key, over[y].key = i.key
               PROVE  base[x].hosts = over[y].hosts
    OBVIOUS
  <2>1. SameMachines(i.key, b)
    BY <1>6
  <2> QED BY <1>3, <2>1 DEF SameMachines
<1>9. IsOverlay(ToSet(Matching(base, {h})), ToSet(Matching(over, {h})), Matching(Overlaid(base, over), {h}))
  BY <1>4, <1>7, <1>8, OverlaidHere
<1> QED BY <1>6, <1>9 DEF IsOverlay

-----------------------------------------------------------------------------
(* The specification.                                                      *)

Readable(d) == d = NoSpec \/ (IsDocument(d) /\ Valid(d))
SpecInv == Readable(spec) /\ Readable(profile) /\ ExportInv

\* What every other command does to the document, and to what was said last.
Quiet ==
    /\ spec' = spec
    /\ \/ last' = last
       \/ last'.cmd \in {"export", "profile"}
       \/ last'.cmd = "set" /\ last'.end = "failed"

LEMMA NextSteps ==
    Next => Edit \/ Migrate \/ DiskFails \/ ExportSteps \/ ProfileCreate \/ ProfileEdited
<1> SUFFICES ASSUME Next PROVE Edit \/ Migrate \/ DiskFails \/ ExportSteps \/ ProfileCreate \/ ProfileEdited
  OBVIOUS
<1>1. ASSUME NEW t \in Machines,
             \/ \E id \in {"p", "q"} : RemovePackage(t, id) \/ (\E val \in {"plain", "adapter"} : AddPackage(t, id, val))
             \/ EnvSet(t) \/ EnvUnset(t) \/ ShellAliasSet(t) \/ ShellAliasUnset(t) \/ ServicePut(t) \/ ServiceRemove(t)
      PROVE  Edit
  BY <1>1, EditSteps
<1>2. ASSUME NEW t \in Machines, Export(t) \/ ExportFromV7(t) PROVE ExportSteps
  BY <1>2 DEF Export, ExportFromV7, ExportSteps
<1>3. CopyAsset \/ WriteSnapshot \/ WriteReport \/ ExportFails => ExportSteps
  BY DEF ExportSteps
<1> QED BY <1>1, <1>2, <1>3 DEF Next

LEMMA OtherSteps ==
    DiskFails \/ ExportSteps \/ ProfileCreate \/ ProfileEdited => Quiet
<1>1. DiskFails => Quiet
  BY DEF DiskFails, Quiet, Request
<1>3. ProfileCreate => Quiet
  BY DEF ProfileCreate, Quiet, Ends, Request
<1>4. ProfileEdited => Quiet
  BY DEF ProfileEdited, Quiet
<1>5. ASSUME NEW end, ExportEnds(end) PROVE last'.cmd = "export"
  BY <1>5 DEF ExportEnds, Request
<1>6. CopyAsset => Quiet
  BY <1>5 DEF CopyAsset, Quiet
<1>7. WriteSnapshot => Quiet
  BY <1>5 DEF WriteSnapshot, SaveSnapshot, Quiet
<1>8. WriteReport => Quiet
  BY <1>5 DEF WriteReport, Quiet
<1>9. ExportFails => Quiet
  BY <1>5 DEF ExportFails, Quiet
<1>10. (\E d, t : ExportFrom(d, t)) => Quiet
  BY DEF ExportFrom, Quiet
<1> QED BY <1>1, <1>3, <1>4, <1>6, <1>7, <1>8, <1>9, <1>10 DEF ExportSteps

\* An edit, as it is asked and as it is written.
EditOf(t, new, r) ==
    /\ Has(ReadOrNew, t) /\ Asked(ReadOrNew, t, new, r) /\ Does(ReadOrNew, t, new, r)
    /\ r.cmd \in Edits /\ r.target = t /\ IsDocument(new)
    /\ IsDocument(Rewritten(spec, new)) /\ Says(Rewritten(spec, new), new)
    /\ Write(new, r) /\ UNCHANGED <<profile, out, exporting>>

LEMMA EditIs ==
    ASSUME Readable(spec), Edit
    PROVE  \E t, new, r : EditOf(t, new, r)
<1>0. PICK t \in Machines : \E new, r : Ready(t) /\ Asked(ReadOrNew, t, new, r) /\ Write(new, r)
  BY DEF Edit
<1>1. PICK new, r : Ready(t) /\ Asked(ReadOrNew, t, new, r) /\ Write(new, r)
  BY <1>0
<1>2. IsDocument(ReadOrNew)
  BY NewIs DEF ReadOrNew, Readable
<1>3. Has(ReadOrNew, t) /\ UNCHANGED <<profile, out, exporting>>
  BY <1>1 DEF Ready, Has
<1>4. PICK d : d = ReadOrNew
  OBVIOUS
<1>5. Does(d, t, new, r) /\ r.cmd \in Edits /\ r.target = t
  BY <1>1, <1>2, <1>3, <1>4, AskedDoes
<1>6. IsDocument(new)
  BY <1>5 DEF Does, OneTarget
<1>7. IsDocument(Rewritten(spec, new)) /\ Says(Rewritten(spec, new), new)
  BY <1>6, RewrittenSays DEF Readable
<1> QED BY <1>1, <1>3, <1>4, <1>5, <1>6, <1>7 DEF EditOf

LEMMA MigrateIs ==
    ASSUME Readable(spec), Migrate
    PROVE  /\ spec # NoSpec /\ IsDocument(Migrated(spec)) /\ IsDocument(Rewritten(spec, Migrated(spec)))
           /\ Write(Migrated(spec), Request("migrate", "", "", "", ""))
           /\ UNCHANGED <<profile, out, exporting>> /\ last'.cmd = "migrate"
           /\ ~Portable(spec) => /\ Migrated(spec) = ToV8(spec)
                                 /\ TargetsOf(UNION HostsOf(spec)) \subseteq KnownTargets
<1>1. /\ spec # NoSpec /\ IsDocument(spec) /\ CanMigrate(spec)
      /\ Write(Migrated(spec), Request("migrate", "", "", "", "")) /\ UNCHANGED <<profile, out, exporting>>
  BY DEF Migrate, Readable
<1>2. IsDocument(Migrated(spec))
  BY <1>1, ToV8Is DEF Migrated
<1>3. IsDocument(Rewritten(spec, Migrated(spec)))
  BY <1>1, <1>2, RewrittenSays
<1>4. last'.cmd = "migrate"
  BY <1>1 DEF Write, Ends, Request
<1>5. ~Portable(spec) => spec.version # 8
  BY DEF Portable
<1> QED BY <1>1, <1>2, <1>3, <1>4, <1>5 DEF CanMigrate, Migrated

LEMMA ProfileCreated ==
    ASSUME ProfileCreate
    PROVE  IsDocument(profile') /\ Valid(profile')
<1>1. PICK p : p = profile'
  OBVIOUS
<1>2. p = [New EXCEPT !.version = 6, !.targets = <<>>, !.top.lists["package"] = Listed(<<>>)]
  BY <1>1 DEF ProfileCreate
<1> DEFINE top == Packaged(Nothing, <<>>)
<1>3. IsBundle(Nothing) /\ <<>> \in Seq(Items)
  <2> HIDE DEF Items
  <2> QED BY NothingIs
<1>4. /\ IsBundle(top) /\ top.named = Nothing.named /\ top.lists["package"] = Listed(<<>>)
      /\ \A l \in Lists : l # "package" => top.lists[l] = Nothing.lists[l]
  BY <1>3, PackagedIs
<1>5. DOMAIN New = Fields
  BY DEF New, Fields
<1>6. p = [[[New EXCEPT !.version = 6] EXCEPT !.targets = <<>>] EXCEPT !.top = top]
  <2>1. New.top = Nothing
    BY NewIs
  <2>2. PICK q : q = [New EXCEPT !.version = 6, !.targets = <<>>]
    OBVIOUS
  <2>3. DOMAIN q = Fields /\ q.top = Nothing
    BY <1>5, <2>1, <2>2 DEF Fields
  <2>4. p = [q EXCEPT !.top.lists["package"] = Listed(<<>>)]
    BY <1>2, <1>5, <2>2 DEF Fields
  <2>5. p = [q EXCEPT !.top = [q.top EXCEPT !.lists["package"] = Listed(<<>>)]]
    BY <2>3, <2>4 DEF Fields
  <2> QED BY <2>2, <2>3, <2>5 DEF Packaged
<1> HIDE DEF top
<1>7. /\ DOMAIN p = Fields /\ p.version = 6 /\ p.targets = <<>> /\ p.top = top
      /\ \A f \in {"schema", "defaults", "adapters", "modules", "updates"} : p[f] = New[f]
  BY <1>5, <1>6 DEF Fields
<1>8. /\ ~New.schema /\ ~New.adapters /\ ~New.modules /\ ~New.updates /\ IsBundle(New.defaults)
      /\ {New.schema, New.adapters, New.modules, New.updates} \subseteq BOOLEAN
  BY NewIs DEF IsDocument
<1>9. IsDocument(p)
  <2>1. DOMAIN p.targets = {}
    BY <1>7
  <2> QED BY <1>4, <1>7, <1>8, <2>1 DEF IsDocument, Fields
<1>10. /\ top.lists["package"].items = <<>> /\ ~top.lists["package"].nil /\ DOMAIN top.named = {}
       /\ top.lists["file"].nil /\ top.lists["hook"].nil /\ top.lists["hook"].items = <<>>
  BY <1>4, NothingIs DEF Listed, Lists
<1>11. BundleOk(p, p.top, FALSE)
  <2>1. PackagesOk(p, p.top.lists["package"].items)
    BY <1>7, <1>10 DEF PackagesOk
  <2>2. EnvOk(p, p.top, FALSE) /\ AliasesOk(p, p.top, FALSE) /\ ServicesOk(p, p.top, FALSE)
    BY <1>7, <1>10 DEF EnvOk, AliasesOk, ServicesOk, Keyed
  <2>3. FilesOk(p, p.top) /\ HooksOk(p, p.top)
    BY <1>7, <1>10 DEF FilesOk, HooksOk
  <2> QED BY <2>1, <2>2, <2>3 DEF BundleOk
<1>12. Valid(p)
  <2>1. p.version \in 1..10 /\ ~Portable(p) /\ UpdatesOk(p)
    BY <1>7 DEF Portable, UpdatesOk
  <2>2. ~p.adapters
    BY <1>7, <1>8, Zenon
  <2>3. LegacyOk(p)
    <3>1. ~(p.version < 5)
      BY <1>7
    <3> QED BY <1>11, <2>2, <3>1, Zenon DEF LegacyOk
  <2> QED BY <2>1, <2>3 DEF Valid
<1> QED BY <1>1, <1>9, <1>12

LEMMA SpecInvInit == Init => SpecInv
<1> SUFFICES ASSUME Init PROVE SpecInv
  OBVIOUS
<1>1. Readable(spec)
  BY DocumentsAssumption DEF Init, Readable
<1>2. Readable(profile)
  BY DEF Init, Readable
<1> QED BY <1>1, <1>2, ExportInit DEF SpecInv

LEMMA SpecInvNext == SpecInv /\ [Next]_vars => SpecInv'
<1> SUFFICES ASSUME SpecInv, [Next]_vars PROVE SpecInv'
  OBVIOUS
<1>1. Readable(spec) /\ Readable(profile) /\ ExportInv
  BY DEF SpecInv
<1>2. (ExportSteps \/ UNCHANGED <<out, exporting>>) => ExportInv'
  BY <1>1, ExportKept
<1>3. CASE Edit
  <2>1. PICK t, new, r : EditOf(t, new, r)
    BY <1>1, <1>3, EditIs
  <2>2. IsDocument(Rewritten(spec, new)) /\ Write(new, r) /\ UNCHANGED <<profile, out, exporting>>
    BY <2>1 DEF EditOf
  <2>3. spec' = spec \/ (spec' = Rewritten(spec, new) /\ Valid(Rewritten(spec, new)))
    BY <2>2 DEF Write
  <2>4. Readable(spec)'
    BY <1>1, <2>2, <2>3 DEF Readable
  <2> QED BY <1>1, <1>2, <2>2, <2>4 DEF SpecInv, Readable
<1>4. CASE Migrate
  <2>1. /\ IsDocument(Rewritten(spec, Migrated(spec))) /\ UNCHANGED <<profile, out, exporting>>
        /\ Write(Migrated(spec), Request("migrate", "", "", "", ""))
    BY <1>1, <1>4, MigrateIs
  <2>2. spec' = spec \/ (spec' = Rewritten(spec, Migrated(spec)) /\ Valid(Rewritten(spec, Migrated(spec))))
    BY <2>1 DEF Write
  <2>3. Readable(spec)'
    BY <1>1, <2>1, <2>2 DEF Readable
  <2> QED BY <1>1, <1>2, <2>1, <2>3 DEF SpecInv, Readable
<1>5. CASE DiskFails
  BY <1>1, <1>2, <1>5 DEF DiskFails, SpecInv, Readable
<1>6. CASE ExportSteps
  <2>1. UNCHANGED <<spec, profile>>
    BY <1>6 DEF ExportSteps, CopyAsset, WriteSnapshot, WriteReport, ExportFails, ExportFrom
  <2> QED BY <1>1, <1>2, <1>6, <2>1 DEF SpecInv, Readable
<1>7. CASE ProfileCreate
  <2>1. IsDocument(profile') /\ Valid(profile')
    BY <1>7, ProfileCreated
  <2>2. UNCHANGED <<spec, out, exporting>>
    BY <1>7 DEF ProfileCreate
  <2> QED BY <1>1, <1>2, <2>1, <2>2 DEF SpecInv, Readable
<1>8. CASE ProfileEdited
  <2>1. IsDocument(profile') /\ Valid(profile')
    BY <1>8, DocumentsAssumption DEF ProfileEdited
  <2>2. UNCHANGED <<spec, out, exporting>>
    BY <1>8 DEF ProfileEdited
  <2> QED BY <1>1, <1>2, <2>1, <2>2 DEF SpecInv, Readable
<1>9. CASE UNCHANGED vars
  BY <1>1, <1>2, <1>9 DEF SpecInv, Readable, vars
<1> QED BY <1>3, <1>4, <1>5, <1>6, <1>7, <1>8, <1>9, NextSteps

\* A step is an edit, a migration, or leaves the document as it is.
LEMMA StepIs ==
    ASSUME [Next]_vars
    PROVE  Edit \/ Migrate \/ Quiet
<1>1. UNCHANGED vars => Quiet
  BY DEF vars, Quiet
<1> QED BY <1>1, NextSteps, OtherSteps

LEMMA RequestIs ==
    ASSUME NEW d, NEW t, NEW new, NEW r, Asked(d, t, new, r), NEW end
    PROVE  LET s == [r EXCEPT !.end = end] IN
           s.cmd = r.cmd /\ s.target = r.target /\ s.kind = r.kind /\ s.name = r.name /\ s.val = r.val /\ s.end = end
<1>1. PICK cmd, u, kind, name, val : r = Request(cmd, u, kind, name, val)
  <2>1. AskedAdd(d, t, new, r) => \E cmd, u, kind, name, val : r = Request(cmd, u, kind, name, val)
    BY DEF AskedAdd
  <2>2. AskedRemove(d, t, new, r) => \E cmd, u, kind, name, val : r = Request(cmd, u, kind, name, val)
    BY DEF AskedRemove
  <2>3. AskedSet(d, t, new, r) => \E cmd, u, kind, name, val : r = Request(cmd, u, kind, name, val)
    BY DEF AskedSet
  <2>4. AskedUnset(d, t, new, r) => \E cmd, u, kind, name, val : r = Request(cmd, u, kind, name, val)
    BY DEF AskedUnset
  <2> QED BY <2>1, <2>2, <2>3, <2>4 DEF Asked
<1> QED BY <1>1 DEF Request

LEMMA WantedSame ==
    ASSUME NEW env, NEW r, NEW s, s.cmd = r.cmd, s.kind = r.kind, s.name = r.name, s.val = r.val
    PROVE  Wanted(env, s) = Wanted(env, r)
BY DEF Wanted

\* What a step that is an edit says last.
LEMMA EditEnds ==
    ASSUME NEW t, NEW new, NEW r, EditOf(t, new, r)
    PROVE  /\ last'.cmd = r.cmd /\ last'.target = t /\ r.cmd \in Edits
           /\ \A env : Wanted(env, last') = Wanted(env, r)
           /\ last'.end = "done" => spec' = Rewritten(spec, new)
           /\ Valid(Rewritten(spec, new)) => last'.end = "done"
<1>1. /\ Asked(ReadOrNew, t, new, r) /\ Write(new, r) /\ r.cmd \in Edits /\ r.target = t
  BY DEF EditOf
<1>2. PICK end \in {"done", "refused"} :
        /\ last' = [r EXCEPT !.end = end] /\ (end = "done" => spec' = Rewritten(spec, new))
        /\ (Valid(Rewritten(spec, new)) => end = "done")
  BY <1>1 DEF Write, Ends
<1>3. PICK l : l = last'
  OBVIOUS
<1>4. PICK d : d = ReadOrNew
  OBVIOUS
<1>5. l = [r EXCEPT !.end = end] /\ Asked(d, t, new, r)
  BY <1>1, <1>2, <1>3, <1>4
<1>6. l.cmd = r.cmd /\ l.target = r.target /\ l.kind = r.kind /\ l.name = r.name /\ l.val = r.val /\ l.end = end
  BY <1>5, RequestIs
<1>7. \A env : Wanted(env, l) = Wanted(env, r)
  BY <1>6, WantedSame
<1> QED BY <1>1, <1>2, <1>3, <1>6, <1>7

\* An edit of the document that is reported as done says what it was asked to.
LEMMA EditFaithful ==
    ASSUME Readable(spec), NEW e, NEW new, NEW r, EditOf(e, new, r)
    PROVE  EditSays
<1>1. PICK d : d = ReadOrNew
  OBVIOUS
<1>2. IsDocument(d)
  BY <1>1, NewIs DEF ReadOrNew, Readable
<1>3. /\ Has(d, e) /\ OneTarget(d, e, new) /\ IsDocument(new)
      /\ Environment(new, e).named = Wanted(Environment(d, e), r).named
      /\ \A l \in Lists : Environment(new, e).lists[l] = Wanted(Environment(d, e), r).lists[l]
  BY <1>1 DEF EditOf, Does
<1>4. /\ new.defaults = d.defaults /\ (Portable(d) => Portable(new)) /\ (~Portable(d) => ~Portable(new))
      /\ DOMAIN new.targets = DOMAIN d.targets
  BY <1>3 DEF OneTarget
<1>5. PICK m : m = Rewritten(spec, new)
  OBVIOUS
<1>6. IsDocument(m) /\ Says(m, new)
  BY <1>5 DEF EditOf
<1>7. PICK l : l = last'
  OBVIOUS
<1>8. /\ l.target = e /\ (\A env : Wanted(env, l) = Wanted(env, r))
      /\ (l.end = "done" => spec' = m)
  BY <1>5, <1>7, EditEnds
<1>9. ASSUME NEW t \in Places(d), NEW env, env = (IF Portable(d) /\ t # e THEN Environment(d, t) ELSE Wanted(Environment(d, t), l))
      PROVE  /\ Environment(m, t).named = env.named
             /\ \A b \in Lists : Environment(m, t).lists[b] = env.lists[b] \/ Inexpressible(d, env, b)
  <2>1. Portable(d) => t \in DOMAIN d.targets
    BY DEF Places
  <2>2. SameEnvironment(Environment(m, t), Environment(new, t), new)
    BY <1>3, <1>4, <1>6, <2>1, WrittenEnvironment
  <2>3. Environment(new, t).named = env.named /\ \A b \in Lists : Environment(new, t).lists[b] = env.lists[b]
    <3>1. CASE Portable(d) /\ t # e
      BY <1>2, <1>3, <1>9, <2>1, <3>1, OthersKeep
    <3>2. CASE Portable(d) /\ t = e
      BY <1>3, <1>8, <1>9, <3>2
    <3>3. CASE ~Portable(d)
      <4>1. Environment(new, t) = Environment(new, e) /\ Environment(d, t) = Environment(d, e)
        BY <1>4, <3>3 DEF Environment
      <4> QED BY <1>3, <1>8, <1>9, <3>3, <4>1
    <3> QED BY <3>1, <3>2, <3>3
  <2>4. \A b \in Lists : Inexpressible(new, Environment(new, t), b) => Inexpressible(d, env, b)
    BY <1>4, <2>3 DEF Inexpressible
  <2> QED BY <2>2, <2>3, <2>4 DEF SameEnvironment
<1>10. SUFFICES ASSUME l.end = "done", NEW t \in Places(d)
       PROVE  LET env == IF Portable(d) /\ t # l.target THEN Environment(d, t) ELSE Wanted(Environment(d, t), l)
              IN /\ Environment(spec', t).named = env.named
                 /\ \A b \in Lists : Environment(spec', t).lists[b] = env.lists[b] \/ Inexpressible(d, env, b)
  BY <1>1, <1>7 DEF EditSays
<1>11. spec' = m
  BY <1>8, <1>10
<1> QED BY <1>8, <1>9, <1>11

\* Of a legacy document it is never refused.
LEMMA LegacyTaken ==
    ASSUME Readable(spec), NEW e, NEW new, NEW r, EditOf(e, new, r)
    PROVE  LegacyEditTaken
<1> SUFFICES ASSUME spec # NoSpec, ~Portable(spec) PROVE last'.end # "refused"
  BY DEF LegacyEditTaken
<1>1. IsDocument(spec) /\ Valid(spec) /\ Has(spec, e) /\ Asked(spec, e, new, r)
  BY DEF Readable, EditOf, ReadOrNew
<1>2. Valid(Rewritten(spec, new))
  BY <1>1, LegacyWritten
<1>3. last'.end = "done"
  BY <1>2, EditEnds
<1> QED BY <1>3

\* A package is added without touching anything else.
LEMMA AddKeeps ==
    ASSUME Readable(spec), NEW e, NEW new, NEW r, EditOf(e, new, r)
    PROVE  TextKept
<1> SUFFICES ASSUME spec # NoSpec, last'.cmd = "add", last'.end = "done"
             PROVE  /\ spec'.schema = spec.schema
                    /\ WithoutPackages(spec'.top) = WithoutPackages(spec.top)
                    /\ WithoutPackages(spec'.defaults) = WithoutPackages(spec.defaults)
                    /\ \A t \in DOMAIN spec.targets : WithoutPackages(spec'.targets[t]) = WithoutPackages(spec.targets[t])
  BY DEF TextKept
<1>1. IsDocument(spec) /\ Valid(spec) /\ Has(spec, e) /\ Asked(spec, e, new, r) /\ IsDocument(new)
  BY DEF Readable, EditOf, ReadOrNew
<1>2. r.cmd = "add" /\ spec' = Rewritten(spec, new)
  BY EditEnds
<1>3. AskedAdd(spec, e, new, r)
  <2>1. AskedRemove(spec, e, new, r) => r.cmd = "remove"
    BY <1>1, RemovedDoes
  <2>2. AskedSet(spec, e, new, r) => r.cmd = "set"
    BY <1>1, SetDoes
  <2>3. AskedUnset(spec, e, new, r) => r.cmd = "unset"
    BY <1>1, UnsetDoes
  <2> QED BY <1>1, <1>2, <2>1, <2>2, <2>3 DEF Asked
<1>4. /\ CanRewriteInPlace(spec, new) /\ new.schema = spec.schema
      /\ WithoutPackages(InPlace(spec, new).top) = WithoutPackages(spec.top)
      /\ WithoutPackages(InPlace(spec, new).defaults) = WithoutPackages(spec.defaults)
      /\ \A u \in DOMAIN spec.targets : WithoutPackages(InPlace(spec, new).targets[u]) = WithoutPackages(spec.targets[u])
  BY <1>1, <1>3, AddedWritten
<1>5. spec' = InPlace(spec, new)
  BY <1>2, <1>4 DEF Rewritten
<1>6. DOMAIN spec.targets = DOMAIN new.targets
  BY <1>4 DEF CanRewriteInPlace, SameNonPackageState
<1>7. InPlace(spec, new).schema = spec.schema
  BY <1>1, <1>6, InPlaceIs
<1> QED BY <1>4, <1>5, <1>7

\* A migration of a legacy document is written, and says of every target what the
\* predicates said.
LEMMA MigrationFaithful ==
    ASSUME Readable(spec), Migrate
    PROVE  HostsKept /\ MigrateTaken
<1> SUFFICES ASSUME spec # NoSpec, ~Portable(spec)
             PROVE  /\ last'.end = "done"
                    /\ \A t \in DOMAIN spec'.targets :
                           MergeTarget(spec', t) = WithoutHosts(FilterForHost(spec, Known(t)))
  BY DEF HostsKept, MigrateTaken, MigratedNow, Known
<1>1. /\ Write(ToV8(spec), Request("migrate", "", "", "", ""))
      /\ TargetsOf(UNION HostsOf(spec)) \subseteq KnownTargets /\ IsDocument(spec) /\ Valid(spec)
  BY MigrateIs DEF Readable
<1>2. PICK m : m = Marshalled(ToV8(spec))
  OBVIOUS
<1>3. Rewritten(spec, ToV8(spec)) = m /\ Valid(m)
  BY <1>1, <1>2, MigratedValid
<1>4. spec' = m /\ last'.end = "done"
  BY <1>1, <1>3 DEF Write, Ends, Request
<1>5. DOMAIN m.targets = ObservedTargets(spec)
  BY <1>1, <1>2, MarshalledV8
<1>6. \A t \in ObservedTargets(spec) : MergeTarget(m, t) = WithoutHosts(FilterForHost(spec, Known(t)))
  BY <1>1, <1>2, MigratedSays
<1> QED BY <1>4, <1>5, <1>6

-----------------------------------------------------------------------------
(* The theorems.                                                           *)

\* genv.json and a profile, when they are there, are documents of this program that
\* can be read, and a snapshot has beside it what it names, after every command,
\* fault and edit by hand (genvfile.writeValidated, export.BuildWithOptions).
THEOREM SpecLifeInvariance == Spec => []SpecInv
<1> QED BY SpecInvInit, SpecInvNext, PTL DEF Spec

\* What a user asks of genv.json is what it says afterwards, to the target that was
\* named and to no other, however it is written back; a legacy document takes every
\* edit, and an added package leaves the rest of the text alone (internal/commands,
\* genvfile.Write).
THEOREM EditsAreFaithful == Spec => EditIsFaithful
<1>1. SpecInv => SpecReadable
  BY DEF SpecInv, Readable, SpecReadable
<1>2. SpecInv /\ [Next]_vars => EditSays /\ LegacyEditTaken /\ TextKept
  <2> SUFFICES ASSUME SpecInv, [Next]_vars PROVE EditSays /\ LegacyEditTaken /\ TextKept
    OBVIOUS
  <2>1. Readable(spec)
    BY DEF SpecInv
  <2>2. CASE Edit
    <3>1. PICK e, new, r : EditOf(e, new, r)
      BY <2>1, <2>2, EditIs
    <3> QED BY <2>1, <3>1, EditFaithful, LegacyTaken, AddKeeps
  <2>3. CASE Migrate
    <3>1. last'.cmd = "migrate"
      BY <2>1, <2>3, MigrateIs
    <3> QED BY <3>1 DEF EditSays, LegacyEditTaken, TextKept, Edits
  <2>4. CASE Quiet
    BY <2>4 DEF Quiet, EditSays, LegacyEditTaken, TextKept, Edits, EditEnded
  <2> QED BY <2>2, <2>3, <2>4, StepIs
<1> QED BY <1>1, <1>2, SpecLifeInvariance, PTL
        DEF Spec, EditIsFaithful, EditDoesWhatItSays, LegacyEditNeverRefused, AddKeepsTheText

\* migrate writes every legacy document whose hosts all have a target, and each of
\* them is told then what the predicates told it before (migrate.ToV8).
THEOREM MigrationsAreFaithful == Spec => MigrationIsFaithful
<1>1. SpecInv /\ [Next]_vars => HostsKept /\ MigrateTaken
  <2> SUFFICES ASSUME SpecInv, [Next]_vars PROVE HostsKept /\ MigrateTaken
    OBVIOUS
  <2>1. Readable(spec)
    BY DEF SpecInv
  <2>2. CASE Edit
    <3>1. PICK e, new, r : EditOf(e, new, r)
      BY <2>1, <2>2, EditIs
    <3>2. last'.cmd \in Edits
      BY <3>1, EditEnds
    <3> QED BY <3>2 DEF HostsKept, MigrateTaken, MigratedNow, Edits
  <2>3. CASE Migrate
    BY <2>1, <2>3, MigrationFaithful
  <2>4. CASE Quiet
    BY <2>4 DEF Quiet, HostsKept, MigrateTaken, MigratedNow
  <2> QED BY <2>2, <2>3, <2>4, StepIs
<1> QED BY <1>1, SpecLifeInvariance, PTL
        DEF Spec, MigrationIsFaithful, MigrateKeepsEveryHost, MigrateNeverRefused

\* However an export ends, the snapshot that is there names only files that are
\* beside it, and says what the document said of the target but for what is secret
\* (export.BuildWithOptions, bundleFromFlat).
THEOREM SnapshotsAreFaithful == Spec => []SnapshotIsFaithful
<1>1. SpecInv => SnapshotIsFaithful
  BY SaidOfOut DEF SpecInv, ExportInv, SnapshotIsFaithful
<1> QED BY <1>1, SpecLifeInvariance, PTL

\* A profile laid over a legacy document makes one that can be written and read, and
\* has the last word on every machine about which the two agree (profile.Merge).
THEOREM ProfilesAreOverlays == Spec => []ProfileIsAnOverlay
<1>1. SpecInv => MergedIsReadable
  BY MergedValid DEF SpecInv, Readable, MergedIsReadable, Merged
<1>2. SpecInv => ProfileOverlays
  BY Overlays DEF SpecInv, Readable
<1>3. SpecInv => ProfileIsAnOverlay
  BY <1>1, <1>2 DEF ProfileIsAnOverlay
<1> QED BY <1>3, SpecLifeInvariance, PTL
=============================================================================
