----------------------------- MODULE LockMutex -----------------------------
(***************************************************************************)
(* The cross-process mutex that serialises every genv command that rewrites*)
(* genv.lock.json: internal/genvfile/lockmutex.go.  The mutex is an flock  *)
(* on a sidecar file, <lock>.mutex, which the releasing process removes.   *)
(* Because the path can be unlinked and created again while others wait on *)
(* the old inode, a waiter that wins the flock checks that the path still  *)
(* names the inode it locked, and starts over if it does not.              *)
(*                                                                         *)
(* One process makes one call at a time (the callers are one-shot CLI      *)
(* commands).  Inodes are recycled once nothing names them or has them     *)
(* open, as a file system does, so the state space is finite.              *)
(***************************************************************************)
EXTENDS Naturals, FiniteSets

CONSTANTS
  Procs,     \* the processes that call LockMutation
  Inodes,    \* inode numbers the file system can hand out
  NoInode,   \* "the path names nothing" / "no file is open"
  MaxFailures  \* bound on crashes and failed system calls

ASSUME NoInodeAssumption == NoInode \notin Inodes
ASSUME MaxFailuresAssumption == MaxFailures \in Nat

VARIABLES
  unix,    \* TRUE: the unix build of genv; FALSE: the windows build
  path,    \* the inode the sidecar path names, or NoInode
  fd,      \* fd[p]: the inode p has open, or NoInode
  locked,  \* the processes whose open file holds the exclusive flock
  pc,      \* pc[p]: where p is in LockMutation / releaseMutex
  faults   \* crashes and failed calls so far

lockVars == <<unix, path, fd, locked, pc, faults>>

Labels == {"idle", "open", "flock", "stat", "stale", "staleClose",
           "held", "unlock", "close", "remove"}

\* The labels at which the process has the sidecar open, and those at which
\* its open file carries the flock.
OpenLabels   == {"flock", "stat", "stale", "staleClose", "held", "unlock", "close"}
LockedLabels == {"stat", "stale", "held", "unlock"}

\* The labels between the call and its return.
WaitingLabels == {"open", "flock", "stat", "stale", "staleClose"}

(***************************************************************************)
(* Type invariant.  Every descriptor is accounted for: a process has the   *)
(* sidecar open exactly between its OpenFile and its Close, and its flock  *)
(* is live exactly between Flock and the unlock.                           *)
(***************************************************************************)
TypeOK ==
  /\ unix \in BOOLEAN
  /\ path \in Inodes \cup {NoInode}
  /\ fd \in [Procs -> Inodes \cup {NoInode}]
  /\ pc \in [Procs -> Labels]
  /\ faults \in Nat
  /\ \A p \in Procs : (fd[p] # NoInode) <=> (pc[p] \in OpenLabels)
  /\ locked = {p \in Procs : pc[p] \in LockedLabels}

LockInit ==
  /\ unix \in BOOLEAN
  /\ path = NoInode
  /\ fd = [p \in Procs |-> NoInode]
  /\ locked = {}
  /\ pc = [p \in Procs |-> "idle"]
  /\ faults = 0

Goto(p, label) == pc' = [pc EXCEPT ![p] = label]

\* An inode the file system may give to a file it creates: no path names it
\* and no process still has it open.
Free(i) == i # path /\ \A q \in Procs : fd[q] # i

-----------------------------------------------------------------------------
(* LockMutation and acquireMutex.                                          *)

Call(p) ==
  /\ pc[p] = "idle"
  /\ Goto(p, "open")
  /\ UNCHANGED <<unix, path, fd, locked, faults>>

\* os.OpenFile(mutexPath, O_CREATE|O_RDWR)
OpenFile(p) ==
  /\ pc[p] = "open"
  /\ \/ /\ path # NoInode
        /\ path' = path
     \/ /\ path = NoInode
        /\ \E i \in Inodes : Free(i) /\ path' = i
  /\ fd' = [fd EXCEPT ![p] = path']
  /\ Goto(p, "flock")
  /\ UNCHANGED <<unix, locked, faults>>

\* flockExclusive blocks until no other open file holds this inode's lock.
FlockExclusive(p) ==
  /\ pc[p] = "flock"
  /\ \A q \in locked : fd[q] # fd[p]
  /\ locked' = locked \cup {p}
  /\ Goto(p, "stat")
  /\ UNCHANGED <<unix, path, fd, faults>>

\* Mutant: the inode check is dropped.
SameFileUnchecked(p) ==
  /\ pc[p] = "stat"
  /\ Goto(p, "held")
  /\ UNCHANGED <<unix, path, fd, locked, faults>>

\* f.Stat, os.Stat(mutexPath) and os.SameFile: the path must name what p locked.
SameFile(p) ==
  /\ pc[p] = "stat"
  /\ Goto(p, IF path = fd[p] THEN "held" ELSE "stale")
  /\ UNCHANGED <<unix, path, fd, locked, faults>>

\* Mutant: the retry locks the inode it already has again.
StaleUnlockReuse(p) ==
  /\ pc[p] = "stale"
  /\ locked' = locked \ {p}
  /\ Goto(p, "flock")
  /\ UNCHANGED <<unix, path, fd, faults>>

\* The retry: unlock, close, go round the loop.
StaleUnlock(p) ==
  /\ pc[p] = "stale"
  /\ locked' = locked \ {p}
  /\ Goto(p, "staleClose")
  /\ UNCHANGED <<unix, path, fd, faults>>

\* Mutant: the retry leaks the descriptor.
StaleCloseLeak(p) ==
  /\ pc[p] = "staleClose"
  /\ Goto(p, "open")
  /\ UNCHANGED <<unix, path, fd, locked, faults>>

StaleClose(p) ==
  /\ pc[p] = "staleClose"
  /\ fd' = [fd EXCEPT ![p] = NoInode]
  /\ Goto(p, "open")
  /\ UNCHANGED <<unix, path, locked, faults>>

-----------------------------------------------------------------------------
(* releaseMutex.  Unix: remove, unlock, close.  Windows: unlock, close,    *)
(* remove, because an open file cannot be removed there.                   *)

\* Mutant: the sidecar is not removed.
UnlinkSkipped(p) ==
  /\ unix
  /\ pc[p] = "held"
  /\ Goto(p, "unlock")
  /\ UNCHANGED <<unix, path, fd, locked, faults>>

Unlink(p) ==
  /\ unix
  /\ pc[p] = "held"
  /\ path' = NoInode
  /\ Goto(p, "unlock")
  /\ UNCHANGED <<unix, fd, locked, faults>>

Unlock(p) ==
  /\ pc[p] = IF unix THEN "unlock" ELSE "held"
  /\ locked' = locked \ {p}
  /\ Goto(p, "close")
  /\ UNCHANGED <<unix, path, fd, faults>>

Close(p) ==
  /\ pc[p] = "close"
  /\ fd' = [fd EXCEPT ![p] = NoInode]
  /\ Goto(p, IF unix THEN "idle" ELSE "remove")
  /\ UNCHANGED <<unix, path, locked, faults>>

\* Mutant: another process may have the file open.
RemoveShared(p) ==
  /\ pc[p] = "remove"
  /\ path' = NoInode
  /\ Goto(p, "idle")
  /\ UNCHANGED <<unix, fd, locked, faults>>

\* Mutant: the sidecar stays.
RemoveSkipped(p) ==
  /\ pc[p] = "remove"
  /\ Goto(p, "idle")
  /\ UNCHANGED <<unix, path, fd, locked, faults>>

\* The windows os.RemoveSidecar is ignored when it fails, and it fails while any
\* process has the file open (Go opens without FILE_SHARE_DELETE).
RemoveSidecar(p) ==
  /\ pc[p] = "remove"
  /\ path' = IF \E q \in Procs : fd[q] = path THEN path ELSE NoInode
  /\ Goto(p, "idle")
  /\ UNCHANGED <<unix, fd, locked, faults>>

-----------------------------------------------------------------------------
(* Faults.                                                                 *)

Fault == faults < MaxFailures /\ faults' = faults + 1

\* OpenFile, Flock or f.Stat returned an error: what was opened is closed
\* (which drops the flock) and LockMutation returns the error.
CallFails(p) ==
  /\ Fault
  /\ pc[p] \in {"open", "flock", "stat"}
  /\ fd' = [fd EXCEPT ![p] = NoInode]
  /\ locked' = locked \ {p}
  /\ Goto(p, "idle")
  /\ UNCHANGED <<unix, path>>

\* os.Stat(mutexPath) failed for a reason other than the file being gone.
StatFails(p) ==
  /\ Fault
  /\ pc[p] = "stat"
  /\ Goto(p, "stale")
  /\ UNCHANGED <<unix, path, fd, locked>>

\* The process dies.  The kernel closes its files, which drops the flock; the
\* sidecar stays on disk.
Crash(p) ==
  /\ Fault
  /\ pc[p] # "idle"
  /\ fd' = [fd EXCEPT ![p] = NoInode]
  /\ locked' = locked \ {p}
  /\ Goto(p, "idle")
  /\ UNCHANGED <<unix, path>>

-----------------------------------------------------------------------------
\* The steps a running process takes by itself once it has called.
Step(p) ==
  \/ OpenFile(p) \/ FlockExclusive(p) \/ SameFile(p)
  \/ StaleUnlock(p) \/ StaleClose(p)
  \/ Unlink(p) \/ Unlock(p) \/ Close(p) \/ RemoveSidecar(p)

LockNext == \E p \in Procs :
  Call(p) \/ Step(p) \/ CallFails(p) \/ StatFails(p) \/ Crash(p)

LockSpec == LockInit /\ [][LockNext]_lockVars

\* The operating system runs every process that can run, and a holder finishes
\* its command: weak fairness of each process's own steps.  Nothing is assumed
\* of which waiter an flock wakes, of new calls, or of faults.
FairSpec == LockSpec /\ \A p \in Procs : WF_lockVars(Step(p))

-----------------------------------------------------------------------------
(* Properties.                                                             *)

\* lockmutex.go:10 "acquires an exclusive cross-process lock": at most one
\* process is between LockMutation's return and the call of unlock, whatever
\* was unlinked, re-created or left behind by a crash in the meantime.
MutualExclusion ==
  \A p, q \in Procs : (pc[p] = "held" /\ pc[q] = "held") => p = q

\* lockmutex.go:11 "releases it and removes the sidecar mutex file": when no
\* call failed and nobody crashed, a moment with no caller has no sidecar,
\* however the callers' opens, retries and removals interleaved.
NoLeftoverSidecar ==
  (faults = 0 /\ \A p \in Procs : pc[p] = "idle") => path = NoInode

Waiting(p) == pc[p] \in WaitingLabels

\* While anyone waits, somebody gets the mutex again (or every waiter was itself
\* killed or refused): a crashed holder, a leftover sidecar or a run of stale
\* inodes never wedges genv.  It is deadlock freedom: flock promises no order,
\* so one waiter may be overtaken for ever.
Progress ==
  (\E p \in Procs : Waiting(p))
    ~> ((\E p \in Procs : pc[p] = "held") \/ (\A p \in Procs : ~Waiting(p)))

-----------------------------------------------------------------------------
(* LockMutex implements the abstract mutex.                                *)

PhaseOf(label) ==
  IF label = "held" THEN "holding"
  ELSE IF label \in WaitingLabels THEN "waiting"
  ELSE "idle"

Abstract == INSTANCE Mutex WITH phase <- [p \in Procs |-> PhaseOf(pc[p])]

\* Every behaviour of the sidecar file is a behaviour of the abstract mutex:
\* a caller is let in only when nobody is inside (lockmutex.go:31-57).
RefinesMutex == Abstract!Spec

=============================================================================
