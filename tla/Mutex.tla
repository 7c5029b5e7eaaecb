------------------------------- MODULE Mutex -------------------------------
(***************************************************************************)
(* What LockMutation (internal/genvfile/lockmutex.go) promises its callers:*)
(* a caller asks for the lock file's mutex, waits, holds it and gives it   *)
(* back, and no two callers hold it together.  A caller may also give up   *)
(* waiting (LockMutation returned an error, or the process died); a holder *)
(* that dies gives the mutex back, because the kernel closes its files.    *)
(* LockMutex implements this specification with a sidecar file and flock.  *)
(***************************************************************************)
CONSTANT Procs

VARIABLE phase \* phase[p]: what caller p is doing with the mutex

Phases == {"idle", "waiting", "holding"}

TypeOK == phase \in [Procs -> Phases]

Init == phase = [p \in Procs |-> "idle"]

Request(p) == /\ phase[p] = "idle"
              /\ phase' = [phase EXCEPT ![p] = "waiting"]

Acquire(p) == /\ phase[p] = "waiting"
              /\ \A q \in Procs : phase[q] # "holding"
              /\ phase' = [phase EXCEPT ![p] = "holding"]

GiveUp(p) == /\ phase[p] = "waiting"
             /\ phase' = [phase EXCEPT ![p] = "idle"]

Release(p) == /\ phase[p] = "holding"
              /\ phase' = [phase EXCEPT ![p] = "idle"]

Next == \E p \in Procs : Request(p) \/ Acquire(p) \/ GiveUp(p) \/ Release(p)

Spec == Init /\ [][Next]_phase

=============================================================================
