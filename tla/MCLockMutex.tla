---------------------------- MODULE MCLockMutex ----------------------------
(* LockMutex for TLC: processes and inodes are model values.  There is no  *)
(* symmetry set, because the run checks liveness.                          *)
EXTENDS LockMutex
=============================================================================
