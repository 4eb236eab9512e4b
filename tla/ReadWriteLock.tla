--------------------------- MODULE ReadWriteLock ---------------------------
(***************************************************************************)
(* What OArtifactLock promises the compiler processes                      *)
(* (src/compiler/utils/artifact_lock.h): a shared or an exclusive hold of  *)
(* one artifact path, given up on Unlock and when the process dies.        *)
(***************************************************************************)
CONSTANT Processes

VARIABLES shared,      (* the processes that hold the artifact SHARED      *)
          exclusive    (* the processes that hold it EXCLUSIVE             *)

Init == shared = {} /\ exclusive = {}

LockShared(p) ==
  /\ exclusive = {} /\ p \notin shared
  /\ shared' = shared \cup {p}
  /\ UNCHANGED exclusive

LockExclusive(p) ==
  /\ exclusive = {} /\ shared = {}
  /\ exclusive' = {p}
  /\ UNCHANGED shared

Unlock(p) ==
  /\ p \in shared \cup exclusive
  /\ shared' = shared \ {p}
  /\ exclusive' = exclusive \ {p}

Next == \E p \in Processes : LockShared(p) \/ LockExclusive(p) \/ Unlock(p)

Spec == Init /\ [][Next]_<<shared, exclusive>>
=============================================================================
