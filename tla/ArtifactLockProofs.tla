------------------------- MODULE ArtifactLockProofs -------------------------
(***************************************************************************)
(* For any number of processes and files, OArtifactLock is a read-write    *)
(* lock.  The argument: an flock keeps others off a file, and only a       *)
(* process with an exclusive flock on the file the path names unlinks the  *)
(* path; so the path cannot leave a holder, and all holders meet on one    *)
(* file, where their flocks exclude each other.                            *)
(***************************************************************************)
EXTENDS ArtifactLock, TLAPS

(* The kernel's guarantee: an exclusive flock is the file's only one.      *)
FlocksAgree ==
  \A p, q \in Processes :
    p # q /\ fd[p] = fd[q] /\ flock[p] = "EXCLUSIVE" => flock[q] = "none"

(* A process that compared the inodes, up to its own unlink of the path,   *)
(* has the named file open and locked.                                     *)
OwnsPath(p) ==
  /\ fd[p] = path
  /\ fd[p] \in Inodes
  /\ flock[p] # "none"
  /\ pc[p] = "remove" => flock[p] = "EXCLUSIVE"

PathOwned == \A p \in Processes : pc[p] \in {"hold", "remove"} => OwnsPath(p)

(* A process without a lock has none, and one that has a lock has a file.  *)
FlockMatchesPc ==
  \A p \in Processes :
    /\ pc[p] \in {"idle", "reopen", "flock"} => flock[p] = "none"
    /\ pc[p] \in {"flock", "verify"} => fd[p] \in Inodes
    /\ pc[p] = "verify" => flock[p] \in Modes

IInv == TypeOK /\ FlocksAgree /\ PathOwned /\ FlockMatchesPc

LEMMA InitIInv == Init => IInv
  BY DEF Init, IInv, TypeOK, FlocksAgree, PathOwned, FlockMatchesPc, Modes

(* What each step of another process does to p: p's own file, flock and    *)
(* place stay as they are.                                                 *)
LEMMA StepTypeOK ==
  ASSUME IInv, NEW p \in Processes,
         Lock(p) \/ Locking(p) \/ Unlocking(p) \/ Die(p)
  PROVE  TypeOK'
  <1> USE LockAssumption DEF IInv, TypeOK, Modes
  <1>1. CASE Lock(p)
    BY <1>1 DEF Lock, Open, Step, Unused
  <1>2. CASE Locking(p)
    BY <1>2 DEF Locking, Flock, Verify, Stale, Reopen, Open, Step, Unused
  <1>3. CASE Unlocking(p)
    BY <1>3 DEF Unlocking, UnlockExclusive, Convert, Remove, Release, Close, Step
  <1>4. CASE Die(p)
    BY <1>4 DEF Die, Close
  <1>5. QED
    BY <1>1, <1>2, <1>3, <1>4

LEMMA StepIInv ==
  ASSUME IInv, NEW p \in Processes,
         Lock(p) \/ Locking(p) \/ Unlocking(p) \/ Die(p)
  PROVE  FlocksAgree' /\ PathOwned' /\ FlockMatchesPc'
  <1> USE LockAssumption DEF IInv, TypeOK, Modes, FlocksAgree, PathOwned,
                             OwnsPath, FlockMatchesPc
  <1>1. CASE Lock(p) \/ Reopen(p)
    BY <1>1 DEF Lock, Reopen, Open, Step, Unused
  <1>2. CASE Flock(p)
    BY <1>2 DEF Flock, Step, Conflicts
  <1>3. CASE Verify(p)
    BY <1>3 DEF Verify, Step
  <1>4. CASE Stale(p)
    BY <1>4 DEF Stale, Step
  <1>5. CASE UnlockExclusive(p)
    BY <1>5 DEF UnlockExclusive, Step
  <1>6. CASE Convert(p)
    BY <1>6 DEF Convert, Conflicts, Step
  <1>7. CASE Remove(p)
    BY <1>7 DEF Remove, Step
  <1>8. CASE Release(p) \/ Die(p)
    BY <1>8 DEF Release, Die, Close
  <1>9. QED
    BY <1>1, <1>2, <1>3, <1>4, <1>5, <1>6, <1>7, <1>8 DEF Locking, Unlocking

LEMMA IInvHolds == Spec => []IInv
  <1>1. IInv /\ [Next]_vars => IInv'
    <2> SUFFICES ASSUME IInv, [Next]_vars PROVE IInv'
      OBVIOUS
    <2>1. CASE Next
      BY <2>1, StepTypeOK, StepIInv DEF Next, IInv
    <2>2. CASE UNCHANGED vars
      BY <2>2 DEF vars, IInv, TypeOK, FlocksAgree, PathOwned, OwnsPath,
                  FlockMatchesPc
    <2>3. QED
      BY <2>1, <2>2
  <1>2. QED
    BY <1>1, InitIInv, PTL DEF Spec

(* The variables keep their types, and a process that is not between open  *)
(* and close has nothing open and nothing locked.                          *)
THEOREM TypeCorrect == Spec => []TypeOK
  <1>1. IInv => TypeOK
    BY DEF IInv
  <1>2. QED
    BY <1>1, IInvHolds, PTL

(* Nobody unlinks the lock file of an artifact under a compiler that holds *)
(* it: same_path stays true from Lock to Unlock.                           *)
THEOREM HolderCorrect == Spec => []HolderOwnsPath
  <1>1. IInv => HolderOwnsPath
    BY DEF IInv, PathOwned, OwnsPath, HolderOwnsPath
  <1>2. QED
    BY <1>1, IInvHolds, PTL
-----------------------------------------------------------------------------
(* A process that has unlinked the file and still has its flock has a file *)
(* without a name: the name is free, or stands for a newer file.           *)
UnlinkedIsNameless ==
  \A p \in Processes : pc[p] = "release" /\ flock[p] # "none" => fd[p] \in Inodes /\ fd[p] # path

StrayInv == IInv /\ UnlinkedIsNameless /\ NoStrayLockFile

(* The one that gives up a shared lock in favour of others leaves the file *)
(* to them: one of them has it locked, and has not unlinked it.            *)
LEMMA OthersRemain ==
  ASSUME StrayInv, NEW p \in Processes, pc[p] = "hold", Conflicts(p, "EXCLUSIVE") # {}
  PROVE  \E q \in Processes \ {p} : fd[q] = path /\ pc[q] \in {"flock", "verify", "hold", "remove"}
  <1> USE DEF StrayInv, IInv
  <1>1. PICK q \in Processes \ {p} : fd[q] = fd[p] /\ flock[q] # "none"
    BY DEF Conflicts
  <1>2. fd[q] = path
    BY <1>1 DEF PathOwned, OwnsPath
  <1>3. pc[q] \notin {"idle", "reopen", "flock", "release"}
    BY <1>1, <1>2 DEF FlockMatchesPc, UnlinkedIsNameless
  <1>4. QED
    BY <1>1, <1>2, <1>3 DEF TypeOK

LEMMA StepNameless ==
  ASSUME StrayInv, NEW p \in Processes,
         Lock(p) \/ Locking(p) \/ Unlocking(p) \/ Die(p)
  PROVE  UnlinkedIsNameless'
  <1> USE LockAssumption DEF StrayInv, IInv, TypeOK, Modes, UnlinkedIsNameless
  <1>1. CASE Lock(p) \/ Reopen(p)
    BY <1>1 DEF Lock, Reopen, Open, Step, Unused
  <1>2. CASE Flock(p) \/ Verify(p) \/ Stale(p)
    BY <1>2 DEF Flock, Verify, Stale, Step
  <1>3. CASE UnlockExclusive(p) \/ Convert(p)
    BY <1>3 DEF UnlockExclusive, Convert, Step
  <1>4. CASE Remove(p)
    BY <1>4 DEF Remove, Step, PathOwned, OwnsPath
  <1>5. CASE Release(p) \/ Die(p)
    BY <1>5 DEF Release, Die, Close
  <1>6. QED
    BY <1>1, <1>2, <1>3, <1>4, <1>5 DEF Locking, Unlocking

LEMMA StepNoStray ==
  ASSUME StrayInv, NEW p \in Processes,
         Lock(p) \/ Locking(p) \/ Unlocking(p) \/ Die(p)
  PROVE  NoStrayLockFile'
  <1> USE LockAssumption DEF StrayInv, IInv, TypeOK, NoStrayLockFile
  <1>1. CASE Lock(p) \/ Reopen(p)
    <2>1. path' = fd'[p] /\ pc'[p] = "flock"
      BY <1>1 DEF Lock, Reopen, Open, Step
    <2>2. QED
      BY <2>1
  <1>2. CASE Flock(p) \/ Verify(p) \/ Stale(p)
    BY <1>2 DEF Flock, Verify, Stale, Step
  <1>3. CASE UnlockExclusive(p)
    BY <1>3 DEF UnlockExclusive, Step
  <1>4. CASE Convert(p)
    <2>1. CASE Conflicts(p, "EXCLUSIVE") = {}
      BY <1>4, <2>1 DEF Convert, Step
    <2>2. CASE Conflicts(p, "EXCLUSIVE") # {}
      <3>1. PICK q \in Processes \ {p} :
              fd[q] = path /\ pc[q] \in {"flock", "verify", "hold", "remove"}
        BY <1>4, <2>2, OthersRemain DEF Convert, Step
      <3>2. fd' = fd /\ path' = path /\ pc'[q] = pc[q]
        BY <1>4 DEF Convert, Step
      <3>3. QED
        BY <3>1, <3>2
    <2>3. QED
      BY <2>1, <2>2
  <1>5. CASE Remove(p)
    BY <1>5 DEF Remove
  <1>6. CASE Release(p) \/ Die(p)
    BY <1>6 DEF Release, Die, Close
  <1>7. QED
    BY <1>1, <1>2, <1>3, <1>4, <1>5, <1>6 DEF Locking, Unlocking

(* However the compilers that used an artifact shared it, only a compiler  *)
(* that died leaves its lock file behind (Unlock).                         *)
THEOREM NoFileLeft == Spec => []NoStrayLockFile
  <1>1. Init => StrayInv
    BY InitIInv DEF Init, StrayInv, UnlinkedIsNameless, NoStrayLockFile
  <1>2. IInv /\ IInv' /\ StrayInv /\ [Next]_vars => StrayInv'
    <2> SUFFICES ASSUME IInv', StrayInv, [Next]_vars PROVE StrayInv'
      OBVIOUS
    <2>1. CASE Next
      BY <2>1, StepNameless, StepNoStray DEF Next, StrayInv
    <2>2. CASE UNCHANGED vars
      BY <2>2 DEF vars, StrayInv, UnlinkedIsNameless, NoStrayLockFile
    <2>3. QED
      BY <2>1, <2>2
  <1>3. StrayInv => NoStrayLockFile
    BY DEF StrayInv
  <1>4. QED
    BY <1>1, <1>2, <1>3, IInvHolds, PTL DEF Spec
-----------------------------------------------------------------------------
(* What the lock looks like from outside.                                  *)
Shared    == {p \in Processes : Holds(p, "SHARED")}
Exclusive == {p \in Processes : Holds(p, "EXCLUSIVE")}

(* Every holder has the same file open, so an exclusive one is alone.      *)
LEMMA HoldersMeet ==
  ASSUME IInv, NEW p \in Processes, NEW q \in Processes, p # q,
         pc[p] = "hold", pc[q] = "hold"
  PROVE  flock[p] = "SHARED" /\ flock[q] = "SHARED"
  BY DEF IInv, TypeOK, Modes, FlocksAgree, PathOwned, OwnsPath

(* The step at which Lock returns is the abstract one.                     *)
LEMMA VerifyRefines ==
  ASSUME IInv, NEW p \in Processes, Verify(p)
  PROVE  RWLock!LockShared(p) \/ RWLock!LockExclusive(p)
  <1> USE DEF Verify, Step, Holds, Shared, Exclusive, IInv, TypeOK
  <1>1. /\ \A q \in Processes : q # p => pc'[q] = pc[q]
        /\ pc[p] = "verify" /\ pc'[p] = "hold"
        /\ flock' = flock
    OBVIOUS
  <1>2. \A q \in Processes \ {p} : pc[q] = "hold" =>
          /\ flock[q] # "EXCLUSIVE"
          /\ flock[p] # "EXCLUSIVE"
    BY DEF FlocksAgree, PathOwned, OwnsPath, FlockMatchesPc, Modes
  <1>3. Exclusive = {}
    BY <1>1, <1>2
  <1>4. CASE flock[p] = "SHARED"
    <2>1. p \notin Shared /\ Shared' = Shared \cup {p} /\ Exclusive' = Exclusive
      BY <1>1, <1>4
    <2>2. QED
      BY <2>1, <1>3 DEF RWLock!LockShared
  <1>5. CASE flock[p] = "EXCLUSIVE"
    <2>1. Shared = {}
      BY <1>1, <1>2, <1>5
    <2>2. Shared' = Shared /\ Exclusive' = {p}
      BY <1>1, <1>3, <1>5
    <2>3. QED
      BY <2>1, <2>2, <1>3 DEF RWLock!LockExclusive
  <1>6. QED
    BY <1>1, <1>4, <1>5 DEF FlockMatchesPc, Modes

(* Unlock begins, or the process dies, while it holds the lock.            *)
LEMMA LeaveRefines ==
  ASSUME IInv, NEW p \in Processes, pc[p] = "hold",
         UnlockExclusive(p) \/ Convert(p) \/ Die(p)
  PROVE  RWLock!Unlock(p)
  <1> USE DEF Holds, Shared, Exclusive, IInv, TypeOK
  <1>1. /\ \A q \in Processes : q # p => pc'[q] = pc[q] /\ flock'[q] = flock[q]
        /\ pc'[p] # "hold"
    BY DEF UnlockExclusive, Convert, Die, Close, Step
  <1>2. Shared' = Shared \ {p} /\ Exclusive' = Exclusive \ {p}
    BY <1>1
  <1>3. p \in Shared \cup Exclusive
    BY DEF PathOwned, OwnsPath, Modes
  <1>4. QED
    BY <1>2, <1>3 DEF RWLock!Unlock

(* Every other step is invisible.                                          *)
LEMMA OtherRefines ==
  ASSUME IInv, NEW p \in Processes,
         \/ Lock(p) \/ Flock(p) \/ Stale(p) \/ Reopen(p) \/ Remove(p)
         \/ Release(p)
         \/ Die(p) /\ pc[p] # "hold"
  PROVE  Shared' = Shared /\ Exclusive' = Exclusive
  <1> USE DEF Holds, Shared, Exclusive, IInv, TypeOK
  <1>1. \A q \in Processes : q # p => pc'[q] = pc[q] /\ flock'[q] = flock[q]
    BY DEF Lock, Flock, Stale, Reopen, Remove, Release, Die, Close, Step
  <1>2. pc[p] # "hold" /\ pc'[p] # "hold"
    BY DEF Lock, Flock, Stale, Reopen, Remove, Release, Die, Close, Step
  <1>3. QED
    BY <1>1, <1>2

LEMMA StepRefines ==
  ASSUME IInv, [Next]_vars
  PROVE  [RWLock!Next]_<<Shared, Exclusive>>
  <1>1. CASE UNCHANGED vars
    BY <1>1 DEF vars, Shared, Exclusive, Holds
  <1>2. ASSUME NEW p \in Processes,
               Lock(p) \/ Locking(p) \/ Unlocking(p) \/ Die(p)
        PROVE  RWLock!Next \/ (Shared' = Shared /\ Exclusive' = Exclusive)
    <2>1. CASE Verify(p)
      BY <2>1, VerifyRefines DEF RWLock!Next
    <2>2. CASE UnlockExclusive(p) \/ Convert(p) \/ (Die(p) /\ pc[p] = "hold")
      <3>1. pc[p] = "hold"
        BY <2>2 DEF UnlockExclusive, Convert, Step
      <3>2. QED
        BY <2>2, <3>1, LeaveRefines DEF RWLock!Next
    <2>3. CASE \/ Lock(p) \/ Flock(p) \/ Stale(p) \/ Reopen(p) \/ Remove(p)
               \/ Release(p)
               \/ Die(p) /\ pc[p] # "hold"
      BY <2>3, OtherRefines
    <2>4. QED
      BY <1>2, <2>1, <2>2, <2>3 DEF Locking, Unlocking
  <1>3. QED
    BY <1>1, <1>2 DEF Next

(* An artifact is held by any number of SHARED compilers or by one         *)
(* EXCLUSIVE compiler, and only a free or shared artifact is given to the  *)
(* next, although the file that carries the lock comes and goes.           *)
THEOREM LockCorrect == Spec => ImplementsReadWriteLock
  <1>1. Init => RWLock!Init
    BY DEF Init, RWLock!Init, Holds
  <1>2. IInv /\ [Next]_vars => [RWLock!Next]_<<Shared, Exclusive>>
    BY StepRefines
  <1>3. QED
    BY <1>1, <1>2, IInvHolds, PTL
    DEF Spec, ImplementsReadWriteLock, RWLock!Spec, Shared, Exclusive
=============================================================================
