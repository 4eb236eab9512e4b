---------------------------- MODULE ArtifactLock ----------------------------
(***************************************************************************)
(* OArtifactLock on a POSIX host (src/compiler/utils/artifact_lock.cpp):   *)
(* the lock of an artifact is an flock on a file beside it, and the holder *)
(* unlinks that file when it unlocks.  A process may therefore hold the    *)
(* flock of a file whose name is gone, or is the name of another file; the *)
(* comparison of the inodes after the flock is what tells it so.           *)
(*                                                                         *)
(* pc of a process: idle, flock (has the file open), verify (has the       *)
(* flock), hold, remove (the path is to be unlinked), release.             *)
(***************************************************************************)
CONSTANTS Processes,
          Inodes,            (* the files the file system can create       *)
          NoInode

ASSUME LockAssumption == NoInode \notin Inodes

VARIABLES path,      (* the inode lock_path names                          *)
          fd,        (* the inode each process has open                    *)
          flock,     (* what each process has locked it for                *)
          mode,      (* what each process asked for                        *)
          pc,
          abandoned  (* history: the files a process had open as it died   *)

vars == <<path, fd, flock, mode, pc, abandoned>>

Modes == {"SHARED", "EXCLUSIVE"}

Init ==
  /\ path  = NoInode
  /\ fd    = [p \in Processes |-> NoInode]
  /\ flock = [p \in Processes |-> "none"]
  /\ mode  = [p \in Processes |-> "SHARED"]
  /\ pc    = [p \in Processes |-> "idle"]
  /\ abandoned = {}

Step(p, from, to) == pc[p] = from /\ pc' = [pc EXCEPT ![p] = to]

(* The processes whose flock of p's file is in the way of a new one.       *)
Conflicts(p, m) ==
  {q \in Processes \ {p} : /\ fd[q] = fd[p]
                           /\ flock[q] # "none"
                           /\ "EXCLUSIVE" \in {m, flock[q]}}

Unused == {i \in Inodes : i # path /\ \A p \in Processes : fd[p] # i}

-----------------------------------------------------------------------------
(* open(lock_path, O_CREAT): creates the file if the name is free.         *)
Open(p) ==
  \/ /\ path # NoInode
     /\ fd' = [fd EXCEPT ![p] = path]
     /\ UNCHANGED <<path, abandoned>>
  \/ /\ path = NoInode
     /\ \E i \in Unused : /\ path' = i
                          /\ fd' = [fd EXCEPT ![p] = i]
                          /\ abandoned' = abandoned \ {i}

Lock(p) ==
  /\ Step(p, "idle", "flock")
  /\ \E m \in Modes : mode' = [mode EXCEPT ![p] = m]
  /\ Open(p)
  /\ UNCHANGED flock

(* flock blocks while another process has the file locked against it.      *)
Flock(p) ==
  /\ Step(p, "flock", "verify")
  /\ Conflicts(p, mode[p]) = {}
  /\ flock' = [flock EXCEPT ![p] = mode[p]]
  /\ UNCHANGED <<path, fd, mode, abandoned>>

(* Mutant: the lock is trusted without comparing the inodes.               *)
VerifyNothing(p) ==
  /\ Step(p, "verify", "hold")
  /\ UNCHANGED <<path, fd, flock, mode, abandoned>>

(* same_path                                                               *)
Verify(p) ==
  /\ path = fd[p]
  /\ Step(p, "verify", "hold")
  /\ UNCHANGED <<path, fd, flock, mode, abandoned>>

(* Mutant: the loop tries the flock again on the file it has open.         *)
StaleKeepsFile(p) ==
  /\ path # fd[p]
  /\ Step(p, "verify", "flock")
  /\ flock' = [flock EXCEPT ![p] = "none"]
  /\ UNCHANGED <<path, fd, mode, abandoned>>

(* Not same_path: LOCK_UN, close, and around the loop again.               *)
Stale(p) ==
  /\ path # fd[p]
  /\ Step(p, "verify", "reopen")
  /\ flock' = [flock EXCEPT ![p] = "none"]
  /\ fd' = [fd EXCEPT ![p] = NoInode]
  /\ UNCHANGED <<path, mode, abandoned>>

Reopen(p) ==
  /\ Step(p, "reopen", "flock")
  /\ Open(p)
  /\ UNCHANGED <<flock, mode>>

-----------------------------------------------------------------------------
(* Unlock of an exclusive lock.                                            *)
UnlockExclusive(p) ==
  /\ flock[p] = "EXCLUSIVE"
  /\ Step(p, "hold", "remove")
  /\ UNCHANGED <<path, fd, flock, mode, abandoned>>

(* Mutant: a shared holder unlinks the file without the conversion.        *)
ConvertAlways(p) ==
  /\ flock[p] = "SHARED"
  /\ Step(p, "hold", "remove")
  /\ UNCHANGED <<path, fd, flock, mode, abandoned>>

(* Mutant: a shared holder never unlinks the file.                         *)
ConvertNever(p) ==
  /\ flock[p] = "SHARED"
  /\ Step(p, "hold", "release")
  /\ UNCHANGED <<path, fd, flock, mode, abandoned>>

(* Unlock of a shared lock: flock(LOCK_EX | LOCK_NB) trades it for an      *)
(* exclusive one, or loses it if anybody else has the file locked.         *)
Convert(p) ==
  /\ flock[p] = "SHARED"
  /\ \/ /\ Conflicts(p, "EXCLUSIVE") = {}
        /\ Step(p, "hold", "remove")
        /\ flock' = [flock EXCEPT ![p] = "EXCLUSIVE"]
     \/ /\ Conflicts(p, "EXCLUSIVE") # {}
        /\ Step(p, "hold", "release")
        /\ flock' = [flock EXCEPT ![p] = "none"]
  /\ UNCHANGED <<path, fd, mode, abandoned>>

(* ArtifactRemoveNoError(lock_path): unlinks whatever the name stands for. *)
Remove(p) ==
  /\ Step(p, "remove", "release")
  /\ path' = NoInode
  /\ UNCHANGED <<fd, flock, mode, abandoned>>

(* The process has nothing of the lock left: close(fd).                    *)
Close(p) ==
  /\ pc' = [pc EXCEPT ![p] = "idle"]
  /\ flock' = [flock EXCEPT ![p] = "none"]
  /\ fd' = [fd EXCEPT ![p] = NoInode]
  /\ mode' = [mode EXCEPT ![p] = "SHARED"]
  /\ UNCHANGED path

(* Mutant: Unlock unlocks the file but leaves it open.                     *)
ReleaseKeepsFile(p) ==
  /\ Step(p, "release", "idle")
  /\ flock' = [flock EXCEPT ![p] = "none"]
  /\ mode' = [mode EXCEPT ![p] = "SHARED"]
  /\ UNCHANGED <<path, fd, abandoned>>

Release(p) ==
  /\ pc[p] = "release"
  /\ Close(p)
  /\ UNCHANGED abandoned

(* The process dies: the kernel closes its files; the lock file stays.     *)
Die(p) ==
  /\ pc[p] # "idle"
  /\ Close(p)
  /\ abandoned' = abandoned \cup {fd[p]}

Locking(p)   == Flock(p) \/ Verify(p) \/ Stale(p) \/ Reopen(p)
Unlocking(p) == UnlockExclusive(p) \/ Convert(p) \/ Remove(p) \/ Release(p)

Next == \E p \in Processes : Lock(p) \/ Locking(p) \/ Unlocking(p) \/ Die(p)

Spec == Init /\ [][Next]_vars

(* A process in the locking loop is given the processor, and a flock that  *)
(* nothing stands in the way of is granted.                                *)
LiveSpec == Spec /\ \A p \in Processes : WF_vars(Locking(p))

-----------------------------------------------------------------------------
Holds(p, m) == pc[p] = "hold" /\ flock[p] = m

(* The variables keep their types, and a process that is not between open  *)
(* and close has nothing open and nothing locked.                          *)
TypeOK ==
  /\ path \in Inodes \cup {NoInode}
  /\ fd \in [Processes -> Inodes \cup {NoInode}]
  /\ flock \in [Processes -> Modes \cup {"none"}]
  /\ mode \in [Processes -> Modes]
  /\ pc \in [Processes -> {"idle", "flock", "verify", "reopen",
                           "hold", "remove", "release"}]
  /\ abandoned \subseteq Inodes \cup {NoInode}
  /\ \A p \in Processes : pc[p] \in {"idle", "reopen"}
                          => fd[p] = NoInode /\ flock[p] = "none"

(* A compiler that holds the artifact holds the file the path names, so    *)
(* whoever comes next meets its flock: nobody unlinks the name under it.   *)
HolderOwnsPath == \A p \in Processes : pc[p] = "hold" => fd[p] = path

(* Unlock leaves no lock file behind: one that exists is open in a process *)
(* that will still unlock it, unless a process died with it open.          *)
NoStrayLockFile ==
  path # NoInode =>
    \/ path \in abandoned
    \/ \E p \in Processes :
         fd[p] = path /\ pc[p] \in {"flock", "verify", "hold", "remove"}

(* The files behind the lock are invisible: it is a read-write lock.       *)
RWLock == INSTANCE ReadWriteLock WITH
            shared    <- {p \in Processes : Holds(p, "SHARED")},
            exclusive <- {p \in Processes : Holds(p, "EXCLUSIVE")}

ImplementsReadWriteLock == RWLock!Spec

(* A process left alone in Lock gets the lock: whatever files the others   *)
(* unlinked, the loop of Lock comes to an end.                             *)
LockReturns ==
  \A p \in Processes :
    <>[](\A q \in Processes \ {p} : pc[q] = "idle")
      => [](pc[p] \in {"flock", "verify", "reopen"}
             => <>(pc[p] \in {"hold", "idle"}))
============================================================================
