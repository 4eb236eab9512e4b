-------------------------- MODULE MsgChannelProofs --------------------------
(***************************************************************************)
(* Theorems about MsgChannel for every number of threads, capacity, range  *)
(* of the sequence number and bound on the calls.                          *)
(***************************************************************************)
EXTENDS MsgChannel, FiniteSetTheorems, SequenceTheorems, TLAPS

USE ChannelAssumption

(* A ring index stays below m_len.                                         *)
LEMMA WrapInSlots == \A i \in Slots : (i + 1) % m_len \in Slots
  BY DEF Slots, m_len

(* The sequence number stays in its range.                                 *)
LEMMA SeqInRange == \A n \in 0 .. SeqMod - 1 : (n + 1) % SeqMod \in 0 .. SeqMod - 1
  OBVIOUS

-----------------------------------------------------------------------------
(* What each step of an OThreadEvent does to each field of each event.     *)

FieldsSame(f) ==
  /\ event'[f].m_sequence = event[f].m_sequence
  /\ event'[f].m_waiters = event[f].m_waiters
  /\ event'[f].sleeping = event[f].sleeping

LEMMA EventAdd ==
  ASSUME NEW e \in Ops, Signals!EventTypeOK, Signals!SignalAdd(e)
  PROVE  /\ Signals!EventTypeOK'
         /\ \A f \in Ops \ {e} : FieldsSame(f)
         /\ event'[e].m_sequence = (event[e].m_sequence + 1) % SeqMod
         /\ event'[e].m_waiters = event[e].m_waiters
         /\ event'[e].sleeping = event[e].sleeping
  BY SeqInRange DEF Signals!EventTypeOK, Signals!SignalAdd, FieldsSame

LEMMA EventRegister ==
  ASSUME NEW e \in Ops, Signals!EventTypeOK, Signals!Register(e)
  PROVE  /\ Signals!EventTypeOK'
         /\ \A f \in Ops \ {e} : FieldsSame(f)
         /\ event'[e].m_sequence = event[e].m_sequence
         /\ event'[e].m_waiters = event[e].m_waiters + 1
         /\ event'[e].sleeping = event[e].sleeping
  BY DEF Signals!EventTypeOK, Signals!Register, FieldsSame

LEMMA EventUnregister ==
  ASSUME NEW e \in Ops, Signals!EventTypeOK, Signals!Unregister(e),
         event[e].m_waiters # 0
  PROVE  /\ Signals!EventTypeOK'
         /\ \A f \in Ops \ {e} : FieldsSame(f)
         /\ event'[e].m_sequence = event[e].m_sequence
         /\ event'[e].m_waiters = event[e].m_waiters - 1
         /\ event'[e].sleeping = event[e].sleeping
  BY DEF Signals!EventTypeOK, Signals!Unregister, FieldsSame

LEMMA EventSleep ==
  ASSUME NEW e \in Ops, NEW t \in Threads, NEW n,
         Signals!EventTypeOK, Signals!FutexSleep(e, t, n)
  PROVE  /\ Signals!EventTypeOK'
         /\ \A f \in Ops \ {e} : FieldsSame(f)
         /\ event[e].m_sequence = n
         /\ event'[e].m_sequence = event[e].m_sequence
         /\ event'[e].m_waiters = event[e].m_waiters
         /\ event'[e].sleeping = event[e].sleeping \cup {t}
  BY DEF Signals!EventTypeOK, Signals!FutexSleep, FieldsSame

LEMMA EventLeave ==
  ASSUME NEW e \in Ops, NEW t \in Threads,
         Signals!EventTypeOK, Signals!FutexLeave(e, t)
  PROVE  /\ Signals!EventTypeOK'
         /\ \A f \in Ops \ {e} : FieldsSame(f)
         /\ t \in event[e].sleeping
         /\ event'[e].m_sequence = event[e].m_sequence
         /\ event'[e].m_waiters = event[e].m_waiters
         /\ event'[e].sleeping = event[e].sleeping \ {t}
  BY DEF Signals!EventTypeOK, Signals!FutexLeave, FieldsSame

LEMMA EventWake ==
  ASSUME NEW e \in Ops, Signals!EventTypeOK, Signals!Wake(e)
  PROVE  /\ Signals!EventTypeOK'
         /\ \A f \in Ops \ {e} : FieldsSame(f)
         /\ event'[e].m_sequence = event[e].m_sequence
         /\ event'[e].m_waiters = event[e].m_waiters
         /\ \/ event[e].sleeping = {} /\ event'[e].sleeping = {}
            \/ \E t \in event[e].sleeping : event'[e].sleeping = event[e].sleeping \ {t}
  BY DEF Signals!EventTypeOK, Signals!Wake, FieldsSame

-----------------------------------------------------------------------------
(* The registered threads of each event.                                   *)

WaitPCs == {"futex", "asleep", "again", "giveup"}

LEMMA RegisteredFinite ==
  ASSUME NEW e PROVE IsFiniteSet(Registered(e)) /\ Cardinality(Registered(e)) \in Nat
  <1>1. Registered(e) \in SUBSET Threads
    BY DEF Registered
  <1>2. QED
    BY <1>1, FS_Subset, FS_CardinalityType

(* A step of thread t that neither enters nor leaves WaitUntilNanos.       *)
LEMMA RegisteredSame ==
  ASSUME NEW t \in Threads,
         \A s \in Threads \ {t} : pc'[s] = pc[s] /\ call'[s] = call[s],
         \/ pc[t] \notin WaitPCs /\ pc'[t] \notin WaitPCs
         \/ pc[t] \in WaitPCs /\ pc'[t] \in WaitPCs /\ call'[t] = call[t]
  PROVE  \A e \in Ops : Registered(e)' = Registered(e)
  BY DEF Registered, WaitPCs, Own

LEMMA RegisteredEnter ==
  ASSUME NEW t \in Threads, NEW e \in Ops, Own(t) = e,
         \A s \in Threads \ {t} : pc'[s] = pc[s],
         call' = call,
         pc[t] \notin WaitPCs, pc'[t] \in WaitPCs
  PROVE  /\ Registered(e)' = Registered(e) \cup {t}
         /\ t \notin Registered(e)
         /\ \A f \in Ops \ {e} : Registered(f)' = Registered(f)
  BY DEF Registered, WaitPCs, Own

LEMMA RegisteredLeave ==
  ASSUME NEW t \in Threads, NEW e \in Ops, Own(t) = e,
         \A s \in Threads \ {t} : pc'[s] = pc[s],
         call' = call,
         pc[t] \in WaitPCs, pc'[t] \notin WaitPCs
  PROVE  /\ Registered(e)' = Registered(e) \ {t}
         /\ t \in Registered(e)
         /\ \A f \in Ops \ {e} : Registered(f)' = Registered(f)
  BY DEF Registered, WaitPCs, Own

-----------------------------------------------------------------------------
(* Every action, as a step of one thread.                                  *)
LEMMA NextCases ==
  ASSUME [Next]_vars
  PROVE  \/ UNCHANGED vars
         \/ \E t \in Threads : \/ BeginPut(t) \/ BeginGet(t) \/ Run(t)
                                \/ Interrupt(t) \/ Expire(t)
  BY DEF Next, Finished

(* Nobody unregisters from an event without waiters.                       *)
LEMMA WaiterCounted ==
  ASSUME WaitersExact, NEW t \in Threads, Own(t) \in Ops, pc[t] \in WaitPCs
  PROVE  event[Own(t)].m_waiters # 0
  <1>1. t \in Registered(Own(t))
    BY DEF Registered, WaitPCs
  <1>2. Cardinality(Registered(Own(t))) # 0
    BY <1>1, RegisteredFinite, FS_EmptySet
  <1>3. QED
    BY <1>2 DEF WaitersExact

LEMMA TypeInit == Init => TypeOK
  BY DEF Init, TypeOK, Signals!EventInit, Signals!EventTypeOK, NoCall, Slots,
         Ops, Waits, PCs

LEMMA TypeStep ==
  ASSUME TypeOK, WaitersExact, [Next]_vars
  PROVE  TypeOK'
  <1> USE DEF TypeOK, Step, At, Go, shared, locals, bounds
  <1>1. ASSUME NEW t \in Threads, BeginPut(t) PROVE TypeOK'
    BY <1>1 DEF BeginPut, Begin, Ops, Waits, PCs, Signals!EventTypeOK
  <1>2. ASSUME NEW t \in Threads, BeginGet(t) PROVE TypeOK'
    BY <1>2 DEF BeginGet, Begin, Ops, Waits, PCs, Signals!EventTypeOK
  <1>3. ASSUME NEW t \in Threads, Run(t) PROVE TypeOK'
    <2> Own(t) \in Ops /\ Other(t) \in Ops
      BY DEF Own, Other, Ops
    <2>1. CASE TakeSnapshot(t)
      BY <2>1 DEF TakeSnapshot, PCs, Signals!EventTypeOK, Signals!Snapshot
    <2>2. CASE Lock(t)
      BY <2>2 DEF Lock, PCs, Signals!EventTypeOK
    <2>3. CASE TestPut(t)
      BY <2>3, WrapInSlots DEF TestPut, PCs, Signals!EventTypeOK
    <2>4. CASE CopyPut(t)
      BY <2>4 DEF CopyPut, PCs, Signals!EventTypeOK
    <2>5. CASE AdvancePut(t)
      BY <2>5 DEF AdvancePut, PCs, Signals!EventTypeOK
    <2>6. CASE TestGet(t)
      BY <2>6 DEF TestGet, PCs, Signals!EventTypeOK
    <2>7. CASE CopyGet(t)
      BY <2>7 DEF CopyGet, PCs, Signals!EventTypeOK
    <2>8. CASE AdvanceGet(t)
      BY <2>8, WrapInSlots DEF AdvanceGet, PCs, Signals!EventTypeOK
    <2>9. CASE Unlock(t)
      BY <2>9 DEF Unlock, PCs, Signals!EventTypeOK
    <2>10. CASE SignalAdd(t)
      BY <2>10, EventAdd DEF SignalAdd, PCs
    <2>11. CASE SignalLoad(t)
      BY <2>11 DEF SignalLoad, PCs, Signals!EventTypeOK
    <2>12. CASE SignalWake(t)
      BY <2>12, EventWake DEF SignalWake, PCs
    <2>13. CASE CheckDeadline(t)
      BY <2>13 DEF CheckDeadline, PCs, Signals!EventTypeOK
    <2>14. CASE Register(t)
      BY <2>14, EventRegister DEF Register, PCs
    <2>15. CASE FutexSleep(t)
      BY <2>15, EventSleep DEF FutexSleep, PCs
    <2>16. CASE FutexAgain(t)
      BY <2>16 DEF FutexAgain, PCs, Signals!FutexAgain, Signals!EventTypeOK
    <2>17. CASE Woken(t)
      BY <2>17 DEF Woken, PCs, Signals!EventTypeOK
    <2>18. CASE FutexTimeout(t)
      BY <2>18, EventLeave DEF FutexTimeout, PCs
    <2>19. CASE Unregister(t)
      BY <2>19, EventUnregister, WaiterCounted DEF Unregister, PCs, WaitPCs
    <2>20. CASE Return(t)
      BY <2>20 DEF Return, PCs, NoCall, Ops, Waits, Slots, Signals!EventTypeOK
    <2>21. QED
      BY <1>3, <2>1, <2>2, <2>3, <2>4, <2>5, <2>6, <2>7, <2>8, <2>9, <2>10,
         <2>11, <2>12, <2>13, <2>14, <2>15, <2>16, <2>17, <2>18, <2>19, <2>20
         DEF Run
  <1>4. ASSUME NEW t \in Threads, Interrupt(t) PROVE TypeOK'
    BY <1>4, EventLeave DEF Interrupt, PCs, Own, Ops
  <1>5. ASSUME NEW t \in Threads, Expire(t) PROVE TypeOK'
    BY <1>5 DEF Expire, Signals!EventTypeOK
  <1>6. CASE UNCHANGED vars
    BY <1>6 DEF vars, Signals!EventTypeOK
  <1>7. QED
    BY <1>1, <1>2, <1>3, <1>4, <1>5, <1>6, NextCases

-----------------------------------------------------------------------------
(* MutualExclusion is inductive: only Lock enters the critical section,    *)
(* and only when the lock is free.                                         *)
LEMMA MutexStep ==
  ASSUME TypeOK, MutualExclusion, [Next]_vars
  PROVE  MutualExclusion'
  <1> USE DEF TypeOK, MutualExclusion, InCritical, Step, At, Go, shared, locals, bounds
  <1>1. ASSUME NEW t \in Threads, BeginPut(t) PROVE MutualExclusion'
    BY <1>1 DEF BeginPut, Begin
  <1>2. ASSUME NEW t \in Threads, BeginGet(t) PROVE MutualExclusion'
    BY <1>2 DEF BeginGet, Begin
  <1>3. ASSUME NEW t \in Threads, Run(t) PROVE MutualExclusion'
    <2>1. CASE Lock(t)
      BY <2>1 DEF Lock
    <2>2. CASE Unlock(t)
      BY <2>2 DEF Unlock
    <2>3. CASE TestPut(t) \/ CopyPut(t) \/ AdvancePut(t)
      BY <2>3 DEF TestPut, CopyPut, AdvancePut
    <2>4. CASE TestGet(t) \/ CopyGet(t) \/ AdvanceGet(t)
      BY <2>4 DEF TestGet, CopyGet, AdvanceGet
    <2>5. CASE TakeSnapshot(t) \/ Return(t)
      BY <2>5 DEF TakeSnapshot, Return
    <2>6. CASE SignalAdd(t) \/ SignalLoad(t) \/ SignalWake(t)
      BY <2>6 DEF SignalAdd, SignalLoad, SignalWake
    <2>7. CASE CheckDeadline(t) \/ Register(t) \/ FutexSleep(t) \/ FutexAgain(t)
      BY <2>7 DEF CheckDeadline, Register, FutexSleep, FutexAgain
    <2>8. CASE Woken(t) \/ FutexTimeout(t) \/ Unregister(t)
      BY <2>8, ZenonT(60) DEF Woken, FutexTimeout, Unregister
    <2>9. QED
      BY <1>3, <2>1, <2>2, <2>3, <2>4, <2>5, <2>6, <2>7, <2>8 DEF Run
  <1>4. ASSUME NEW t \in Threads, Interrupt(t) PROVE MutualExclusion'
    BY <1>4 DEF Interrupt
  <1>5. ASSUME NEW t \in Threads, Expire(t) PROVE MutualExclusion'
    BY <1>5 DEF Expire
  <1>6. CASE UNCHANGED vars
    BY <1>6 DEF vars
  <1>7. QED
    BY <1>1, <1>2, <1>3, <1>4, <1>5, <1>6, NextCases

-----------------------------------------------------------------------------
(* WaitersExact: a step either leaves the waiters of both events alone, or *)
(* registers one thread, or unregisters one; a sleeper stays where it is.  *)

Sleepers(e) == {t \in Registered(e) : pc[t] = "asleep"}

LEMMA WaitersSame ==
  ASSUME TypeOK, WaitersExact,
         \A e \in Ops : /\ event'[e].m_waiters = event[e].m_waiters
                        /\ Registered(e)' = Registered(e)
                        /\ event'[e].sleeping \subseteq Sleepers(e)'
  PROVE  WaitersExact'
  BY DEF WaitersExact, Sleepers

LEMMA WaitersStep ==
  ASSUME TypeOK, WaitersExact, [Next]_vars
  PROVE  WaitersExact'
  <1> USE DEF TypeOK, Step, At, Go, WaitPCs, shared, locals, bounds
  <1>a. \A t \in Threads : Own(t) \in Ops /\ Other(t) \in Ops
    BY DEF Own, Other, Ops
  <1>b. \A e \in Ops : event[e].sleeping \subseteq Sleepers(e)
    BY DEF WaitersExact, Sleepers
  <1>1. ASSUME NEW t \in Threads, BeginPut(t) \/ BeginGet(t) \/ Return(t)
        PROVE  WaitersExact'
    <2>1. /\ \A s \in Threads \ {t} : pc'[s] = pc[s] /\ call'[s] = call[s]
          /\ pc[t] \notin WaitPCs /\ pc'[t] \notin WaitPCs /\ event' = event
      BY <1>1 DEF BeginPut, BeginGet, Begin, Return
    <2>2. \A e \in Ops : Registered(e)' = Registered(e)
      BY <2>1, RegisteredSame
    <2>3. \A e \in Ops : Sleepers(e)' = Sleepers(e)
      BY <2>1, <2>2 DEF Sleepers, Registered
    <2>4. QED
      BY <2>1, <2>2, <2>3, <1>b, WaitersSame
  <1>2. ASSUME NEW t \in Threads, event' = event,
               \/ TakeSnapshot(t) \/ Lock(t) \/ Unlock(t)
               \/ TestPut(t) \/ CopyPut(t) \/ AdvancePut(t)
               \/ TestGet(t) \/ CopyGet(t) \/ AdvanceGet(t)
               \/ SignalLoad(t) \/ CheckDeadline(t)
        PROVE  WaitersExact'
    <2>1. /\ \A s \in Threads \ {t} : pc'[s] = pc[s]
          /\ call' = call /\ pc[t] \notin WaitPCs /\ pc'[t] \notin WaitPCs
      BY <1>2 DEF TakeSnapshot, Lock, Unlock, TestPut, CopyPut, AdvancePut,
                  TestGet, CopyGet, AdvanceGet, SignalLoad, CheckDeadline
    <2>2. \A e \in Ops : Registered(e)' = Registered(e)
      BY <2>1, RegisteredSame
    <2>3. \A e \in Ops : Sleepers(e)' = Sleepers(e)
      BY <2>1, <2>2 DEF Sleepers, Registered
    <2>4. QED
      BY <1>2, <2>2, <2>3, <1>b, WaitersSame
  <1>3. ASSUME NEW t \in Threads, SignalAdd(t) \/ SignalWake(t)
        PROVE  WaitersExact'
    <2>1. /\ \A s \in Threads \ {t} : pc'[s] = pc[s]
          /\ call' = call /\ pc[t] \notin WaitPCs /\ pc'[t] \notin WaitPCs
      BY <1>3 DEF SignalAdd, SignalWake
    <2>2. \A e \in Ops : Registered(e)' = Registered(e)
      BY <2>1, RegisteredSame
    <2>3. \A e \in Ops : Sleepers(e)' = Sleepers(e)
      BY <2>1, <2>2 DEF Sleepers, Registered
    <2>4. \A e \in Ops : /\ event'[e].m_waiters = event[e].m_waiters
                         /\ event'[e].sleeping \subseteq event[e].sleeping
      BY <1>3, <1>a, EventAdd, EventWake DEF SignalAdd, SignalWake, FieldsSame
    <2>5. QED
      BY <2>2, <2>3, <2>4, <1>b, WaitersSame
  <1>4. ASSUME NEW t \in Threads, Register(t) PROVE WaitersExact'
    <2> PICK e \in Ops : e = Own(t)
      BY <1>a
    <2>1. /\ \A s \in Threads \ {t} : pc'[s] = pc[s]
          /\ call' = call /\ pc[t] \notin WaitPCs /\ pc'[t] = "futex"
      BY <1>4 DEF Register
    <2>2. /\ Registered(e)' = Registered(e) \cup {t}
          /\ t \notin Registered(e)
          /\ \A f \in Ops \ {e} : Registered(f)' = Registered(f)
      BY <2>1, RegisteredEnter
    <2>3. /\ event'[e].m_waiters = event[e].m_waiters + 1
          /\ \A f \in Ops \ {e} : event'[f].m_waiters = event[f].m_waiters
          /\ \A f \in Ops : event'[f].sleeping = event[f].sleeping
      BY <1>4, <1>a, EventRegister DEF Register, FieldsSame
    <2>4. Cardinality(Registered(e)') = Cardinality(Registered(e)) + 1
      BY <2>2, RegisteredFinite, FS_AddElement, ZenonT(60)
    <2>5. \A f \in Ops : Sleepers(f) \subseteq Sleepers(f)'
      BY <2>1 DEF Sleepers, Registered, Own
    <2>6. \A f \in Ops : event'[f].m_waiters = Cardinality(Registered(f)')
      <3>1. \A f \in Ops : event[f].m_waiters = Cardinality(Registered(f))
        BY DEF WaitersExact
      <3>2. \A f \in Ops \ {e} : event'[f].m_waiters = Cardinality(Registered(f)')
        BY <2>2, <2>3, <3>1
      <3>3. event'[e].m_waiters = Cardinality(Registered(e)')
        BY <2>3, <2>4, <3>1
      <3>4. QED
        BY <3>2, <3>3
    <2>7. \A f \in Ops : event'[f].sleeping \subseteq Sleepers(f)'
      BY <2>3, <2>5, <1>b
    <2>8. QED
      BY <2>6, <2>7 DEF WaitersExact, Sleepers
  <1>5. ASSUME NEW t \in Threads, Unregister(t) PROVE WaitersExact'
    <2> PICK e \in Ops : e = Own(t)
      BY <1>a
    <2>1. /\ \A s \in Threads \ {t} : pc'[s] = pc[s]
          /\ call' = call /\ pc[t] \in {"again", "giveup"} /\ pc'[t] \notin WaitPCs
      BY <1>5 DEF Unregister
    <2>2. /\ Registered(e)' = Registered(e) \ {t}
          /\ t \in Registered(e)
          /\ \A f \in Ops \ {e} : Registered(f)' = Registered(f)
      BY <2>1, RegisteredLeave
    <2>3. /\ event'[e].m_waiters = event[e].m_waiters - 1
          /\ \A f \in Ops \ {e} : event'[f].m_waiters = event[f].m_waiters
          /\ \A f \in Ops : event'[f].sleeping = event[f].sleeping
      BY <1>5, <1>a, <2>1, EventUnregister, WaiterCounted DEF Unregister, FieldsSame
    <2>4. Cardinality(Registered(e)') = Cardinality(Registered(e)) - 1
      <3>1. IsFiniteSet(Registered(e))
        BY RegisteredFinite
      <3>2. Cardinality(Registered(e) \ {t}) = Cardinality(Registered(e)) - 1
        BY <3>1, <2>2, FS_RemoveElement
      <3>3. QED
        BY <3>2, <2>2
    <2>5. \A f \in Ops : Sleepers(f) \subseteq Sleepers(f)'
      BY <2>1 DEF Sleepers, Registered, Own
    <2>6. \A f \in Ops : event'[f].m_waiters = Cardinality(Registered(f)')
      BY <2>2, <2>3, <2>4 DEF WaitersExact
    <2>7. \A f \in Ops : event'[f].sleeping \subseteq Sleepers(f)'
      BY <2>3, <2>5, <1>b
    <2>8. QED
      BY <2>6, <2>7 DEF WaitersExact, Sleepers
  <1>6. ASSUME NEW t \in Threads,
               \/ FutexSleep(t) \/ FutexAgain(t) \/ Woken(t)
               \/ FutexTimeout(t) \/ Interrupt(t)
        PROVE  WaitersExact'
    <2>1. /\ \A s \in Threads \ {t} : pc'[s] = pc[s]
          /\ call' = call /\ pc[t] \in WaitPCs /\ pc'[t] \in WaitPCs
      BY <1>6 DEF FutexSleep, FutexAgain, Woken, FutexTimeout, Interrupt
    <2>2. \A e \in Ops : Registered(e)' = Registered(e)
      BY <2>1, RegisteredSame
    <2>3. \A e \in Ops : event'[e].m_waiters = event[e].m_waiters
      BY <1>6, <1>a, EventSleep, EventLeave
         DEF FutexSleep, FutexAgain, Woken, FutexTimeout, Interrupt, FieldsSame,
             Signals!FutexAgain
    <2>4. \A e \in Ops : Sleepers(e) \ {t} \subseteq Sleepers(e)'
      BY <2>1 DEF Sleepers, Registered, Own
    <2>5. ASSUME NEW e \in Ops PROVE event'[e].sleeping \subseteq Sleepers(e)'
      <3>1. CASE FutexSleep(t)
        <4>1. event'[e].sleeping \subseteq event[e].sleeping \cup {t}
          BY <3>1, <1>a, EventSleep, SMTT(30) DEF FutexSleep, FieldsSame
        <4>2. e # Own(t) => t \notin event'[e].sleeping
          <5>1. e # Own(t) => event'[e].sleeping = event[e].sleeping
            BY <3>1, <1>a, EventSleep DEF FutexSleep, FieldsSame
          <5>2. e # Own(t) => t \notin Sleepers(e)
            BY DEF Sleepers, Registered
          <5>3. QED
            BY <5>1, <5>2, <1>b
        <4>3. e = Own(t) => t \in Sleepers(e)'
          BY <3>1, <1>a DEF FutexSleep, Sleepers, Registered, Own
        <4>4. QED
          BY <4>1, <4>2, <4>3, <2>4, <1>b
      <3>2. CASE FutexAgain(t) \/ Woken(t)
        <4>1. event' = event /\ t \notin event[Own(t)].sleeping
          BY <3>2, <1>a, <1>b DEF FutexAgain, Woken, Signals!FutexAgain, Sleepers
        <4>2. t \notin event[e].sleeping
          BY <4>1, <1>b DEF Sleepers, Registered
        <4>3. QED
          BY <4>1, <4>2, <2>4, <1>b
      <3>3. CASE FutexTimeout(t) \/ Interrupt(t)
        <4>1. event'[e].sleeping \subseteq event[e].sleeping
          BY <3>3, <1>a, EventLeave DEF FutexTimeout, Interrupt, FieldsSame
        <4>2. t \notin event'[e].sleeping
          <5>1. e = Own(t) => event'[e].sleeping = event[e].sleeping \ {t}
            BY <3>3, <1>a, EventLeave DEF FutexTimeout, Interrupt
          <5>2. e # Own(t) => t \notin Sleepers(e)
            BY DEF Sleepers, Registered
          <5>3. QED
            BY <5>1, <5>2, <4>1, <1>b
        <4>3. QED
          BY <4>1, <4>2, <2>4, <1>b
      <3>4. QED
        BY <1>6, <3>1, <3>2, <3>3
    <2>6. QED
      BY <2>2, <2>3, <2>5, WaitersSame
  <1>7. ASSUME NEW t \in Threads, Expire(t) PROVE WaitersExact'
    <2>1. \A e \in Ops : /\ Registered(e)' = Registered(e)
                         /\ Sleepers(e)' = Sleepers(e)
      BY <1>7 DEF Expire, Registered, Sleepers, Own
    <2>2. QED
      BY <2>1, <1>7, <1>b, WaitersSame DEF Expire
  <1>8. CASE UNCHANGED vars
    <2>1. \A e \in Ops : /\ Registered(e)' = Registered(e)
                         /\ Sleepers(e)' = Sleepers(e)
      BY <1>8 DEF vars, Registered, Sleepers, Own
    <2>2. QED
      BY <2>1, <1>8, <1>b, WaitersSame DEF vars
  <1>9. ASSUME NEW t \in Threads, Run(t) PROVE WaitersExact'
    <2>1. TakeSnapshot(t) \/ Lock(t) \/ Unlock(t) \/ TestPut(t) \/ CopyPut(t)
          \/ AdvancePut(t) \/ TestGet(t) \/ CopyGet(t) \/ AdvanceGet(t)
          \/ SignalLoad(t) \/ CheckDeadline(t) => event' = event
      BY DEF TakeSnapshot, Lock, Unlock, TestPut, CopyPut, AdvancePut,
             TestGet, CopyGet, AdvanceGet, SignalLoad, CheckDeadline
    <2>2. QED
      BY <1>9, <2>1, <1>1, <1>2, <1>3, <1>4, <1>5, <1>6 DEF Run
  <1>10. QED
    BY <1>1, <1>6, <1>7, <1>8, <1>9, NextCases

-----------------------------------------------------------------------------
IInv == TypeOK /\ MutualExclusion /\ WaitersExact

LEMMA WaitersInit == Init => WaitersExact
  <1> SUFFICES ASSUME Init PROVE WaitersExact
    OBVIOUS
  <1>1. \A e \in Ops : Registered(e) = {}
    BY DEF Init, Registered
  <1>2. QED
    BY <1>1, FS_EmptySet DEF Init, WaitersExact, Signals!EventInit

LEMMA IInvHolds == Spec => []IInv
  <1>1. Init => IInv
    BY TypeInit, WaitersInit DEF Init, IInv, MutualExclusion, InCritical
  <1>2. IInv /\ [Next]_vars => IInv'
    BY TypeStep, MutexStep, WaitersStep DEF IInv
  <1>3. QED
    BY <1>1, <1>2, PTL DEF Spec

(* The variables keep their types: an index stays inside the ring and the  *)
(* waiter count never goes below zero.                                     *)
THEOREM TypeCorrect == Spec => []TypeOK
  <1>1. IInv => TypeOK
    BY DEF IInv
  <1>2. QED
    BY <1>1, IInvHolds, PTL

(* At most one thread is between Lock and Unlock, whatever the number of   *)
(* threads (OSpinLockVar.Lock, OMsgChannel.Put and Get).                   *)
THEOREM MutexCorrect == Spec => []MutualExclusion
  <1>1. IInv => MutualExclusion
    BY DEF IInv
  <1>2. QED
    BY <1>1, IInvHolds, PTL

(* m_waiters counts exactly the threads inside WaitUntilNanos, on every    *)
(* path out of the futex call.                                             *)
THEOREM WaitersCorrect == Spec => []WaitersExact
  <1>1. IInv => WaitersExact
    BY DEF IInv
  <1>2. QED
    BY <1>1, IInvHolds, PTL
-----------------------------------------------------------------------------
(* The course of a call, and what a thread inside the ring has read of it. *)
Looping == {"snapshot", "deadline", "register", "futex", "asleep", "again", "giveup"}

CallOK(t) ==
  /\ pc[t] = "idle" => /\ call[t] = NoCall /\ rmsg[t] = NoMessage /\ sequence[t] = 0
                       /\ ~result[t] /\ ~expired[t]
  /\ result[t] => pc[t] \in {"unlock", "signal", "waiters", "wake", "return"}
  /\ pc[t] \in {"signal", "waiters", "wake"} => result[t]
  /\ expired[t] => call[t].wait = "deadline"
  /\ call[t].wait = "once" => pc[t] \notin Looping
  /\ pc[t] = "giveup" => expired[t]
  /\ pc[t] = "return" /\ ~result[t] => expired[t] \/ call[t].wait = "once"
  /\ call[t].op = "Get" => call[t].msg = NoMessage

RingOK(t) ==
  /\ Own(t) = "Put" /\ pc[t] \in {"copy", "advance"} =>
        newidx[t] = (idx_put + 1) % m_len /\ newidx[t] # idx_get
  /\ Own(t) = "Put" /\ pc[t] = "advance" => msgs[idx_put] = call[t].msg
  /\ Own(t) = "Get" /\ pc[t] \in {"copy", "advance"} => idx_get # idx_put
  /\ Own(t) = "Get" /\ pc[t] = "advance" => rmsg[t] = msgs[idx_get]

FlowIInv == IInv /\ \A t \in Threads : CallOK(t) /\ RingOK(t)

(* A step of t leaves the locals of the others alone, and the ring unless  *)
(* t is inside.                                                            *)
OthersStay(t) ==
  \A s \in Threads \ {t} :
    /\ pc'[s] = pc[s] /\ call'[s] = call[s] /\ newidx'[s] = newidx[s] /\ rmsg'[s] = rmsg[s]
    /\ result'[s] = result[s] /\ sequence'[s] = sequence[s] /\ expired'[s] = expired[s]

LEMMA OthersFlow ==
  ASSUME FlowIInv, IInv', NEW t \in Threads, OthersStay(t), CallOK(t)', RingOK(t)',
         InCritical(t) \/ UNCHANGED <<idx_put, idx_get, msgs>>
  PROVE  FlowIInv'
  <1>1. ASSUME NEW s \in Threads \ {t} PROVE CallOK(s)' /\ RingOK(s)'
    <2>1. CallOK(s) /\ RingOK(s)
      BY DEF FlowIInv
    <2>2. CallOK(s)'
      BY <2>1 DEF OthersStay, CallOK
    <2>3. InCritical(t) => pc[s] \notin {"copy", "advance"}
      BY DEF FlowIInv, IInv, MutualExclusion, InCritical
    <2>4. RingOK(s)'
      BY <2>1, <2>3 DEF OthersStay, RingOK, Own
    <2>5. QED
      BY <2>2, <2>4
  <1>2. QED
    BY <1>1 DEF FlowIInv

LEMMA FlowInit == Init => FlowIInv
  <1> SUFFICES ASSUME Init PROVE FlowIInv
    OBVIOUS
  <1>1. IInv
    BY TypeInit, WaitersInit DEF Init, IInv, MutualExclusion, InCritical
  <1>2. ASSUME NEW t \in Threads PROVE CallOK(t) /\ RingOK(t)
    BY DEF Init, CallOK, RingOK, NoCall, Looping
  <1>3. QED
    BY <1>1, <1>2 DEF FlowIInv

LEMMA FlowStep ==
  ASSUME FlowIInv, [Next]_vars
  PROVE  FlowIInv'
  <1>1. IInv /\ IInv' /\ TypeOK /\ TypeOK'
    BY TypeStep, MutexStep, WaitersStep DEF FlowIInv, IInv
  <1>2. ASSUME NEW t \in Threads, BeginPut(t) \/ BeginGet(t) PROVE FlowIInv'
    <2>1. PICK c : /\ Begin(t, c)
                   /\ \/ \E w \in WaitModes, m \in Messages : c = [op |-> "Put", wait |-> w, msg |-> m]
                      \/ \E w \in WaitModes : c = [op |-> "Get", wait |-> w, msg |-> NoMessage]
      BY <1>2 DEF BeginPut, BeginGet
    <2>2. /\ pc[t] = "idle" /\ pc'[t] = (IF c.wait = "once" THEN "lock" ELSE "snapshot") /\ call'[t] = c
          /\ OthersStay(t) /\ UNCHANGED <<idx_put, idx_get, msgs, newidx, rmsg, result, sequence, expired>>
      BY <1>1, <2>1 DEF Begin, Step, At, Go, TypeOK, shared, locals, OthersStay
    <2>3. c.op = "Get" => c.msg = NoMessage
      BY <2>1
    <2>4. CallOK(t) /\ CallOK(t)' /\ RingOK(t)'
      BY <2>2, <2>3 DEF FlowIInv, CallOK, RingOK, Looping
    <2>5. QED
      BY <1>1, <2>2, <2>4, OthersFlow
  <1>3. ASSUME NEW t \in Threads, Run(t) \/ Interrupt(t) \/ Expire(t) PROVE FlowIInv'
    <2> DEFINE Goal == OthersStay(t) /\ CallOK(t)' /\ RingOK(t)' /\ (InCritical(t) \/ UNCHANGED <<idx_put, idx_get, msgs>>)
    <2>0. CallOK(t) /\ RingOK(t) /\ Own(t) \in Ops /\ call[t].wait \in Waits
      BY <1>1 DEF FlowIInv, TypeOK, Own
    <2> USE <1>1 DEF Step, At, Go, TypeOK, shared, locals, OthersStay, CallOK, RingOK, InCritical, Own, Looping
    <2>1. ASSUME Lock(t) \/ Unlock(t) \/ TakeSnapshot(t) PROVE Goal
      BY <2>0, <2>1 DEF Lock, Unlock, TakeSnapshot, Waits
    <2>2. ASSUME TestPut(t) \/ CopyPut(t) PROVE Goal
      BY <2>0, <2>2 DEF TestPut, CopyPut
    <2>3. ASSUME TestGet(t) \/ CopyGet(t) PROVE Goal
      BY <2>0, <2>3 DEF TestGet, CopyGet
    <2>4. ASSUME AdvancePut(t) \/ AdvanceGet(t) PROVE Goal
      BY <2>0, <2>4 DEF AdvancePut, AdvanceGet
    <2>5. ASSUME SignalAdd(t) \/ SignalLoad(t) \/ SignalWake(t) PROVE Goal
      BY <2>0, <2>5 DEF SignalAdd, SignalLoad, SignalWake
    <2>6. ASSUME CheckDeadline(t) \/ Register(t) \/ FutexSleep(t) \/ FutexAgain(t) PROVE Goal
      BY <2>0, <2>6 DEF CheckDeadline, Register, FutexSleep, FutexAgain
    <2>7. ASSUME Woken(t) \/ FutexTimeout(t) \/ Interrupt(t) \/ Unregister(t) PROVE Goal
      BY <2>0, <2>7 DEF Woken, FutexTimeout, Interrupt, Unregister
    <2>8. ASSUME Return(t) PROVE Goal
      BY <2>0, <2>8 DEF Return, NoCall
    <2>9. ASSUME Expire(t) PROVE Goal
      BY <2>0, <2>9 DEF Expire
    <2>10. Goal
      BY <1>3, <2>1, <2>2, <2>3, <2>4, <2>5, <2>6, <2>7, <2>8, <2>9 DEF Run
    <2> HIDE DEF Step, At, Go, TypeOK, shared, locals, OthersStay, CallOK, RingOK, InCritical, Own, Looping
    <2>11. QED
      BY <1>1, <2>10, OthersFlow
  <1>4. CASE UNCHANGED vars
    BY <1>1, <1>4 DEF vars, shared, locals, FlowIInv, CallOK, RingOK, Own
  <1>5. QED
    BY <1>2, <1>3, <1>4, NextCases

LEMMA FlowHolds == Spec => []FlowIInv
  BY FlowInit, FlowStep, PTL DEF Spec

(* A wait with a timeout answers FALSE only past its deadline: what ends a *)
(* futex call before sends the caller back to the ring.                    *)
THEOREM TimeoutCorrect == Spec => []TimeoutOnlyPastDeadline
  <1>1. FlowIInv => TimeoutOnlyPastDeadline
    BY DEF FlowIInv, CallOK, TimeoutOnlyPastDeadline
  <1>2. QED
    BY <1>1, FlowHolds, PTL
-----------------------------------------------------------------------------
(* The ring as a sequence.  The indices of a ring of Capacity + 1 slots,   *)
(* written without %.                                                      *)
LEMMA NextIndex ==
  ASSUME NEW a \in Slots
  PROVE  (a + 1) % m_len = IF a = Capacity THEN 0 ELSE a + 1
  BY DEF Slots, m_len

LEMMA IndexDistance ==
  ASSUME NEW a \in Slots, NEW b \in Slots
  PROVE  (a - b) % m_len = IF a >= b THEN a - b ELSE a - b + m_len
  BY DEF Slots, m_len

LEMMA IndexSum ==
  ASSUME NEW a \in Slots, NEW b \in Slots
  PROVE  (a + b) % m_len = IF a + b <= Capacity THEN a + b ELSE a + b - m_len
  BY DEF Slots, m_len

(* The slot of the i-th message in the queue.                              *)
SlotOf(get, i) == IF get + i - 1 <= Capacity THEN get + i - 1 ELSE get + i - 1 - m_len

QueueView ==
  /\ Count \in 0 .. Capacity
  /\ Count = IF idx_put >= idx_get THEN idx_put - idx_get ELSE idx_put - idx_get + m_len
  /\ queue \in [1 .. Count -> Messages \cup {NoMessage}]
  /\ \A i \in 1 .. Count : queue[i] = msgs[SlotOf(idx_get, i)]
  /\ \A i \in 1 .. Capacity : SlotOf(idx_get, i) \in Slots

LEMMA QueueElements == TypeOK => QueueView
  <1> SUFFICES ASSUME TypeOK PROVE QueueView
    OBVIOUS
  <1>1. idx_put \in Slots /\ idx_get \in Slots /\ msgs \in [Slots -> Messages \cup {NoMessage}]
    BY DEF TypeOK
  <1>2. /\ Count \in 0 .. Capacity
        /\ Count = IF idx_put >= idx_get THEN idx_put - idx_get ELSE idx_put - idx_get + m_len
    BY <1>1, IndexDistance DEF Count, Slots, m_len
  <1>3. ASSUME NEW i \in 1 .. Capacity
        PROVE  (idx_get + i - 1) % m_len = SlotOf(idx_get, i) /\ SlotOf(idx_get, i) \in Slots
    <2>1. i - 1 \in Slots /\ idx_get + i - 1 = idx_get + (i - 1)
      BY <1>1 DEF Slots
    <2>2. (idx_get + (i - 1)) % m_len = SlotOf(idx_get, i)
      BY <1>1, <2>1, IndexSum DEF SlotOf
    <2>3. QED
      BY <1>1, <2>1, <2>2 DEF SlotOf, Slots, m_len
  <1>4. 1 .. Count \subseteq 1 .. Capacity
    BY <1>2
  <1>5. QED
    BY <1>1, <1>2, <1>3, <1>4 DEF queue, QueueView

LEMMA QueueElementsNext == TypeOK' => QueueView'
  BY QueueElements, PTL

(* Count and the indices, without % and without the queue.                 *)
CountView ==
  /\ idx_put \in 0 .. Capacity /\ idx_get \in 0 .. Capacity
  /\ Count \in 0 .. Capacity
  /\ Count = IF idx_put >= idx_get THEN idx_put - idx_get ELSE idx_put - idx_get + Capacity + 1
  /\ (idx_put + 1) % m_len = (IF idx_put = Capacity THEN 0 ELSE idx_put + 1)
  /\ (idx_get + 1) % m_len = (IF idx_get = Capacity THEN 0 ELSE idx_get + 1)

LEMMA CountIs == TypeOK => CountView
  <1> SUFFICES ASSUME TypeOK PROVE CountView
    OBVIOUS
  <1>1. idx_put \in Slots /\ idx_get \in Slots
    BY DEF TypeOK
  <1>2. /\ (idx_put + 1) % m_len = (IF idx_put = Capacity THEN 0 ELSE idx_put + 1)
        /\ (idx_get + 1) % m_len = (IF idx_get = Capacity THEN 0 ELSE idx_get + 1)
    BY <1>1, NextIndex
  <1>3. /\ Count \in 0 .. Capacity
        /\ Count = IF idx_put >= idx_get THEN idx_put - idx_get
                   ELSE idx_put - idx_get + m_len
    BY QueueElements DEF QueueView
  <1>4. QED
    BY <1>1, <1>2, <1>3 DEF m_len, Slots, CountView

LEMMA CountIsNext == TypeOK' => CountView'
  BY CountIs, PTL

LEMMA QueueSequence ==
  ASSUME TypeOK
  PROVE  /\ queue \in Seq(Messages \cup {NoMessage})
         /\ Len(queue) = Count
  BY QueueElements, SeqDef DEF QueueView

LEMMA QueueSame ==
  ASSUME UNCHANGED <<idx_put, idx_get, msgs>>
  PROVE  queue' = queue
  BY DEF queue, Count

(* The slot Put writes is not in the queue.                                *)
LEMMA QueueWritten ==
  ASSUME TypeOK, TypeOK', NEW m, UNCHANGED <<idx_put, idx_get>>,
         msgs' = [msgs EXCEPT ![idx_put] = m]
  PROVE  queue' = queue
  <1>1. Count' = Count
    BY DEF Count
  <1>2. ASSUME NEW i \in 1 .. Count PROVE queue'[i] = queue[i]
    <2>1. i \in 1 .. Capacity
      BY QueueElements DEF QueueView
    <2>2. SlotOf(idx_get, i) # idx_put
      BY QueueElements DEF QueueView, SlotOf, TypeOK, Slots, m_len
    <2>3. msgs'[SlotOf(idx_get, i)] = msgs[SlotOf(idx_get, i)]
      BY <2>1, <2>2, QueueElements DEF QueueView, TypeOK
    <2>4. queue'[i] = msgs'[SlotOf(idx_get, i)]
      BY <1>1, QueueElementsNext DEF QueueView
    <2>5. QED
      BY <2>3, <2>4, QueueElements DEF QueueView
  <1>3. QED
    BY <1>1, <1>2, QueueElements DEF queue

LEMMA QueueAppended ==
  ASSUME TypeOK, TypeOK', UNCHANGED <<idx_get, msgs>>,
         idx_put' = (idx_put + 1) % m_len, idx_put' # idx_get
  PROVE  /\ Count < Capacity
         /\ queue' = Append(queue, msgs[idx_put])
  <1>1. Count < Capacity /\ Count' = Count + 1
    BY CountIs, CountIsNext DEF CountView
  <1>2. SlotOf(idx_get, Count + 1) = idx_put
    BY QueueElements DEF QueueView, SlotOf, TypeOK, Slots, m_len
  <1>3. msgs[idx_put] \in Messages \cup {NoMessage}
    BY DEF TypeOK
  <1>4. /\ Append(queue, msgs[idx_put]) \in Seq(Messages \cup {NoMessage})
        /\ Len(Append(queue, msgs[idx_put])) = Count + 1
        /\ \A i \in 1 .. Count + 1 :
             Append(queue, msgs[idx_put])[i] = IF i <= Count THEN queue[i] ELSE msgs[idx_put]
    BY <1>1, <1>3, QueueElements, QueueSequence, AppendProperties DEF QueueView
  <1>5. ASSUME NEW i \in 1 .. Count + 1
        PROVE  queue'[i] = Append(queue, msgs[idx_put])[i]
    <2>1. queue'[i] = msgs[SlotOf(idx_get, i)]
      BY <1>1, QueueElementsNext DEF QueueView
    <2>2. i <= Count => queue[i] = msgs[SlotOf(idx_get, i)]
      BY <1>1, QueueElements DEF QueueView
    <2>3. i > Count => i = Count + 1
      BY <1>1, QueueElements DEF QueueView
    <2>4. QED
      BY <2>1, <2>2, <2>3, <1>2, <1>4, QueueElements DEF QueueView
  <1>6. queue' \in Seq(Messages \cup {NoMessage}) /\ Len(queue') = Count + 1
    BY <1>1, QueueElementsNext, SeqDef DEF QueueView
  <1>7. QED
    BY <1>1, <1>4, <1>5, <1>6, SeqEqual

LEMMA QueueTaken ==
  ASSUME TypeOK, TypeOK', UNCHANGED <<idx_put, msgs>>,
         idx_get # idx_put, idx_get' = (idx_get + 1) % m_len
  PROVE  /\ queue # << >>
         /\ Head(queue) = msgs[idx_get]
         /\ queue' = Tail(queue)
         /\ Count > 0 /\ Count' = Count - 1
  <1>1. Count > 0 /\ Count' = Count - 1
    <2>1. idx_get' = IF idx_get = Capacity THEN 0 ELSE idx_get + 1
      BY CountIs DEF CountView
    <2>2. CountView /\ CountView' /\ idx_put' = idx_put
      BY CountIs, CountIsNext
    <2>3. QED
      BY <2>1, <2>2 DEF CountView
  <1>2. queue # << >>
    BY <1>1, QueueSequence, EmptySeq
  <1>3. Head(queue) = msgs[idx_get]
    <2>1. Head(queue) = queue[1] /\ 1 \in 1 .. Count
      BY <1>1, <1>2, QueueSequence, QueueElements DEF QueueView
    <2>2. SlotOf(idx_get, 1) = idx_get
      BY DEF SlotOf, TypeOK, Slots
    <2>3. QED
      BY <2>1, <2>2, QueueElements DEF QueueView
  <1>4. /\ Tail(queue) \in Seq(Messages \cup {NoMessage})
        /\ Len(Tail(queue)) = Count - 1
        /\ \A i \in 1 .. Count - 1 : Tail(queue)[i] = queue[i + 1]
    BY <1>2, QueueSequence, HeadTailProperties
  <1>5. ASSUME NEW i \in 1 .. Count - 1 PROVE queue'[i] = Tail(queue)[i]
    <2>1. queue'[i] = msgs[SlotOf(idx_get', i)]
      BY <1>1, QueueElementsNext DEF QueueView
    <2>2. i + 1 \in 1 .. Count
      BY <1>1, QueueElements DEF QueueView
    <2>3. queue[i + 1] = msgs[SlotOf(idx_get, i + 1)]
      BY <2>2, QueueElements DEF QueueView
    <2>4. SlotOf(idx_get', i) = SlotOf(idx_get, i + 1)
      BY <2>2, CountIs DEF CountView, SlotOf, m_len
    <2>5. QED
      BY <2>1, <2>3, <2>4, <1>4
  <1>6. queue' \in Seq(Messages \cup {NoMessage}) /\ Len(queue') = Count - 1
    BY <1>1, QueueElements, QueueElementsNext, SeqDef DEF QueueView
  <1>7. QED
    BY <1>1, <1>2, <1>3, <1>4, <1>5, <1>6, SeqEqual

(* What Put's and Get's test of the indices says of the queue.             *)
LEMMA QueueFull ==
  ASSUME TypeOK
  PROVE  /\ (idx_put + 1) % m_len = idx_get <=> Count = Capacity
         /\ idx_put = idx_get <=> Count = 0
         /\ Len(queue) = Count
         /\ idx_put = idx_get <=> queue = << >>
  <1>1. /\ (idx_put + 1) % m_len = idx_get <=> Count = Capacity
        /\ idx_put = idx_get <=> Count = 0
    BY CountIs DEF CountView
  <1>2. QED
    BY <1>1, QueueSequence, EmptySeq

-----------------------------------------------------------------------------
(* Every step of the ring is a step of the abstract channel or leaves it   *)
(* alone: CopyPut writes a slot outside the queue, the index update is the *)
(* instant of the Put or Get, the failing test that of the refusal.        *)
ClientOf(t) ==
  [phase |-> Phase(t), op |-> call[t].op, wait |-> call[t].wait,
   msg   |-> IF call[t].op = "Get" /\ Phase(t) = "done" THEN rmsg[t] ELSE call[t].msg]

LEMMA StepIsLocal ==
  ASSUME TypeOK, NEW t \in Threads, Run(t) \/ Interrupt(t) \/ Expire(t)
  PROVE  OthersStay(t)
  <1> USE DEF Step, At, Go, TypeOK, locals, OthersStay
  <1>1. ASSUME \/ TakeSnapshot(t) \/ Lock(t) \/ TestPut(t) \/ CopyPut(t) \/ AdvancePut(t)
               \/ TestGet(t) \/ CopyGet(t) \/ AdvanceGet(t) \/ Unlock(t) \/ Return(t)
        PROVE  OthersStay(t)
    BY <1>1 DEF TakeSnapshot, Lock, TestPut, CopyPut, AdvancePut, TestGet, CopyGet,
                AdvanceGet, Unlock, Return
  <1>2. ASSUME \/ SignalAdd(t) \/ SignalLoad(t) \/ SignalWake(t) \/ CheckDeadline(t)
               \/ Register(t) \/ FutexSleep(t) \/ FutexAgain(t) \/ Woken(t) \/ FutexTimeout(t)
               \/ Unregister(t) \/ Interrupt(t) \/ Expire(t)
        PROVE  OthersStay(t)
    BY <1>2 DEF SignalAdd, SignalLoad, SignalWake, CheckDeadline, Register, FutexSleep,
                FutexAgain, Woken, FutexTimeout, Unregister, Interrupt, Expire
  <1>3. QED
    BY <1>1, <1>2 DEF Run

LEMMA ClientIs == client = [t \in Threads |-> ClientOf(t)]
  BY DEF client, ClientOf

LEMMA ClientStep ==
  ASSUME NEW t \in Threads, OthersStay(t)
  PROVE  client' = [client EXCEPT ![t] = ClientOf(t)']
  <1>1. \A s \in Threads \ {t} : ClientOf(s)' = ClientOf(s)
    BY DEF OthersStay, ClientOf, Phase
  <1>2. client' = [s \in Threads |-> ClientOf(s)']
    BY DEF client, ClientOf
  <1>3. QED
    BY <1>1, <1>2, ClientIs

LEMMA FifoBegin ==
  ASSUME FlowIInv, FlowIInv', NEW t \in Threads, NEW c, Begin(t, c),
         \/ \E w \in WaitModes, m \in Messages : c = [op |-> "Put", wait |-> w, msg |-> m]
         \/ \E w \in WaitModes : c = [op |-> "Get", wait |-> w, msg |-> NoMessage]
  PROVE  Fifo!Invoke(t)
  <1>1. TypeOK /\ CallOK(t)
    BY DEF FlowIInv, IInv
  <1>2. /\ OthersStay(t) /\ call'[t] = c /\ pc[t] = "idle" /\ pc'[t] \in {"lock", "snapshot"}
        /\ UNCHANGED <<idx_put, idx_get, msgs>>
    BY <1>1 DEF Begin, Step, At, Go, TypeOK, shared, locals, OthersStay
  <1>3. client' = [client EXCEPT ![t] = ClientOf(t)']
    BY <1>2, ClientStep
  <1>4. client[t].phase = "idle"
    BY <1>2 DEF client, Phase
  <1>5. queue' = queue
    BY <1>2, QueueSame
  <1>6. CASE \E w \in WaitModes, m \in Messages : c = [op |-> "Put", wait |-> w, msg |-> m]
    <2> PICK w \in WaitModes, m \in Messages : c = [op |-> "Put", wait |-> w, msg |-> m]
      BY <1>6
    <2>1. ClientOf(t)' = [phase |-> "pending", op |-> "Put", wait |-> w, msg |-> m]
      BY <1>2 DEF ClientOf, Phase
    <2>2. w \in Fifo!Waits
      BY DEF Fifo!Waits, Waits
    <2>3. QED
      BY <1>3, <1>4, <1>5, <2>1, <2>2 DEF Fifo!Invoke
  <1>7. CASE \E w \in WaitModes : c = [op |-> "Get", wait |-> w, msg |-> NoMessage]
    <2> PICK w \in WaitModes : c = [op |-> "Get", wait |-> w, msg |-> NoMessage]
      BY <1>7
    <2>1. ClientOf(t)' = [phase |-> "pending", op |-> "Get", wait |-> w, msg |-> NoMessage]
      BY <1>2 DEF ClientOf, Phase
    <2>2. w \in Fifo!Waits
      BY DEF Fifo!Waits, Waits
    <2>3. QED
      BY <1>3, <1>4, <1>5, <2>1, <2>2 DEF Fifo!Invoke
  <1>8. QED
    BY <1>6, <1>7

(* The steps the abstract channel does not see.                            *)
LEMMA FifoStutter ==
  ASSUME FlowIInv, FlowIInv', NEW t \in Threads, OthersStay(t), queue' = queue,
         ClientOf(t)' = ClientOf(t)
  PROVE  UNCHANGED <<queue, client>>
  <1>1. client' = [client EXCEPT ![t] = client[t]]
    BY ClientStep, ClientIs
  <1>2. QED
    BY <1>1, ClientIs

LEMMA FifoPut ==
  ASSUME FlowIInv, FlowIInv', NEW t \in Threads, OthersStay(t), AdvancePut(t)
  PROVE  Fifo!Put(t)
  <1>1. TypeOK /\ TypeOK' /\ CallOK(t) /\ RingOK(t)
    BY DEF FlowIInv, IInv
  <1>2. /\ pc[t] = "advance" /\ pc'[t] = "unlock" /\ result'[t] /\ call'[t] = call[t] /\ call[t].op = "Put"
        /\ idx_put' = newidx[t] /\ UNCHANGED <<idx_get, msgs>>
    BY <1>1 DEF AdvancePut, Step, At, Go, TypeOK, Own
  <1>3. idx_put' = (idx_put + 1) % m_len /\ idx_put' # idx_get /\ msgs[idx_put] = call[t].msg
    BY <1>1, <1>2 DEF RingOK, Own
  <1>4. /\ Count < Capacity
        /\ queue' = Append(queue, call[t].msg)
        /\ Len(queue) = Count
    BY <1>1, <1>2, <1>3, QueueAppended, QueueSequence
  <1>5. client[t] = [phase |-> "pending", op |-> "Put", wait |-> call[t].wait, msg |-> call[t].msg]
    BY <1>2 DEF client, Phase
  <1>6. ClientOf(t)' = [phase |-> "done", op |-> "Put", wait |-> call[t].wait, msg |-> call[t].msg]
    BY <1>2 DEF ClientOf, Phase
  <1>7. client' = [client EXCEPT ![t].phase = "done"]
    BY <1>5, <1>6, ClientStep
  <1>8. QED
    BY <1>4, <1>5, <1>7 DEF Fifo!Put

LEMMA FifoGet ==
  ASSUME FlowIInv, FlowIInv', NEW t \in Threads, OthersStay(t), AdvanceGet(t)
  PROVE  Fifo!Get(t)
  <1>1. TypeOK /\ TypeOK' /\ CallOK(t) /\ RingOK(t)
    BY DEF FlowIInv, IInv
  <1>2. /\ pc[t] = "advance" /\ pc'[t] = "unlock" /\ result'[t] /\ call'[t] = call[t] /\ call[t].op = "Get"
        /\ rmsg' = rmsg /\ idx_get' = (idx_get + 1) % m_len /\ UNCHANGED <<idx_put, msgs>>
    BY <1>1 DEF AdvanceGet, Step, At, Go, TypeOK, Own
  <1>3. idx_get # idx_put /\ rmsg[t] = msgs[idx_get]
    BY <1>1, <1>2 DEF RingOK, Own
  <1>4. /\ queue # << >> /\ queue' = Tail(queue) /\ Head(queue) = rmsg[t]
    BY <1>1, <1>2, <1>3, QueueTaken
  <1>5. client[t] = [phase |-> "pending", op |-> "Get", wait |-> call[t].wait, msg |-> call[t].msg]
    BY <1>2 DEF client, Phase
  <1>6. ClientOf(t)' = [phase |-> "done", op |-> "Get", wait |-> call[t].wait, msg |-> rmsg[t]]
    BY <1>2 DEF ClientOf, Phase
  <1>7. client' = [client EXCEPT ![t].phase = "done", ![t].msg = Head(queue)]
    <2> DEFINE full == [client EXCEPT ![t].phase = "done", ![t].msg = Head(queue)]
    <2>1. DOMAIN client = Threads /\ DOMAIN client' = Threads
      BY ClientIs, ClientStep
    <2>2. \A s \in Threads \ {t} : full[s] = client[s] /\ client'[s] = client[s]
      BY <2>1, ClientStep
    <2>3. full[t] = [phase |-> "done", op |-> "Get", wait |-> call[t].wait, msg |-> rmsg[t]]
      <3> DEFINE c == client[t]
      <3>1. full[t] = [c EXCEPT !.phase = "done", !.msg = Head(queue)]
        BY <2>1
      <3>2. c = [phase |-> "pending", op |-> "Get", wait |-> call[t].wait, msg |-> call[t].msg]
        BY <1>5
      <3> HIDE DEF c, full
      <3>3. QED
        BY <3>1, <3>2, <1>4
    <2>4. client'[t] = full[t]
      BY <1>6, <2>1, <2>3, ClientStep
    <2>5. DOMAIN full = Threads
      BY <2>1
    <2>6. QED
      BY <2>1, <2>2, <2>4, <2>5, ClientIs, ClientStep
  <1>8. QED
    BY <1>4, <1>5, <1>7 DEF Fifo!Get

(* The test of the indices: on to the copy, or the refusal.                *)
LEMMA FifoTest ==
  ASSUME FlowIInv, FlowIInv', NEW t \in Threads, OthersStay(t), TestPut(t) \/ TestGet(t)
  PROVE  Fifo!Refuse(t) \/ UNCHANGED <<queue, client>>
  <1>1. TypeOK /\ CallOK(t)
    BY DEF FlowIInv, IInv
  <1>2. /\ pc[t] = "test" /\ pc'[t] \in {"copy", "unlock"} /\ call' = call /\ result' = result /\ ~result[t]
        /\ UNCHANGED <<idx_put, idx_get, msgs>>
    BY <1>1 DEF TestPut, TestGet, Step, At, Go, TypeOK, CallOK, shared, locals
  <1>3. queue' = queue
    BY <1>2, QueueSame
  <1>4. client[t] = [phase |-> "pending", op |-> call[t].op, wait |-> call[t].wait, msg |-> call[t].msg]
    BY <1>2 DEF client, Phase
  <1>5. CASE pc'[t] = "copy"
    <2>1. ClientOf(t)' = ClientOf(t)
      BY <1>2, <1>5 DEF ClientOf, Phase
    <2>2. QED
      BY <1>3, <2>1, FifoStutter
  <1>6. CASE pc'[t] = "unlock"
    <2>1. \/ call[t].op = "Put" /\ Count = Capacity
          \/ call[t].op = "Get" /\ queue = << >>
      BY <1>1, <1>6, QueueFull DEF TestPut, TestGet, Step, At, Go, TypeOK, Own
    <2>2. ClientOf(t)' = [phase |-> "failed", op |-> call[t].op, wait |-> call[t].wait, msg |-> call[t].msg]
      BY <1>2, <1>6 DEF ClientOf, Phase
    <2>3. client' = [client EXCEPT ![t].phase = "failed"]
      BY <1>4, <2>2, ClientStep
    <2>4. QED
      BY <1>1, <1>3, <1>4, <2>1, <2>3, QueueSequence DEF Fifo!Refuse
  <1>7. QED
    BY <1>2, <1>5, <1>6

LEMMA FifoStep ==
  ASSUME FlowIInv, FlowIInv', [Next]_vars
  PROVE  [Fifo!Next]_<<queue, client>>
  <1>1. TypeOK /\ TypeOK'
    BY DEF FlowIInv, IInv
  <1>2. ASSUME NEW t \in Threads, BeginPut(t) \/ BeginGet(t) PROVE Fifo!Next
    <2>1. PICK c : /\ Begin(t, c)
                   /\ \/ \E w \in WaitModes, m \in Messages : c = [op |-> "Put", wait |-> w, msg |-> m]
                      \/ \E w \in WaitModes : c = [op |-> "Get", wait |-> w, msg |-> NoMessage]
      BY <1>2 DEF BeginPut, BeginGet
    <2>2. QED
      BY <2>1, FifoBegin DEF Fifo!Next
  <1>3. ASSUME NEW t \in Threads, Run(t) \/ Interrupt(t) \/ Expire(t)
        PROVE  [Fifo!Next]_<<queue, client>>
    <2>0. OthersStay(t) /\ CallOK(t) /\ CallOK(t)'
      BY <1>1, <1>3, StepIsLocal DEF FlowIInv
    <2>1. CASE TestPut(t) \/ TestGet(t)
      BY <2>0, <2>1, FifoTest DEF Fifo!Next
    <2>2. CASE AdvancePut(t)
      BY <2>0, <2>2, FifoPut DEF Fifo!Next
    <2>3. CASE AdvanceGet(t)
      BY <2>0, <2>3, FifoGet DEF Fifo!Next
    <2>4. CASE CopyPut(t)
      <3>1. queue' = queue
        BY <1>1, <2>4, QueueWritten DEF CopyPut
      <3>2. ClientOf(t)' = ClientOf(t)
        BY <1>1, <2>4 DEF CopyPut, Step, At, Go, TypeOK, locals, ClientOf, Phase
      <3>3. QED
        BY <2>0, <3>1, <3>2, FifoStutter
    <2>5. CASE CopyGet(t)
      <3>1. queue' = queue
        BY <2>5, QueueSame DEF CopyGet, shared
      <3>2. ClientOf(t)' = ClientOf(t)
        BY <1>1, <2>5 DEF CopyGet, Step, At, Go, TypeOK, ClientOf, Phase
      <3>3. QED
        BY <2>0, <3>1, <3>2, FifoStutter
    <2>6. CASE \/ TakeSnapshot(t) \/ Lock(t) \/ Unlock(t)
               \/ SignalAdd(t) \/ SignalLoad(t) \/ SignalWake(t)
               \/ CheckDeadline(t) \/ Register(t) \/ FutexSleep(t) \/ FutexAgain(t)
               \/ Woken(t) \/ FutexTimeout(t) \/ Interrupt(t) \/ Expire(t)
      <3>1. /\ UNCHANGED <<idx_put, idx_get, msgs, call, rmsg, result>>
            /\ Phase(t)' = Phase(t)
        BY <1>1, <2>0, <2>6
           DEF TakeSnapshot, Lock, Unlock, SignalAdd, SignalLoad, SignalWake,
               CheckDeadline, Register, FutexSleep, FutexAgain, Woken, FutexTimeout,
               Interrupt, Expire, Step, At, Go, TypeOK, shared, locals, Phase
      <3>2. queue' = queue
        BY <3>1, QueueSame
      <3>3. ClientOf(t)' = ClientOf(t)
        BY <3>1 DEF ClientOf
      <3>4. QED
        BY <2>0, <3>2, <3>3, FifoStutter
    <2>7. CASE Unregister(t)
      <3>1. /\ UNCHANGED <<idx_put, idx_get, msgs, call, rmsg, result>>
            /\ \/ pc[t] = "again" /\ pc'[t] = "snapshot"
               \/ pc[t] = "giveup" /\ pc'[t] = "return"
        BY <1>1, <2>7 DEF Unregister, Step, At, Go, TypeOK, shared, locals
      <3>2. queue' = queue
        BY <3>1, QueueSame
      <3>3. CASE pc[t] = "giveup"
        <4>1. ClientOf(t)' = ClientOf(t)
          BY <3>1, <3>3 DEF ClientOf, Phase
        <4>2. QED
          BY <2>0, <3>2, <4>1, FifoStutter
      <3>4. CASE pc[t] = "again"
        <4>1. ~result[t] /\ call[t].wait # "once"
          BY <2>0, <3>4 DEF CallOK, Looping
        <4>2. client[t] = [phase |-> "failed", op |-> call[t].op, wait |-> call[t].wait, msg |-> call[t].msg]
          BY <3>4, <4>1 DEF client, Phase
        <4>3. ClientOf(t)' = [phase |-> "pending", op |-> call[t].op, wait |-> call[t].wait, msg |-> call[t].msg]
          BY <3>1, <3>4 DEF ClientOf, Phase
        <4>4. client' = [client EXCEPT ![t].phase = "pending"]
          BY <2>0, <4>2, <4>3, ClientStep
        <4>5. client[t].phase = "failed" /\ client[t].wait # "once"
          BY <4>1, <4>2
        <4>6. Fifo!Retry(t)
          BY <3>2, <4>4, <4>5 DEF Fifo!Retry
        <4>7. QED
          BY <4>6 DEF Fifo!Next
      <3>5. QED
        BY <3>1, <3>3, <3>4
    <2>8. CASE Return(t)
      <3>1. /\ UNCHANGED <<idx_put, idx_get, msgs>>
            /\ pc[t] = "return" /\ pc'[t] = "idle" /\ call'[t] = NoCall
        BY <1>1, <2>8 DEF Return, Step, At, Go, TypeOK, shared
      <3>2. queue' = queue
        BY <3>1, QueueSame
      <3>3. ClientOf(t)' = Fifo!Idle
        BY <3>1 DEF ClientOf, Phase, NoCall, Fifo!Idle
      <3>4. client[t].wait = call[t].wait /\ client[t].phase = IF result[t] THEN "done" ELSE "failed"
        BY <3>1 DEF client, Phase
      <3>5. result[t] \/ call[t].wait # "forever"
        BY <2>0, <3>1 DEF CallOK
      <3>6. QED
        BY <2>0, <3>2, <3>3, <3>4, <3>5, ClientStep DEF Fifo!Return, Fifo!Next
    <2>9. QED
      BY <1>3, <2>1, <2>2, <2>3, <2>4, <2>5, <2>6, <2>7, <2>8 DEF Run
  <1>4. CASE UNCHANGED vars
    BY <1>4 DEF vars, shared, locals, queue, Count, client, Phase
  <1>5. QED
    BY <1>2, <1>3, <1>4, NextCases

LEMMA FifoInit == Init => Fifo!Init
  <1> SUFFICES ASSUME Init PROVE Fifo!Init
    OBVIOUS
  <1>1. queue = << >>
    BY TypeInit, QueueFull DEF Init
  <1>2. client = [t \in Threads |-> Fifo!Idle]
    BY DEF Init, client, Phase, Fifo!Idle, NoCall
  <1>3. QED
    BY <1>1, <1>2 DEF Fifo!Init

(* The ring under its spinlock is a linearizable bounded FIFO channel: the *)
(* update of the index is the instant at which a Put or a Get happens, the *)
(* failing test the one at which it is refused.                            *)
THEOREM FifoCorrect == Spec => ImplementsFifo
  <1>1. FlowIInv /\ FlowIInv' /\ [Next]_vars => [Fifo!Next]_<<queue, client>>
    BY FifoStep
  <1>2. QED
    BY <1>1, FifoInit, FlowHolds, PTL DEF Spec, ImplementsFifo, Fifo!Spec

-----------------------------------------------------------------------------
(* The waiters that have found nothing and are on their way to the futex   *)
(* with a snapshot that is still the sequence number, and the calls that   *)
(* have moved a message and have yet to change the sequence number.        *)
Heading(e) ==
  {t \in Threads : /\ Own(t) = e /\ call[t].wait # "once"
                   /\ pc[t] \in {"unlock", "deadline", "register", "futex"} /\ ~result[t]
                   /\ sequence[t] = event[e].m_sequence}

Unsignalled(e) ==
  {t \in Threads : Other(t) = e /\ result[t] /\ pc[t] \in {"unlock", "signal"}}

Cover(e) ==
  /\ event[e].sleeping # {} =>
       Available(e) <= Cardinality(SignalPending(e)) + Cardinality(WillLook(e))
  /\ Heading(e) # {} =>
       Available(e) <= Cardinality(Unsignalled(e)) + Cardinality(WillLook(e))

WakeIInv == FlowIInv /\ \A e \in Ops : Cover(e)

(* The sequence number never comes back to a value some waiter took it to  *)
(* be: in 32 bits, no waiter is passed by 2^32 signals.                    *)
SnapshotsStayOld ==
  \A t \in Threads :
    pc[t] # "idle" /\ event'[Own(t)].m_sequence # event[Own(t)].m_sequence
      => event'[Own(t)].m_sequence # sequence[t]

LEMMA ThreadSets ==
  ASSUME NEW S, S \subseteq Threads
  PROVE  IsFiniteSet(S) /\ Cardinality(S) \in Nat
  BY FS_Subset, FS_CardinalityType

LEMMA MoreThreads ==
  ASSUME NEW S, NEW T, S \subseteq T, T \subseteq Threads
  PROVE  Cardinality(S) <= Cardinality(T)
  BY ThreadSets, FS_Subset

LEMMA OneMore ==
  ASSUME NEW S, NEW T, NEW t \in Threads, t \notin S, t \in T, S \subseteq T, T \subseteq Threads
  PROVE  Cardinality(S) + 1 <= Cardinality(T)
  <1>1. IsFiniteSet(S) /\ S \cup {t} \subseteq T
    BY ThreadSets
  <1>2. Cardinality(S \cup {t}) = Cardinality(S) + 1
    BY <1>1, FS_AddElement
  <1>3. Cardinality(S \cup {t}) <= Cardinality(T)
    BY <1>1, MoreThreads
  <1>4. QED
    BY <1>2, <1>3

LEMMA OneLess ==
  ASSUME NEW S, NEW T, NEW t \in Threads, S \subseteq Threads, S \ {t} \subseteq T, T \subseteq Threads
  PROVE  Cardinality(S) <= Cardinality(T) + 1
  <1>1. CASE t \in S
    <2>1. IsFiniteSet(S) /\ Cardinality(S) \in Nat
      BY ThreadSets
    <2>2. Cardinality(S \ {t}) = Cardinality(S) - 1
      BY <1>1, <2>1, FS_RemoveElement
    <2>3. Cardinality(S \ {t}) <= Cardinality(T)
      BY MoreThreads
    <2>4. Cardinality(T) \in Nat
      BY ThreadSets
    <2>5. QED
      BY <2>1, <2>2, <2>3, <2>4
  <1>2. CASE t \notin S
    <2>1. S \subseteq T
      BY <1>2
    <2>2. QED
      BY <2>1, MoreThreads, ThreadSets
  <1>3. QED
    BY <1>1, <1>2

LEMMA CoverSets ==
  ASSUME NEW e \in Ops
  PROVE  /\ SignalPending(e) \subseteq Threads /\ WillLook(e) \subseteq Threads
         /\ Unsignalled(e) \subseteq Threads
         /\ SignalPending(e)' \subseteq Threads /\ WillLook(e)' \subseteq Threads
         /\ Unsignalled(e)' \subseteq Threads
         /\ Cardinality(SignalPending(e)) \in Nat /\ Cardinality(WillLook(e)) \in Nat
         /\ Cardinality(Unsignalled(e)) \in Nat
         /\ Cardinality(SignalPending(e)') \in Nat /\ Cardinality(WillLook(e)') \in Nat
         /\ Cardinality(Unsignalled(e)') \in Nat
  <1>1. /\ SignalPending(e) \subseteq Threads /\ WillLook(e) \subseteq Threads
        /\ Unsignalled(e) \subseteq Threads
        /\ SignalPending(e)' \subseteq Threads /\ WillLook(e)' \subseteq Threads
        /\ Unsignalled(e)' \subseteq Threads
    BY DEF SignalPending, WillLook, Unsignalled
  <1>2. QED
    BY <1>1, ThreadSets

LEMMA AvailableNat == TypeOK => \A e \in Ops : Available(e) \in Nat
  BY CountIs DEF CountView, Available

(* The threads that did not move stay in their sets.                       *)
LEMMA OthersCover ==
  ASSUME NEW t \in Threads, OthersStay(t), NEW e \in Ops
  PROVE  /\ SignalPending(e)' \ {t} = SignalPending(e) \ {t}
         /\ Unsignalled(e)' \ {t} = Unsignalled(e) \ {t}
         /\ event'[e].sleeping \subseteq event[e].sleeping \cup {t}
              => WillLook(e) \ {t} \subseteq WillLook(e)'
         /\ event'[e].m_sequence = event[e].m_sequence
              => Heading(e)' \ {t} = Heading(e) \ {t}
  BY DEF OthersStay, SignalPending, Unsignalled, WillLook, Heading, Own, Other

(* A step that takes nothing away from e.                                  *)
CoverFrame(t, e) ==
  /\ Available(e)' = Available(e)
  /\ event'[e].sleeping \subseteq event[e].sleeping
  /\ event'[e].m_sequence = event[e].m_sequence
  /\ t \in SignalPending(e) => t \in SignalPending(e)'
  /\ t \in Unsignalled(e) => t \in Unsignalled(e)'
  /\ t \in WillLook(e) => t \in WillLook(e)'
  /\ t \in Heading(e)' => t \in Heading(e)

LEMMA CoverKept ==
  ASSUME NEW t \in Threads, OthersStay(t), NEW e \in Ops, Cover(e), CoverFrame(t, e),
         TypeOK
  PROVE  Cover(e)'
  <1>1. /\ SignalPending(e) \subseteq SignalPending(e)'
        /\ Unsignalled(e) \subseteq Unsignalled(e)'
        /\ WillLook(e) \subseteq WillLook(e)'
        /\ Heading(e)' \subseteq Heading(e)
    BY OthersCover DEF CoverFrame
  <1>2. /\ Cardinality(SignalPending(e)) <= Cardinality(SignalPending(e)')
        /\ Cardinality(Unsignalled(e)) <= Cardinality(Unsignalled(e)')
        /\ Cardinality(WillLook(e)) <= Cardinality(WillLook(e)')
    BY <1>1, CoverSets, MoreThreads
  <1>3. /\ event'[e].sleeping # {} => event[e].sleeping # {}
        /\ Heading(e)' # {} => Heading(e) # {}
        /\ Available(e)' = Available(e)
    BY <1>1 DEF CoverFrame
  <1>4. Available(e) \in Nat
    BY AvailableNat
  <1>5. QED
    BY <1>2, <1>3, <1>4, CoverSets DEF Cover

LEMMA RingKeptCover ==
  ASSUME UNCHANGED <<idx_put, idx_get>>, NEW e \in Ops
  PROVE  Available(e)' = Available(e)
  BY DEF Available, Count

(* The steps that take nothing away from any event.                        *)
LEMMA QuietStep ==
  ASSUME TypeOK, NEW t \in Threads, CallOK(t), NEW e \in Ops, WaitersExact,
         \/ \E c : Begin(t, c)
         \/ TakeSnapshot(t) \/ Lock(t) \/ CopyPut(t) \/ CopyGet(t) \/ Unlock(t)
         \/ CheckDeadline(t) \/ Register(t) \/ FutexAgain(t) \/ Woken(t)
         \/ FutexTimeout(t) \/ Interrupt(t) \/ Unregister(t) \/ Return(t) \/ Expire(t)
  PROVE  CoverFrame(t, e) /\ OthersStay(t)
  <1> DEFINE Goal == CoverFrame(t, e) /\ OthersStay(t)
  <1>0. Own(t) \in Ops /\ Signals!EventTypeOK
    BY DEF TypeOK, Own
  <1> USE DEF Step, At, Go, TypeOK, shared, locals, bounds, OthersStay, CoverFrame,
              SignalPending, Unsignalled, WillLook, Heading, Own, Other, CallOK
  <1>1. ASSUME NEW c, Begin(t, c) PROVE Goal
    BY <1>1, RingKeptCover DEF Begin
  <1>2. ASSUME TakeSnapshot(t) PROVE Goal
    BY <1>2, RingKeptCover DEF TakeSnapshot
  <1>3. ASSUME Lock(t) \/ CopyPut(t) \/ CopyGet(t) PROVE Goal
    BY <1>3, RingKeptCover DEF Lock, CopyPut, CopyGet
  <1>4. ASSUME Unlock(t) \/ CheckDeadline(t) \/ Woken(t) \/ Expire(t) PROVE Goal
    BY <1>4, RingKeptCover DEF Unlock, CheckDeadline, Woken, Expire
  <1>5. ASSUME Return(t) PROVE Goal
    BY <1>5, RingKeptCover DEF Return, NoCall
  <1>6. ASSUME FutexAgain(t) PROVE Goal
    BY <1>6, RingKeptCover DEF FutexAgain, Signals!FutexAgain
  <1>7. ASSUME Register(t) PROVE Goal
    <2>1. event'[e].sleeping = event[e].sleeping /\ event'[e].m_sequence = event[e].m_sequence
      BY <1>0, <1>7, EventRegister DEF Register, FieldsSame
    <2>2. QED
      BY <1>7, <2>1, RingKeptCover DEF Register
  <1>8. ASSUME Unregister(t) PROVE Goal
    <2>1. event[Own(t)].m_waiters # 0
      BY <1>0, <1>8, WaiterCounted DEF Unregister, WaitPCs
    <2>2. event'[e].sleeping = event[e].sleeping /\ event'[e].m_sequence = event[e].m_sequence
      BY <1>0, <1>8, <2>1, EventUnregister DEF Unregister, FieldsSame
    <2>3. QED
      BY <1>8, <2>2, RingKeptCover DEF Unregister
  <1>9. ASSUME FutexTimeout(t) \/ Interrupt(t) PROVE Goal
    <2>1. /\ event'[e].sleeping \subseteq event[e].sleeping
          /\ event'[e].m_sequence = event[e].m_sequence
          /\ t \in event[Own(t)].sleeping
      BY <1>0, <1>9, EventLeave, SMTT(30) DEF FutexTimeout, Interrupt, FieldsSame, Signals!FutexLeave
    <2>2. QED
      BY <1>9, <2>1, RingKeptCover DEF FutexTimeout, Interrupt
  <1>10. QED
    BY <1>1, <1>2, <1>3, <1>4, <1>5, <1>6, <1>7, <1>8, <1>9

(* A test that succeeds takes nothing away; one that fails found nothing   *)
(* to wait for.                                                            *)
LEMMA TestCover ==
  ASSUME TypeOK, NEW t \in Threads, CallOK(t), NEW e \in Ops, Cover(e),
         TestPut(t) \/ TestGet(t)
  PROVE  Cover(e)'
  <1>1. /\ OthersStay(t) /\ pc[t] = "test" /\ call' = call /\ event' = event /\ result' = result /\ ~result[t]
        /\ UNCHANGED <<idx_put, idx_get>> /\ sequence' = sequence
    BY DEF TestPut, TestGet, Step, At, Go, TypeOK, shared, locals, OthersStay, CallOK
  <1>2. Available(e)' = Available(e)
    BY <1>1, RingKeptCover
  <1>3. CASE pc'[t] = "copy" \/ Own(t) # e
    <2>1. CoverFrame(t, e)
      BY <1>1, <1>2, <1>3 DEF CoverFrame, SignalPending, Unsignalled, WillLook, Heading, Own, Other
    <2>2. QED
      BY <1>1, <2>1, CoverKept
  <1>4. CASE pc'[t] = "unlock" /\ Own(t) = e
    <2>1. \/ Own(t) = "Put" /\ Count = Capacity
          \/ Own(t) = "Get" /\ Count = 0
      BY <1>4, QueueFull DEF TestPut, TestGet, Step, At, Go, TypeOK
    <2>2. Available(e)' = 0
      BY <1>2, <1>4, <2>1 DEF Available
    <2>3. QED
      BY <2>2, CoverSets DEF Cover
  <1>5. pc'[t] \in {"copy", "unlock"}
    BY DEF TestPut, TestGet, Step, At, Go, TypeOK
  <1>6. QED
    BY <1>3, <1>4, <1>5

(* A message moves: what t was to use is gone with t, and what it leaves   *)
(* for the other side is promised by its pending Signal.                   *)
LEMMA AdvanceCover ==
  ASSUME TypeOK, TypeOK', NEW t \in Threads, CallOK(t), RingOK(t), NEW e \in Ops, Cover(e),
         AdvancePut(t) \/ AdvanceGet(t)
  PROVE  Cover(e)'
  <1>1. /\ OthersStay(t) /\ pc[t] = "advance" /\ pc'[t] = "unlock" /\ call' = call /\ event' = event
        /\ result'[t] /\ ~result[t] /\ sequence' = sequence
    BY DEF AdvancePut, AdvanceGet, Step, At, Go, TypeOK, shared, locals, OthersStay, CallOK
  <1>2. \/ Own(t) = "Put" /\ Count' = Count + 1
        \/ Own(t) = "Get" /\ Count' = Count - 1
    <2>1. ASSUME AdvancePut(t) PROVE Own(t) = "Put" /\ Count' = Count + 1
      <3>1. /\ idx_put' = (idx_put + 1) % m_len /\ idx_put' # idx_get /\ idx_get' = idx_get
            /\ Own(t) = "Put"
        BY <2>1, <1>1 DEF RingOK, AdvancePut
      <3>2. QED
        BY <3>1, CountIs, CountIsNext DEF CountView
    <2>2. ASSUME AdvanceGet(t) PROVE Own(t) = "Get" /\ Count' = Count - 1
      <3>1. /\ idx_get' = (idx_get + 1) % m_len /\ idx_put' = idx_put /\ idx_put # idx_get
            /\ Own(t) = "Get"
        BY <2>2, <1>1 DEF RingOK, AdvanceGet
      <3>2. idx_get' = IF idx_get = Capacity THEN 0 ELSE idx_get + 1
        BY <3>1, CountIs DEF CountView
      <3>3. CountView /\ CountView'
        BY CountIs, CountIsNext
      <3>4. QED
        BY <3>1, <3>2, <3>3 DEF CountView
    <2>3. QED
      BY <2>1, <2>2
  <1>3. Count \in Nat /\ Capacity \in Nat
    BY CountIs DEF CountView
  <1>4. /\ event'[e].sleeping = event[e].sleeping
        /\ Heading(e)' \subseteq Heading(e)
    BY <1>1 DEF Heading, OthersStay, Own
  <1>5. CASE e = Own(t)
    <2>1. Available(e)' = Available(e) - 1
      BY <1>2, <1>3, <1>5 DEF Available
    <2>2. /\ SignalPending(e) \subseteq SignalPending(e)'
          /\ Unsignalled(e) \subseteq Unsignalled(e)'
          /\ WillLook(e) \ {t} \subseteq WillLook(e)'
      BY <1>1 DEF OthersStay, SignalPending, Unsignalled, WillLook, Own, Other
    <2>3. /\ Cardinality(SignalPending(e)) <= Cardinality(SignalPending(e)')
          /\ Cardinality(Unsignalled(e)) <= Cardinality(Unsignalled(e)')
          /\ Cardinality(WillLook(e)) <= Cardinality(WillLook(e)') + 1
      BY <2>2, CoverSets, MoreThreads, OneLess
    <2>4. QED
      BY <1>4, <2>1, <2>3, CoverSets, AvailableNat DEF Cover
  <1>6. CASE e # Own(t)
    <2>1. Available(e)' = Available(e) + 1
      BY <1>2, <1>3, <1>6 DEF Available, Ops
    <2>2. /\ SignalPending(e) \subseteq SignalPending(e)' /\ t \in SignalPending(e)' \ SignalPending(e)
          /\ Unsignalled(e) \subseteq Unsignalled(e)' /\ t \in Unsignalled(e)' \ Unsignalled(e)
          /\ WillLook(e) \subseteq WillLook(e)'
      BY <1>1, <1>2, <1>6 DEF OthersStay, SignalPending, Unsignalled, WillLook, Own, Other, Ops
    <2>3. /\ Cardinality(SignalPending(e)) + 1 <= Cardinality(SignalPending(e)')
          /\ Cardinality(Unsignalled(e)) + 1 <= Cardinality(Unsignalled(e)')
          /\ Cardinality(WillLook(e)) <= Cardinality(WillLook(e)')
      BY <2>2, CoverSets, MoreThreads, OneMore
    <2>4. QED
      BY <1>4, <2>1, <2>3, CoverSets, AvailableNat DEF Cover
  <1>7. QED
    BY <1>5, <1>6

(* The new sequence number turns away everybody on the way to the futex.   *)
LEMMA AddCover ==
  ASSUME TypeOK, NEW t \in Threads, CallOK(t), NEW e \in Ops, Cover(e), SignalAdd(t),
         \A s \in Threads : CallOK(s), [SnapshotsStayOld]_event
  PROVE  Cover(e)'
  <1>1. /\ OthersStay(t) /\ pc[t] = "signal" /\ pc'[t] = "waiters" /\ call' = call /\ result' = result
        /\ sequence' = sequence /\ UNCHANGED <<idx_put, idx_get>> /\ Other(t) \in Ops
    BY DEF SignalAdd, Step, At, Go, TypeOK, shared, locals, OthersStay, Other, Ops
  <1>2. Signals!EventTypeOK /\ Signals!SignalAdd(Other(t))
    BY DEF TypeOK, SignalAdd
  <1>3. /\ \A f \in Ops : event'[f].sleeping = event[f].sleeping
        /\ \A f \in Ops \ {Other(t)} : event'[f].m_sequence = event[f].m_sequence
        /\ event'[Other(t)].m_sequence = (event[Other(t)].m_sequence + 1) % SeqMod
    BY <1>1, <1>2, EventAdd DEF FieldsSame
  <1>4. Available(e)' = Available(e)
    BY <1>1, RingKeptCover
  <1>5. CASE e # Other(t)
    <2>1. CoverFrame(t, e)
      BY <1>1, <1>3, <1>4, <1>5
         DEF CoverFrame, SignalPending, Unsignalled, WillLook, Heading, Own, Other
    <2>2. QED
      BY <1>1, <2>1, CoverKept
  <1>6. CASE e = Other(t)
    <2>1. event'[e].m_sequence # event[e].m_sequence
      <3>1. event[e].m_sequence \in 0 .. SeqMod - 1
        BY <1>2 DEF Signals!EventTypeOK
      <3>2. (event[e].m_sequence + 1) % SeqMod # event[e].m_sequence
        BY <3>1
      <3>3. QED
        BY <1>3, <1>6, <3>2
    <2>2. SnapshotsStayOld
      BY <2>1
    <2>3. Heading(e)' = {}
      <3>1. ASSUME NEW s \in Threads, s \in Heading(e)' PROVE FALSE
        <4>1. /\ s # t /\ Own(s) = e /\ pc[s] # "idle" /\ sequence[s] = event'[e].m_sequence
          BY <1>1, <3>1 DEF Heading, OthersStay, Own
        <4>2. QED
          BY <2>1, <2>2, <4>1 DEF SnapshotsStayOld
      <3>2. QED
        BY <3>1 DEF Heading
    <2>4. /\ SignalPending(e) \subseteq SignalPending(e)'
          /\ WillLook(e) \subseteq WillLook(e)'
      BY <1>1, <1>3, <1>6 DEF OthersStay, SignalPending, WillLook, Own, Other
    <2>5. /\ Cardinality(SignalPending(e)) <= Cardinality(SignalPending(e)')
          /\ Cardinality(WillLook(e)) <= Cardinality(WillLook(e)')
      BY <2>4, CoverSets, MoreThreads
    <2>6. event'[e].sleeping = event[e].sleeping
      BY <1>3
    <2>7. QED
      BY <1>4, <2>3, <2>5, <2>6, CoverSets, AvailableNat DEF Cover
  <1>7. QED
    BY <1>5, <1>6

(* Signal skips the wake only when nobody is registered.                   *)
LEMMA LoadCover ==
  ASSUME TypeOK, WaitersExact, NEW t \in Threads, NEW e \in Ops, Cover(e), SignalLoad(t)
  PROVE  Cover(e)'
  <1>1. /\ OthersStay(t) /\ pc[t] = "waiters" /\ call' = call /\ result' = result /\ event' = event
        /\ sequence' = sequence /\ UNCHANGED <<idx_put, idx_get>> /\ pc'[t] \in {"wake", "return"}
    BY DEF SignalLoad, Step, At, Go, TypeOK, shared, locals, OthersStay
  <1>2. Available(e)' = Available(e)
    BY <1>1, RingKeptCover
  <1>3. CASE pc'[t] = "wake" \/ e # Other(t)
    <2>1. CoverFrame(t, e)
      BY <1>1, <1>2, <1>3 DEF CoverFrame, SignalPending, Unsignalled, WillLook, Heading, Own, Other
    <2>2. QED
      BY <1>1, <2>1, CoverKept
  <1>4. CASE pc'[t] = "return" /\ e = Other(t)
    <2>1. event[e].m_waiters = 0
      BY <1>4 DEF SignalLoad, Step, At, Go, TypeOK, Signals!HasWaiters
    <2>2. Registered(e) = {}
      <3>1. Cardinality(Registered(e)) = 0
        BY <2>1 DEF WaitersExact
      <3>2. QED
        BY <3>1, RegisteredFinite, FS_EmptySet
    <2>3. event'[e].sleeping = {}
      BY <1>1, <2>2 DEF WaitersExact
    <2>4. /\ Unsignalled(e) \subseteq Unsignalled(e)'
          /\ WillLook(e) \subseteq WillLook(e)'
          /\ Heading(e)' \subseteq Heading(e)
      BY <1>1, <1>4 DEF OthersStay, Unsignalled, WillLook, Heading, Own, Other
    <2>5. /\ Cardinality(Unsignalled(e)) <= Cardinality(Unsignalled(e)')
          /\ Cardinality(WillLook(e)) <= Cardinality(WillLook(e)')
      BY <2>4, CoverSets, MoreThreads
    <2>6. QED
      BY <1>2, <2>3, <2>4, <2>5, CoverSets, AvailableNat DEF Cover
  <1>5. QED
    BY <1>1, <1>3, <1>4

(* The thread that is woken looks again in place of the one that woke it.  *)
LEMMA WakeCover ==
  ASSUME TypeOK, WaitersExact, NEW t \in Threads, NEW e \in Ops, Cover(e), SignalWake(t)
  PROVE  Cover(e)'
  <1>1. /\ OthersStay(t) /\ pc[t] = "wake" /\ pc'[t] = "return" /\ call' = call /\ result' = result
        /\ sequence' = sequence /\ UNCHANGED <<idx_put, idx_get>> /\ Other(t) \in Ops
    BY DEF SignalWake, Step, At, Go, TypeOK, shared, locals, OthersStay, Other, Ops
  <1>2. Signals!EventTypeOK /\ Signals!Wake(Other(t))
    BY DEF TypeOK, SignalWake
  <1>3. /\ \A f \in Ops : event'[f].m_sequence = event[f].m_sequence
        /\ \A f \in Ops : event'[f].sleeping \subseteq event[f].sleeping
        /\ \A f \in Ops \ {Other(t)} : event'[f].sleeping = event[f].sleeping
    BY <1>1, <1>2, EventWake DEF FieldsSame
  <1>4. Available(e)' = Available(e)
    BY <1>1, RingKeptCover
  <1>5. CASE e # Other(t)
    <2>1. CoverFrame(t, e)
      BY <1>1, <1>3, <1>4, <1>5
         DEF CoverFrame, SignalPending, Unsignalled, WillLook, Heading, Own, Other
    <2>2. QED
      BY <1>1, <2>1, CoverKept
  <1>6. CASE e = Other(t)
    <2>1. /\ Unsignalled(e) \subseteq Unsignalled(e)'
          /\ WillLook(e) \subseteq WillLook(e)'
          /\ Heading(e)' \subseteq Heading(e)
          /\ SignalPending(e) \ {t} \subseteq SignalPending(e)'
      BY <1>1, <1>3, <1>6 DEF OthersStay, SignalPending, Unsignalled, WillLook, Heading, Own, Other
    <2>2. /\ Cardinality(Unsignalled(e)) <= Cardinality(Unsignalled(e)')
          /\ Cardinality(WillLook(e)) <= Cardinality(WillLook(e)')
          /\ Cardinality(SignalPending(e)) <= Cardinality(SignalPending(e)') + 1
      BY <2>1, CoverSets, MoreThreads, OneLess
    <2>3. CASE event[e].sleeping = {}
      <3>1. event'[e].sleeping = {}
        BY <1>3, <2>3
      <3>2. QED
        BY <1>4, <2>1, <2>2, <3>1, CoverSets, AvailableNat DEF Cover
    <2>4. ASSUME NEW s \in event[e].sleeping,
                 event' = [event EXCEPT ![e].sleeping = @ \ {s}]
          PROVE  Cover(e)'
      <3>1. s \in Threads /\ Own(s) = e /\ pc[s] = "asleep"
        BY DEF WaitersExact, Registered
      <3>2. s \notin event'[e].sleeping
        BY <2>4, <1>2 DEF Signals!EventTypeOK
      <3>3. s # t /\ s \notin WillLook(e) /\ s \in WillLook(e)'
        BY <1>1, <3>1, <3>2 DEF OthersStay, WillLook, Own
      <3>4. Cardinality(WillLook(e)) + 1 <= Cardinality(WillLook(e)')
        BY <2>1, <3>1, <3>3, CoverSets, OneMore
      <3>5. event[e].sleeping # {}
        BY <2>4
      <3>6. QED
        BY <1>4, <2>1, <2>2, <3>4, <3>5, CoverSets, AvailableNat DEF Cover
    <2>5. QED
      BY <1>2, <1>6, <2>3, <2>4 DEF Signals!Wake
  <1>7. QED
    BY <1>5, <1>6

(* The kernel queues a thread only if its snapshot is still the sequence   *)
(* number.                                                                 *)
LEMMA SleepCover ==
  ASSUME TypeOK, NEW t \in Threads, CallOK(t), NEW e \in Ops, Cover(e), FutexSleep(t)
  PROVE  Cover(e)'
  <1>1. /\ OthersStay(t) /\ pc[t] = "futex" /\ pc'[t] = "asleep" /\ call' = call /\ result' = result
        /\ sequence' = sequence /\ UNCHANGED <<idx_put, idx_get>> /\ Own(t) \in Ops
        /\ ~result[t] /\ call[t].wait # "once"
    BY DEF FutexSleep, Step, At, Go, TypeOK, shared, locals, OthersStay, Own, CallOK, Looping
  <1>2. Signals!EventTypeOK /\ Signals!FutexSleep(Own(t), t, sequence[t])
    BY DEF TypeOK, FutexSleep
  <1>3. /\ \A f \in Ops : event'[f].m_sequence = event[f].m_sequence
        /\ \A f \in Ops \ {Own(t)} : event'[f].sleeping = event[f].sleeping
        /\ event'[Own(t)].sleeping = event[Own(t)].sleeping \cup {t}
        /\ event[Own(t)].m_sequence = sequence[t]
    BY <1>1, <1>2, EventSleep DEF FieldsSame
  <1>4. Available(e)' = Available(e)
    BY <1>1, RingKeptCover
  <1>5. CASE e # Own(t)
    <2>1. CoverFrame(t, e)
      BY <1>1, <1>3, <1>4, <1>5
         DEF CoverFrame, SignalPending, Unsignalled, WillLook, Heading, Own, Other
    <2>2. QED
      BY <1>1, <2>1, CoverKept
  <1>6. CASE e = Own(t)
    <2>1. t \in Heading(e)
      BY <1>1, <1>3, <1>6 DEF Heading
    <2>2. Available(e) <= Cardinality(Unsignalled(e)) + Cardinality(WillLook(e))
      BY <2>1 DEF Cover
    <2>3. /\ Unsignalled(e) \subseteq Unsignalled(e)'
          /\ Unsignalled(e) \subseteq SignalPending(e)'
          /\ WillLook(e) \subseteq WillLook(e)'
      BY <1>1, <1>3, <1>6 DEF OthersStay, SignalPending, Unsignalled, WillLook, Own, Other
    <2>4. /\ Cardinality(Unsignalled(e)) <= Cardinality(Unsignalled(e)')
          /\ Cardinality(Unsignalled(e)) <= Cardinality(SignalPending(e)')
          /\ Cardinality(WillLook(e)) <= Cardinality(WillLook(e)')
      BY <2>3, CoverSets, MoreThreads
    <2>5. QED
      BY <1>4, <2>2, <2>4, CoverSets, AvailableNat DEF Cover
  <1>7. QED
    BY <1>5, <1>6

LEMMA WakeStep ==
  ASSUME WakeIInv, [Next]_vars, [SnapshotsStayOld]_event
  PROVE  WakeIInv'
  <1>1. FlowIInv'
    BY FlowStep DEF WakeIInv
  <1>2. /\ TypeOK /\ TypeOK' /\ WaitersExact
        /\ \A t \in Threads : CallOK(t) /\ RingOK(t)
        /\ \A e \in Ops : Cover(e)
    BY <1>1 DEF WakeIInv, FlowIInv, IInv
  <1>3. ASSUME NEW e \in Ops, NEW t \in Threads,
               BeginPut(t) \/ BeginGet(t) \/ Run(t) \/ Interrupt(t) \/ Expire(t)
        PROVE  Cover(e)'
    <2>1. CASE \/ \E c : Begin(t, c)
               \/ TakeSnapshot(t) \/ Lock(t) \/ CopyPut(t) \/ CopyGet(t) \/ Unlock(t)
               \/ CheckDeadline(t) \/ Register(t) \/ FutexAgain(t) \/ Woken(t)
               \/ FutexTimeout(t) \/ Interrupt(t) \/ Unregister(t) \/ Return(t) \/ Expire(t)
      BY <1>2, <2>1, QuietStep, CoverKept
    <2>2. CASE TestPut(t) \/ TestGet(t)
      BY <1>2, <2>2, TestCover
    <2>3. CASE AdvancePut(t) \/ AdvanceGet(t)
      BY <1>2, <2>3, AdvanceCover
    <2>4. CASE SignalAdd(t)
      BY <1>2, <2>4, AddCover
    <2>5. CASE SignalLoad(t)
      BY <1>2, <2>5, LoadCover
    <2>6. CASE SignalWake(t)
      BY <1>2, <2>6, WakeCover
    <2>7. CASE FutexSleep(t)
      BY <1>2, <2>7, SleepCover
    <2>8. BeginPut(t) \/ BeginGet(t) => \E c : Begin(t, c)
      BY DEF BeginPut, BeginGet
    <2>9. QED
      BY <1>3, <2>1, <2>2, <2>3, <2>4, <2>5, <2>6, <2>7, <2>8 DEF Run
  <1>4. ASSUME NEW e \in Ops, UNCHANGED vars PROVE Cover(e)'
    BY <1>2, <1>4 DEF vars, shared, locals, Cover, Available, Count, SignalPending, WillLook,
                Unsignalled, Heading, Own, Other
  <1>5. \A e \in Ops : Cover(e)'
    BY <1>3, <1>4, NextCases
  <1>6. QED
    BY <1>1, <1>5 DEF WakeIInv

LEMMA WakeInit == Init => WakeIInv
  <1> SUFFICES ASSUME Init PROVE WakeIInv
    OBVIOUS
  <1>1. ASSUME NEW e \in Ops PROVE Cover(e)
    <2>1. event[e].sleeping = {} /\ Heading(e) = {}
      BY DEF Init, Signals!EventInit, Heading
    <2>2. QED
      BY <2>1 DEF Cover
  <1>2. QED
    BY <1>1, FlowInit DEF WakeIInv

(* As long as the sequence number does not come back to a snapshot in use, *)
(* no notification is lost: a thread sleeps only while everything it waits *)
(* for is promised to a pending Signal or to a call that is awake.         *)
THEOREM WakeupCorrect ==
  Spec /\ [][SnapshotsStayOld]_event => []NoLostWakeup
  <1>1. WakeIInv => NoLostWakeup
    BY DEF WakeIInv, Cover, NoLostWakeup
  <1>2. WakeIInv /\ [Next]_vars /\ [SnapshotsStayOld]_event => WakeIInv'
    BY WakeStep
  <1>3. QED
    BY <1>1, <1>2, WakeInit, PTL DEF Spec
=============================================================================
