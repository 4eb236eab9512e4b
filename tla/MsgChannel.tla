----------------------------- MODULE MsgChannel -----------------------------
(***************************************************************************)
(* OMsgChannel with locking = TRUE (src/stdpkg/threads/msgchannel.dqi): a  *)
(* ring of m_len = acapacity + 1 slots under an OSpinLockVar, and two      *)
(* OThreadEvents: put_event, signalled by Get and waited on by Put, and    *)
(* get_event, signalled by Put and waited on by Get.                       *)
(*                                                                         *)
(* Each action is the code between two accesses to shared state; pc names  *)
(* the next access of the thread.                                          *)
(***************************************************************************)
EXTENDS Integers, FiniteSets, Sequences

CONSTANTS Producers,      (* the threads that call Put and PutWaitMillis   *)
          Consumers,      (* the threads that call Get and GetWaitMillis   *)
          Messages,       (* the values of SChMsg                          *)
          Capacity,       (* acapacity                                     *)
          SeqMod,         (* range of OThreadEvent.m_sequence (2^32)       *)
          NoMessage,
          WaitModes,      (* the kinds of timeout the callers pass         *)
          MaxCalls,       (* bound: calls each thread makes                *)
          MaxInterrupts   (* bound: signal handlers run during a wait      *)

Threads == Producers \cup Consumers
Ops     == {"Put", "Get"}
Waits   == {"once", "deadline", "forever"}

ASSUME ChannelAssumption ==
  /\ IsFiniteSet(Threads)
  /\ Capacity \in Nat
  /\ SeqMod \in Nat /\ SeqMod > 1
  /\ WaitModes \subseteq Waits
  /\ MaxCalls \in Nat
  /\ MaxInterrupts \in Nat
  /\ NoMessage \notin Messages

VARIABLES m_lockvar, idx_put, idx_get, msgs,   (* OMsgChannel              *)
          event,                               (* put_event and get_event  *)
          pc,                                  (* per thread, as below:    *)
          call,                                (* arguments                *)
          newidx, rmsg, result, sequence,      (* locals and out parameter *)
          expired,                             (* NanoTime() >= deadline   *)
          calls, interrupts                    (* used up of the bounds    *)

shared == <<m_lockvar, idx_put, idx_get, msgs>>
locals == <<newidx, rmsg, result, sequence>>
bounds == <<calls, interrupts>>
vars   == <<shared, event, pc, call, locals, expired, bounds>>

Signals == INSTANCE ThreadEvent WITH Events <- Ops

(* A call waits on the event of its own operation and signals the other.   *)
Own(t)   == call[t].op
Other(t) == IF call[t].op = "Put" THEN "Get" ELSE "Put"

m_len == Capacity + 1
Slots == 0 .. Capacity

(* An idle thread: the state before its next call.                         *)
NoCall == [op |-> "Get", wait |-> "once", msg |-> NoMessage]

Init ==
  /\ m_lockvar = 0
  /\ idx_put = 0
  /\ idx_get = 0
  /\ msgs = [i \in Slots |-> NoMessage]
  /\ Signals!EventInit
  /\ pc       = [t \in Threads |-> "idle"]
  /\ call     = [t \in Threads |-> NoCall]
  /\ newidx   = [t \in Threads |-> 0]
  /\ rmsg     = [t \in Threads |-> NoMessage]
  /\ result   = [t \in Threads |-> FALSE]
  /\ sequence = [t \in Threads |-> 0]
  /\ expired  = [t \in Threads |-> FALSE]
  /\ calls    = [t \in Threads |-> 0]
  /\ interrupts = 0

At(t, from)   == pc[t] = from
Go(t, to)     == pc' = [pc EXCEPT ![t] = to]
Step(t, from, to) == At(t, from) /\ Go(t, to)

-----------------------------------------------------------------------------
(* Entry: a zero timeout calls Put or Get directly, any other computes its *)
(* deadline and enters the snapshot loop.                                  *)
Begin(t, c) ==
  /\ calls[t] < MaxCalls
  /\ Step(t, "idle", IF c.wait = "once" THEN "lock" ELSE "snapshot")
  /\ call'  = [call EXCEPT ![t] = c]
  /\ calls' = [calls EXCEPT ![t] = @ + 1]
  /\ UNCHANGED <<shared, event, locals, expired, interrupts>>

BeginPut(t) ==
  /\ t \in Producers
  /\ \E w \in WaitModes, m \in Messages :
       Begin(t, [op |-> "Put", wait |-> w, msg |-> m])

BeginGet(t) ==
  /\ t \in Consumers
  /\ \E w \in WaitModes :
       Begin(t, [op |-> "Get", wait |-> w, msg |-> NoMessage])

TakeSnapshot(t) ==
  /\ Step(t, "snapshot", "lock")
  /\ sequence' = [sequence EXCEPT ![t] = Signals!Snapshot(Own(t))]
  /\ UNCHANGED <<shared, event, call, newidx, rmsg, result, expired, bounds>>

(* Mutant: the exchanged value is not tested.                              *)
LockUntested(t) ==
  /\ Step(t, "lock", "test")
  /\ m_lockvar' = 1
  /\ UNCHANGED <<idx_put, idx_get, msgs, event, call, locals, expired, bounds>>

(* OSpinLockVar.Lock: the Exchange(1) that returns 0; the others spin.     *)
Lock(t) ==
  /\ Step(t, "lock", "test")
  /\ m_lockvar = 0
  /\ m_lockvar' = 1
  /\ UNCHANGED <<idx_put, idx_get, msgs, event, call, locals, expired, bounds>>

-----------------------------------------------------------------------------
(* Mutant: the ring is never found full.                                   *)
TestPutAlwaysRoom(t) ==
  /\ Own(t) = "Put"
  /\ newidx' = [newidx EXCEPT ![t] = (idx_put + 1) % m_len]
  /\ Step(t, "test", "copy")
  /\ UNCHANGED <<shared, event, call, rmsg, result, sequence, expired, bounds>>

(* Put: `newidx <> idx_get`, the copy into the slot, the new index.        *)
TestPut(t) ==
  /\ Own(t) = "Put"
  /\ LET next == (idx_put + 1) % m_len
     IN  /\ newidx' = [newidx EXCEPT ![t] = next]
         /\ Step(t, "test", IF next # idx_get THEN "copy" ELSE "unlock")
  /\ UNCHANGED <<shared, event, call, rmsg, result, sequence, expired, bounds>>

CopyPut(t) ==
  /\ Own(t) = "Put"
  /\ Step(t, "copy", "advance")
  /\ msgs' = [msgs EXCEPT ![idx_put] = call[t].msg]
  /\ UNCHANGED <<m_lockvar, idx_put, idx_get, event, call, locals, expired, bounds>>

AdvancePut(t) ==
  /\ Own(t) = "Put"
  /\ Step(t, "advance", "unlock")
  /\ idx_put' = newidx[t]
  /\ result'  = [result EXCEPT ![t] = TRUE]
  /\ UNCHANGED <<m_lockvar, idx_get, msgs, event, call, newidx, rmsg, sequence,
                 expired, bounds>>

(* Get: `idx_get <> idx_put`, the copy out of the slot, the new index.     *)
TestGet(t) ==
  /\ Own(t) = "Get"
  /\ Step(t, "test", IF idx_get # idx_put THEN "copy" ELSE "unlock")
  /\ UNCHANGED <<shared, event, call, locals, expired, bounds>>

CopyGet(t) ==
  /\ Own(t) = "Get"
  /\ Step(t, "copy", "advance")
  /\ rmsg' = [rmsg EXCEPT ![t] = msgs[idx_get]]
  /\ UNCHANGED <<shared, event, call, newidx, result, sequence, expired, bounds>>

(* Mutant: the index does not wrap.                                        *)
AdvanceGetNoWrap(t) ==
  /\ Own(t) = "Get"
  /\ Step(t, "advance", "unlock")
  /\ idx_get' = idx_get + 1
  /\ result'  = [result EXCEPT ![t] = TRUE]
  /\ UNCHANGED <<m_lockvar, idx_put, msgs, event, call, newidx, rmsg, sequence,
                 expired, bounds>>

AdvanceGet(t) ==
  /\ Own(t) = "Get"
  /\ Step(t, "advance", "unlock")
  /\ idx_get' = (idx_get + 1) % m_len
  /\ result'  = [result EXCEPT ![t] = TRUE]
  /\ UNCHANGED <<m_lockvar, idx_put, msgs, event, call, newidx, rmsg, sequence,
                 expired, bounds>>

(* The lock is released before the other side is signalled.                *)
Unlock(t) ==
  /\ Step(t, "unlock",
          IF result[t] THEN "signal"
          ELSE IF call[t].wait = "once" THEN "return" ELSE "deadline")
  /\ m_lockvar' = 0
  /\ UNCHANGED <<idx_put, idx_get, msgs, event, call, locals, expired, bounds>>

-----------------------------------------------------------------------------
(* OThreadEvent.Signal of the other side's event.                          *)
SignalAdd(t) ==
  /\ Step(t, "signal", "waiters")
  /\ Signals!SignalAdd(Other(t))
  /\ UNCHANGED <<shared, call, locals, expired, bounds>>

SignalLoad(t) ==
  /\ Step(t, "waiters", IF Signals!HasWaiters(Other(t)) THEN "wake" ELSE "return")
  /\ UNCHANGED <<shared, event, call, locals, expired, bounds>>

(* Mutant: Get and Put wake a waiter of their own kind.                    *)
SignalWakeOwn(t) ==
  /\ Step(t, "wake", "return")
  /\ Signals!Wake(Own(t))
  /\ UNCHANGED <<shared, call, locals, expired, bounds>>

SignalWake(t) ==
  /\ Step(t, "wake", "return")
  /\ Signals!Wake(Other(t))
  /\ UNCHANGED <<shared, call, locals, expired, bounds>>

-----------------------------------------------------------------------------
(* Mutant: the sequence to wait for is read after the test of the ring.    *)
CheckDeadlineLateSnapshot(t) ==
  /\ Step(t, "deadline", IF expired[t] THEN "return" ELSE "register")
  /\ sequence' = [sequence EXCEPT ![t] = Signals!Snapshot(Own(t))]
  /\ UNCHANGED <<shared, event, call, newidx, rmsg, result, expired, bounds>>

(* OThreadEvent.WaitUntilNanos on the call's own event.                    *)
CheckDeadline(t) ==
  /\ Step(t, "deadline", IF expired[t] THEN "return" ELSE "register")
  /\ UNCHANGED <<shared, event, call, locals, expired, bounds>>

Register(t) ==
  /\ Step(t, "register", "futex")
  /\ Signals!Register(Own(t))
  /\ UNCHANGED <<shared, call, locals, expired, bounds>>

FutexSleep(t) ==
  /\ Step(t, "futex", "asleep")
  /\ Signals!FutexSleep(Own(t), t, sequence[t])
  /\ UNCHANGED <<shared, call, locals, expired, bounds>>

FutexAgain(t) ==
  /\ Step(t, "futex", "again")
  /\ Signals!FutexAgain(Own(t), sequence[t])
  /\ UNCHANGED <<shared, call, locals, expired, bounds>>

(* The futex call returns 0: a Signal took the thread off the queue.       *)
Woken(t) ==
  /\ t \notin event[Own(t)].sleeping
  /\ Step(t, "asleep", "again")
  /\ UNCHANGED <<shared, event, call, locals, expired, bounds>>

(* EINTR: the wait ends without a Signal.                                  *)
Interrupt(t) ==
  /\ interrupts < MaxInterrupts
  /\ Step(t, "asleep", "again")
  /\ Signals!FutexLeave(Own(t), t)
  /\ interrupts' = interrupts + 1
  /\ UNCHANGED <<shared, call, locals, expired, calls>>

(* Mutant: the futex gets no timeout pointer.                              *)
FutexTimeoutUnset(t) ==
  /\ expired[t] /\ call[t].wait # "deadline"
  /\ Step(t, "asleep", "giveup")
  /\ Signals!FutexLeave(Own(t), t)
  /\ UNCHANGED <<shared, call, locals, expired, bounds>>

(* ETIMEDOUT: the only way the call gives up after it slept.               *)
FutexTimeout(t) ==
  /\ expired[t]
  /\ Step(t, "asleep", "giveup")
  /\ Signals!FutexLeave(Own(t), t)
  /\ UNCHANGED <<shared, call, locals, expired, bounds>>

(* Mutants: the timeout path skips the decrement; only rc = 0 is success.  *)
UnregisterNotOnTimeout(t) ==
  /\ \/ Step(t, "again", "snapshot") /\ Signals!Unregister(Own(t))
     \/ Step(t, "giveup", "return") /\ UNCHANGED event
  /\ UNCHANGED <<shared, call, locals, expired, bounds>>

UnregisterAlwaysFalse(t) ==
  /\ Step(t, "again", "return") \/ Step(t, "giveup", "return")
  /\ Signals!Unregister(Own(t))
  /\ UNCHANGED <<shared, call, locals, expired, bounds>>

(* m_waiters.Add(0xFFFFFFFF), then TRUE (look again) or FALSE.             *)
Unregister(t) ==
  /\ \/ Step(t, "again", "snapshot")
     \/ Step(t, "giveup", "return")
  /\ Signals!Unregister(Own(t))
  /\ UNCHANGED <<shared, call, locals, expired, bounds>>

(* The locals go out of scope.                                             *)
Return(t) ==
  /\ Step(t, "return", "idle")
  /\ call'     = [call EXCEPT ![t] = NoCall]
  /\ result'   = [result EXCEPT ![t] = FALSE]
  /\ rmsg'     = [rmsg EXCEPT ![t] = NoMessage]
  /\ newidx'   = [newidx EXCEPT ![t] = 0]
  /\ sequence' = [sequence EXCEPT ![t] = 0]
  /\ expired'  = [expired EXCEPT ![t] = FALSE]
  /\ UNCHANGED <<shared, event, bounds>>

(* Time passes the deadline of a call in progress.                         *)
Expire(t) ==
  /\ ~At(t, "idle") /\ call[t].wait = "deadline" /\ ~expired[t]
  /\ expired' = [expired EXCEPT ![t] = TRUE]
  /\ UNCHANGED <<shared, event, pc, call, locals, bounds>>

-----------------------------------------------------------------------------
(* The steps a thread takes by itself once it is in a call.                *)
Run(t) ==
  \/ TakeSnapshot(t) \/ Lock(t)
  \/ TestPut(t) \/ CopyPut(t) \/ AdvancePut(t)
  \/ TestGet(t) \/ CopyGet(t) \/ AdvanceGet(t)
  \/ Unlock(t)
  \/ SignalAdd(t) \/ SignalLoad(t) \/ SignalWake(t)
  \/ CheckDeadline(t) \/ Register(t) \/ FutexSleep(t) \/ FutexAgain(t)
  \/ Woken(t) \/ FutexTimeout(t) \/ Unregister(t) \/ Return(t)

(* Every thread is back from its last call, or sleeps with no deadline.    *)
Finished ==
  /\ \A t \in Threads :
       \/ At(t, "idle") /\ calls[t] = MaxCalls
       \/ At(t, "asleep") /\ t \in event[Own(t)].sleeping
          /\ call[t].wait = "forever"
  /\ UNCHANGED vars

Next == \/ \E t \in Threads : BeginPut(t) \/ BeginGet(t) \/ Run(t)
                              \/ Interrupt(t) \/ Expire(t)
        \/ Finished

Spec == Init /\ [][Next]_vars

(* The scheduler runs every runnable thread and the clock advances; when   *)
(* or whether a client makes another call is its own business.             *)
Fairness == \A t \in Threads : WF_vars(Run(t)) /\ WF_vars(Expire(t))

FairSpec == Spec /\ Fairness
-----------------------------------------------------------------------------
(* The abstract channel behind the ring.                                   *)
Count == (idx_put - idx_get) % m_len
queue == [i \in 1 .. Count |-> msgs[(idx_get + i - 1) % m_len]]

Phase(t) ==
  IF pc[t] = "idle" THEN "idle"
  ELSE IF pc[t] \in {"snapshot", "lock", "test", "copy", "advance"} THEN "pending"
  ELSE IF result[t] THEN "done" ELSE "failed"

client ==
  [t \in Threads |->
     [phase |-> Phase(t), op |-> call[t].op, wait |-> call[t].wait,
      msg   |-> IF call[t].op = "Get" /\ Phase(t) = "done" THEN rmsg[t]
                ELSE call[t].msg]]

Fifo == INSTANCE BoundedFifo

(* The channel is a linearizable bounded FIFO: every successful Put and    *)
(* Get moves one message at one instant inside the call, in order, a       *)
(* refused call leaves the queue alone, a call is refused only when the    *)
(* channel really was full (empty) during the call, and a wait without a   *)
(* deadline never returns FALSE (docs/index.md "Message Channels").        *)
ImplementsFifo == Fifo!Spec

-----------------------------------------------------------------------------
InCritical(t) == pc[t] \in {"test", "copy", "advance", "unlock"}

PCs == {"idle", "snapshot", "lock", "test", "copy", "advance", "unlock",
        "signal", "waiters", "wake", "deadline", "register", "futex",
        "asleep", "again", "giveup", "return"}

(* The variables keep their types: the indices stay in the ring and the    *)
(* waiter count, an unsigned number in the code, never goes below zero.    *)
TypeOK ==
  /\ m_lockvar \in {0, 1}
  /\ idx_put \in Slots /\ idx_get \in Slots
  /\ msgs \in [Slots -> Messages \cup {NoMessage}]
  /\ Signals!EventTypeOK
  /\ pc \in [Threads -> PCs]
  /\ call \in [Threads -> [op : Ops, wait : Waits, msg : Messages \cup {NoMessage}]]
  /\ newidx \in [Threads -> Slots]
  /\ rmsg \in [Threads -> Messages \cup {NoMessage}]
  /\ result \in [Threads -> BOOLEAN]
  /\ sequence \in [Threads -> 0 .. SeqMod - 1]
  /\ expired \in [Threads -> BOOLEAN]
  /\ calls \in [Threads -> 0 .. MaxCalls]
  /\ interrupts \in 0 .. MaxInterrupts

(* The spinlock admits one thread to the ring at a time and is held        *)
(* exactly while a thread is inside (spinlock.dqh Lock and Unlock).        *)
MutualExclusion ==
  /\ \A s, t \in Threads : InCritical(s) /\ InCritical(t) => s = t
  /\ m_lockvar = 0 <=> \A t \in Threads : ~InCritical(t)

(* The threads between m_waiters.Add(1) and m_waiters.Add(0xFFFFFFFF).     *)
Registered(e) ==
  {t \in Threads : Own(t) = e /\ pc[t] \in {"futex", "asleep", "again", "giveup"}}

(* Signal may skip the wake only because this count is exact: no path out  *)
(* of WaitUntilNanos (wake, EAGAIN, EINTR, timeout) loses or repeats an    *)
(* unregistration, and whoever sleeps is counted.                          *)
WaitersExact ==
  \A e \in Ops :
    /\ event[e].m_waiters = Cardinality(Registered(e))
    /\ event[e].sleeping \subseteq {t \in Registered(e) : pc[t] = "asleep"}

(* The calls that have moved a message and have yet to signal event e.     *)
SignalPending(e) ==
  {t \in Threads : Other(t) = e /\ result[t]
                     /\ pc[t] \in {"unlock", "signal", "waiters", "wake"}}

(* The calls waiting on e that are awake and will look at the ring again.  *)
WillLook(e) ==
  {t \in Threads : Own(t) = e
      /\ \/ pc[t] \in {"snapshot", "lock", "test", "copy", "advance", "again"}
         \/ pc[t] = "asleep" /\ t \notin event[e].sleeping}

(* What a waiter on e waits for: messages to get, free slots to put into.  *)
Available(e) == IF e = "Get" THEN Count ELSE Capacity - Count

(* A thread sleeps on an event only if each message (free slot) it could   *)
(* use is already promised to a pending Signal or to a call that is awake: *)
(* the snapshot before the test, and m_waiters loaded after m_sequence is  *)
(* bumped, leave no window (docs/index.md, "prevents a notification        *)
(* between that check and the kernel wait from being missed").             *)
NoLostWakeup ==
  \A e \in Ops :
    event[e].sleeping # {} =>
      Available(e) <= Cardinality(SignalPending(e)) + Cardinality(WillLook(e))

(* A call with a timeout answers FALSE only once its deadline has passed:  *)
(* a wake, a changed sequence or an EINTR sends it back to the ring.       *)
TimeoutOnlyPastDeadline ==
  \A t \in Threads :
    pc[t] = "return" /\ ~result[t] /\ call[t].wait = "deadline" => expired[t]

(* No thread sleeps on while what it waits for stays available.            *)
SleeperServed ==
  \A t \in Threads :
    (At(t, "asleep") /\ Available(Own(t)) > 0)
      ~> (~At(t, "asleep") \/ Available(Own(t)) = 0)

(* A call with a timeout returns, whatever the other threads do.           *)
TimedCallReturns ==
  \A t \in Threads : call[t].wait = "deadline" ~> At(t, "idle")
=============================================================================
